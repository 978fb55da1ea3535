------------------------------ MODULE UiProofs ------------------------------
(***************************************************************************)
(* Proofs about what the user sees: the screen lock (ScreenLock) and the   *)
(* delivery marks of a conversation (DeliveryMarks), for every value of    *)
(* their constants.  The two are independent specifications.               *)
(***************************************************************************)
EXTENDS ScreenLock, DeliveryMarks, TLAPS, FiniteSetTheorems,
        SequenceTheorems, WellFoundedInduction

-----------------------------------------------------------------------------
(***************************************************************************)
(* ScreenLock: at the end of every step lock, overlay, sleep and blink     *)
(* agree; a wake gesture does nothing else; wrong PINs are paced; and the  *)
(* lock in force is the stored one.                                        *)
(***************************************************************************)

-----------------------------------------------------------------------------
(***************************************************************************)
(* The inductive invariant.                                                *)
(***************************************************************************)
\* The fields of UiRuntime within a step: the bound on fails is a guard of Step.
Ui ==
    [locked : BOOLEAN, overlay : BOOLEAN,
     shown : {"splash", "app", "overlay", "none"}, active : {"splash", "app"},
     asleep : BOOLEAN, swallow : BOOLEAN, idle : 0..IdleCap, nav : BOOLEAN,
     down : {"splash", "app", "overlay", "none"},
     fails : Nat, lockout : 0..BackoffCap, lockAge : 0..BackoffCap,
     confirm : {NoPin} \cup Entries, enabled : BOOLEAN, pin : {NoPin} \cup Pins,
     seeded : BOOLEAN, blink : BOOLEAN, heard : BOOLEAN, lit : {"off", "dim", "full"},
     applied : {"dim", "full"}, dim : BOOLEAN,
     wrongAge : 0..BackoffCap, hasty : BOOLEAN, leak : BOOLEAN]

\* The lockout in force is that of the wrong PINs counted, or has run out, and
\* the clock it is measured with is the age of the last wrong PIN.
Paced(s) ==
    /\ ~s.hasty
    /\ s.lockAge = s.wrongAge
    /\ s.lockout = 0 => s.wrongAge >= LockoutAfter(s.fails)
    /\ s.lockout # 0 => s.lockout >= LockoutAfter(s.fails)

Lit(s) ==
    /\ s.asleep <=> s.lit = "off"
    /\ s.heard => s.blink
    /\ s.blink => s.asleep

\* What every block of a step keeps.
Sound(s) == s \in Ui /\ Paced(s) /\ Lit(s)

\* A gesture that woke the screen is swallowed to its end.
GestureInv == ~ui.leak /\ (env.woke => ui.swallow)

Settings == [pin : {NoPin} \cup Pins, enabled : BOOLEAN]

Events ==
    [kind : {"seed"}, pin : {NoPin} \cup Pins, enabled : BOOLEAN]
        \cup [kind : {"pin"}, pin : Pins]
        \cup [kind : {"config"}, enabled : BOOLEAN]
        \cup [kind : {"message"}]

CarriesPin(e) == e.kind \in {"seed", "pin"}

\* p is the PIN the UI holds once it has handled the queue q.
PinAfter(p, u, q) ==
    /\ (\A i \in 1..Len(q) : ~CarriesPin(q[i])) => u.pin = p
    /\ \A i \in 1..Len(q) :
          (CarriesPin(q[i]) /\ \A j \in (i + 1)..Len(q) : ~CarriesPin(q[j])) => q[i].pin = p

\* e is the lock setting flash holds once the commands of q are carried out.
EnabledAfter(e, f, q) == e = (IF q = <<>> THEN f ELSE q[Len(q)])

\* Nothing lost, the boot seed comes first, and what is under way leads from what
\* the UI holds to what flash holds.
UnseededInv ==
    ~seed.sent /\ ~lost =>
        /\ evtq = <<>> /\ cmdq = <<>> /\ ~ui.seeded
        /\ seed.pin = flash.pin /\ seed.enabled = flash.enabled

SeedUnderWayInv ==
    seed.sent /\ ~lost /\ ~ui.seeded =>
        /\ cmdq = <<>> /\ evtq # <<>>
        /\ evtq[1].kind = "seed" /\ evtq[1].enabled = flash.enabled

SeededInv ==
    seed.sent /\ ~lost /\ ui.seeded => EnabledAfter(ui.enabled, flash.enabled, cmdq)

PinInv == seed.sent /\ ~lost => PinAfter(flash.pin, ui, evtq)

OneSeed ==
    ~lost => \A i \in 1..Len(evtq) : evtq[i].kind = "seed" => i = 1 /\ ~ui.seeded

QueueInv ==
    /\ evtq \in Seq(Events) /\ Len(evtq) <= EventCap
    /\ cmdq \in Seq(BOOLEAN) /\ Len(cmdq) <= CommandCap
    /\ flash \in Settings
    /\ seed \in [sent : BOOLEAN, pin : {NoPin} \cup Pins, enabled : BOOLEAN]
    /\ lost \in BOOLEAN
    /\ env \in [finger : BOOLEAN, woke : BOOLEAN]

FlowInv == UnseededInv /\ SeedUnderWayInv /\ SeededInv /\ PinInv /\ OneSeed

IInv ==
    /\ Sound(ui) /\ ui.fails <= MaxFails
    /\ LockedFrameIsOverlay /\ IdleDeviceLocks
    /\ GestureInv
    /\ QueueInv
    /\ FlowInv

-----------------------------------------------------------------------------
(***************************************************************************)
(* Numbers: the caps and the backoff table.                                *)
(***************************************************************************)
LEMMA LeastExists ==
    ASSUME NEW S \in SUBSET Nat, S # {}
    PROVE  \E m \in S : \A n \in S : m <= n
<1>1. PICK m \in S : \A y \in S : <<y, m>> \notin OpToRel(<, Nat)
  BY NatLessThanWellFounded, WFMin
<1>2. \A y \in S : ~(y < m)
  BY <1>1 DEF OpToRel
<1> QED
  BY <1>2

LEMMA AnyTwo == \A a, b \in Nat : a <= b \/ b <= a
  OBVIOUS

\* The table has a largest entry.
LEMMA BackoffMax ==
    \E m \in {Backoff[i] : i \in 1..Len(Backoff)} : \A i \in 1..Len(Backoff) : Backoff[i] <= m
<1> DEFINE Bounded(n) ==
             n = 0 \/ \E m \in 1..n : \A i \in 1..n : Backoff[i] <= Backoff[m]
           Bad == {n \in 0..Len(Backoff) : ~Bounded(n)}
<1>1. Len(Backoff) \in Nat \ {0} /\ \A i \in 1..Len(Backoff) : Backoff[i] \in Nat
  BY ScreenLockAssumption
<1>2. Bad = {}
  <2>1. SUFFICES ASSUME Bad # {} PROVE FALSE
    OBVIOUS
  <2>2. Bad \in SUBSET Nat
    BY <1>1
  <2>3. PICK n \in Bad : \A k \in Bad : n <= k
    BY <2>1, <2>2, LeastExists
  <2>4. n \in 1..Len(Backoff) /\ n - 1 \in 0..Len(Backoff) /\ ~Bounded(n)
    BY <1>1, <2>3
  <2>5. Bounded(n - 1)
    <3> HIDE DEF Bad
    <3>1. n - 1 \notin Bad
      BY <2>3, <2>4, <1>1
    <3> QED
      BY <2>4, <3>1 DEF Bad
  <2>6. CASE n = 1
    BY <1>1, <2>4, <2>6
  <2>7. CASE n # 1
    <3>1. PICK m \in 1..(n - 1) : \A i \in 1..(n - 1) : Backoff[i] <= Backoff[m]
      BY <2>4, <2>5, <2>7
    <3>2. Backoff[n] \in Nat /\ Backoff[m] \in Nat /\ \A i \in 1..n : i = n \/ i \in 1..(n - 1)
      <4>1. n \in 1..Len(Backoff) /\ m \in 1..Len(Backoff) /\ n \in Nat
        BY <1>1, <2>4
      <4> HIDE DEF Bounded, Bad
      <4>2. Backoff[n] \in Nat /\ Backoff[m] \in Nat
        BY <1>1, <4>1
      <4>3. \A i \in 1..n : i = n \/ i \in 1..(n - 1)
        BY <4>1
      <4> QED
        BY <4>2, <4>3
    <3>3. CASE Backoff[n] <= Backoff[m]
      <4>1. m \in 1..n /\ \A i \in 1..n : Backoff[i] <= Backoff[m]
        <5>1. n \in Nat
          BY <2>4
        <5> HIDE DEF Bounded, Bad
        <5>2. m \in 1..n
          BY <5>1
        <5>3. \A i \in 1..n : Backoff[i] <= Backoff[m]
          BY <3>1, <3>2, <3>3, Zenon
        <5> QED
          BY <5>2, <5>3
      <4> QED
        BY <2>4, <4>1
    <3>4. CASE Backoff[m] <= Backoff[n]
      <4>1. ASSUME NEW i \in 1..n PROVE Backoff[i] <= Backoff[n]
        <5>1. Backoff[i] \in Nat
          BY <1>1, <2>4
        <5>2. i = n \/ Backoff[i] <= Backoff[m]
          BY <3>1, <3>2
        <5> HIDE DEF Bounded, Bad
        <5> QED
          BY <3>2, <3>4, <5>1, <5>2
      <4>2. n \in 1..n /\ \A i \in 1..n : Backoff[i] <= Backoff[n]
        BY <2>4, <4>1
      <4> QED
        BY <2>4, <4>2
    <3>5. Backoff[n] <= Backoff[m] \/ Backoff[m] <= Backoff[n]
      BY <3>2, AnyTwo
    <3> QED
      BY <3>3, <3>4, <3>5, Zenon
  <2> QED
    BY <2>6, <2>7
<1>3. Bounded(Len(Backoff)) /\ Len(Backoff) # 0
  BY <1>1, <1>2
<1>4. PICK m \in 1..Len(Backoff) : \A i \in 1..Len(Backoff) : Backoff[i] <= Backoff[m]
  BY <1>3
<1> QED
  BY <1>4

LEMMA Caps ==
    /\ IdleCap \in Nat /\ LockAfter \in Nat /\ SleepAfter \in Nat /\ DimLead \in Nat
    /\ BackoffCap \in Nat /\ MaxFails \in Nat
    /\ \A n \in Nat : LockoutAfter(n) \in 0..BackoffCap
    /\ LockoutAfter(0) = 0
<1>1. /\ IdleCap \in Nat /\ LockAfter \in Nat /\ SleepAfter \in Nat /\ DimLead \in Nat
      /\ MaxFails \in Nat /\ FreeAttempts \in Nat
  BY ScreenLockAssumption DEF IdleCap
<1>2. /\ Len(Backoff) \in Nat \ {0}
      /\ \A i \in 1..Len(Backoff) : Backoff[i] \in Nat
  BY ScreenLockAssumption
<1>3. BackoffCap \in {Backoff[i] : i \in 1..Len(Backoff)} /\ \A i \in 1..Len(Backoff) : Backoff[i] <= BackoffCap
  BY BackoffMax DEF BackoffCap
<1>4. BackoffCap \in Nat
  BY <1>2, <1>3
<1>5. ASSUME NEW n \in Nat PROVE LockoutAfter(n) \in 0..BackoffCap
  <2>1. CASE n <= FreeAttempts
    BY <1>4, <2>1 DEF LockoutAfter
  <2>2. CASE ~(n <= FreeAttempts)
    <3>1. n - FreeAttempts \in Nat \ {0}
      BY <1>1, <2>2
    <3>2. Least(n - FreeAttempts, Len(Backoff)) \in 1..Len(Backoff)
      BY <1>2, <3>1 DEF Least
    <3> QED
      BY <1>2, <1>3, <1>4, <2>2, <3>2 DEF LockoutAfter
  <2> QED
    BY <2>1, <2>2
<1>6. LockoutAfter(0) = 0
  BY <1>1 DEF LockoutAfter
<1> QED
  BY <1>1, <1>4, <1>5, <1>6

-----------------------------------------------------------------------------
(***************************************************************************)
(* The blocks of a step, one by one: each keeps Sound, and says what it    *)
(* does to the fields the queues and the gesture depend on.                *)
(***************************************************************************)
Keeps(s, t) ==
    /\ t.pin = s.pin /\ t.enabled = s.enabled /\ t.seeded = s.seeded
    /\ t.swallow = s.swallow /\ t.leak = s.leak

SamePace(s, t) ==
    /\ t.hasty = s.hasty /\ t.fails = s.fails /\ t.lockout = s.lockout
    /\ t.lockAge = s.lockAge /\ t.wrongAge = s.wrongAge

SameLight(s, t) ==
    t.asleep = s.asleep /\ t.lit = s.lit /\ t.heard = s.heard /\ t.blink = s.blink

LEMMA SoundFrom ==
    ASSUME NEW s, Sound(s), NEW t \in Ui, SamePace(s, t), SameLight(s, t)
    PROVE  Sound(t)
  BY Zenon DEF Sound, Paced, Lit, SamePace, SameLight

LEMMA WakeFacts ==
    ASSUME NEW s, Sound(s)
    PROVE  /\ Sound(WakeScreen(s)) /\ Keeps(s, WakeScreen(s))
           /\ ~WakeScreen(s).asleep
<1> DEFINE t == WakeScreen(s)
<1>1. s \in Ui /\ Paced(s) /\ 0 \in 0..IdleCap
  BY Caps DEF Sound
<1>2. t \in Ui
  BY <1>1, Zenon DEF WakeScreen, Ui
<1>3. Keeps(s, t) /\ SamePace(s, t)
  BY <1>1, Zenon DEF WakeScreen, Ui, Keeps, SamePace
<1>4. t.asleep = FALSE /\ t.lit = "full" /\ t.heard = FALSE /\ t.blink = FALSE
  BY <1>1, Zenon DEF WakeScreen, Ui
<1> HIDE DEF t
<1>5. Paced(t)
  BY <1>1, <1>3, Zenon DEF Paced, SamePace
<1>6. Lit(t)
  BY <1>4 DEF Lit
<1> QED
  BY <1>2, <1>3, <1>4, <1>5, <1>6 DEF Sound, t

LEMMA SleepFacts ==
    ASSUME NEW s, Sound(s)
    PROVE  Sound(SleepScreen(s)) /\ Keeps(s, SleepScreen(s))
<1> DEFINE t == SleepScreen(s)
<1>1. s \in Ui /\ Paced(s) /\ Lit(s)
  BY DEF Sound
<1>2. t \in Ui
  BY <1>1, Zenon DEF SleepScreen, Ui
<1>3. Keeps(s, t) /\ SamePace(s, t)
  BY <1>1, Zenon DEF SleepScreen, Ui, Keeps, SamePace
<1>4. t.asleep = TRUE /\ t.lit = "off" /\ t.heard = s.heard /\ t.blink = s.blink
  BY <1>1, Zenon DEF SleepScreen, Ui
<1> HIDE DEF t
<1>5. Paced(t)
  BY <1>1, <1>3, Zenon DEF Paced, SamePace
<1>6. Lit(t)
  BY <1>1, <1>4, Zenon DEF Lit
<1> QED
  BY <1>2, <1>3, <1>5, <1>6 DEF Sound, t

LEMMA ConstructFacts ==
    ASSUME NEW s, Sound(s), NEW built \in BOOLEAN
    PROVE  /\ Sound(Construct(s, built)) /\ Keeps(s, Construct(s, built))
           /\ Construct(s, built).locked = s.locked
           /\ Construct(s, built).idle = s.idle
<1> DEFINE t == [s EXCEPT !.overlay = TRUE, !.shown = "overlay"]
<1>1. s \in Ui
  BY DEF Sound
<1>2. t \in Ui
  BY <1>1, Zenon DEF Ui
<1>3. /\ Keeps(s, t) /\ SamePace(s, t) /\ SameLight(s, t)
      /\ t.locked = s.locked /\ t.idle = s.idle
  BY <1>1, Zenon DEF Ui, Keeps, SamePace, SameLight
<1> HIDE DEF t
<1>4. Sound(t) /\ Keeps(s, s)
  BY <1>2, <1>3, SoundFrom DEF Keeps
<1>5. Construct(s, built) = s \/ Construct(s, built) = t
  BY DEF Construct, t
<1> QED
  BY <1>3, <1>4, <1>5, Zenon

LEMMA TripFacts ==
    ASSUME NEW s, Sound(s), NEW built \in BOOLEAN
    PROVE  /\ Sound(TripLock(s, built)) /\ Keeps(s, TripLock(s, built))
           /\ TripLock(s, built).locked
           /\ TripLock(s, built).idle = s.idle
<1> DEFINE t == [s EXCEPT !.locked = TRUE, !.shown = "none"]
           u == Construct(t, built)
<1>1. s \in Ui
  BY DEF Sound
<1>2. t \in Ui
  BY <1>1, Zenon DEF Ui
<1>3. /\ Keeps(s, t) /\ SamePace(s, t) /\ SameLight(s, t)
      /\ t.locked = TRUE /\ t.idle = s.idle
  BY <1>1, Zenon DEF Ui, Keeps, SamePace, SameLight
<1>4. TripLock(s, built) = IF s.locked THEN s ELSE u
  BY Zenon DEF TripLock
<1> HIDE DEF t
<1>5. Sound(t)
  BY <1>2, <1>3, SoundFrom
<1>6. Sound(u) /\ Keeps(t, u) /\ u.locked = t.locked /\ u.idle = t.idle
  BY <1>5, ConstructFacts
<1> HIDE DEF u
<1>7. Keeps(s, u) /\ Keeps(s, s)
  BY <1>3, <1>6, Zenon DEF Keeps
<1>8. CASE s.locked
  BY <1>4, <1>7, <1>8, Zenon
<1>9. CASE ~s.locked
  BY <1>3, <1>4, <1>6, <1>7, <1>9, Zenon
<1> QED
  BY <1>8, <1>9

Unlocked(s, w) == [s EXCEPT !.locked = FALSE, !.overlay = FALSE, !.lockout = 0,
                            !.shown = w, !.idle = 0]

LEMMA UnlockedFacts ==
    ASSUME NEW s \in Ui, 0 \in 0..IdleCap, 0 \in 0..BackoffCap
    PROVE  /\ Unlocked(s, "splash") \in Ui
           /\ Unlocked(s, "app") \in Ui
           /\ \A w : /\ Keeps(s, Unlocked(s, w)) /\ SameLight(s, Unlocked(s, w))
                     /\ Unlocked(s, w).hasty = s.hasty /\ Unlocked(s, w).fails = s.fails
                     /\ Unlocked(s, w).lockAge = s.lockAge
                     /\ Unlocked(s, w).wrongAge = s.wrongAge
                     /\ Unlocked(s, w).lockout = 0
<1>1. Unlocked(s, "splash") \in Ui
  BY Zenon DEF Ui, Unlocked
<1>2. Unlocked(s, "app") \in Ui
  BY Zenon DEF Ui, Unlocked
<1>3. ASSUME NEW w
      PROVE  /\ Keeps(s, Unlocked(s, w)) /\ SameLight(s, Unlocked(s, w))
             /\ Unlocked(s, w).hasty = s.hasty /\ Unlocked(s, w).fails = s.fails
             /\ Unlocked(s, w).lockAge = s.lockAge /\ Unlocked(s, w).wrongAge = s.wrongAge
             /\ Unlocked(s, w).lockout = 0
  BY Zenon DEF Ui, Unlocked, Keeps, SameLight
<1> QED
  BY <1>1, <1>2, <1>3, Zenon

LEMMA UnlockFacts ==
    ASSUME NEW s, Sound(s), s.fails = 0
    PROVE  Sound(Unlock(s)) /\ Keeps(s, Unlock(s))
<1> DEFINE t == Unlocked(s, s.active)
<1>1. s \in Ui /\ Paced(s) /\ Lit(s) /\ 0 \in 0..IdleCap /\ 0 \in 0..BackoffCap
  BY Caps DEF Sound
<1>2. s.active = "splash" \/ s.active = "app"
  BY <1>1, Zenon DEF Ui
<1>3. t \in Ui
  BY <1>1, <1>2, UnlockedFacts, Zenon
<1>4. /\ Keeps(s, t) /\ SameLight(s, t) /\ t.hasty = s.hasty /\ t.fails = s.fails
      /\ t.lockout = 0 /\ t.lockAge = s.lockAge /\ t.wrongAge = s.wrongAge
  BY <1>1, UnlockedFacts, Zenon
<1>5. s.wrongAge \in 0..BackoffCap
  BY <1>1, Zenon DEF Ui
<1>6. Unlock(s) = IF ~s.locked THEN s ELSE t
  BY Zenon DEF Unlock, Unlocked
<1> HIDE DEF t
<1>7. Paced(t)
  BY <1>1, <1>4, <1>5, Caps DEF Paced
<1>8. Lit(t)
  BY <1>1, <1>4, Zenon DEF Lit, SameLight
<1>9. Keeps(s, s)
  BY Zenon DEF Keeps
<1> QED
  BY <1>3, <1>4, <1>6, <1>7, <1>8, <1>9, Zenon DEF Sound

LEMMA AdvanceFacts ==
    ASSUME NEW s, Sound(s), NEW d \in 0..1
    PROVE  Sound(Advance(s, d)) /\ Keeps(s, Advance(s, d))
<1> DEFINE i == Least(s.idle + d, IdleCap)
           a == Least(s.lockAge + d, BackoffCap)
           b == Least(s.wrongAge + d, BackoffCap)
           t == Advance(s, d)
<1>1. s \in Ui /\ Paced(s) /\ Lit(s)
  BY DEF Sound
<1>2. /\ s.idle \in 0..IdleCap /\ s.lockAge \in 0..BackoffCap /\ s.wrongAge \in 0..BackoffCap
      /\ s.fails \in Nat
  BY <1>1, Zenon DEF Ui
<1>3. /\ i \in 0..IdleCap /\ a \in 0..BackoffCap /\ b \in 0..BackoffCap /\ b >= s.wrongAge
      /\ s.lockAge = s.wrongAge => a = b
  BY <1>2, Caps DEF Least
<1>4. t = [s EXCEPT !.idle = i, !.lockAge = a, !.wrongAge = b]
  BY <1>1, Zenon DEF Advance, Ui
<1> HIDE DEF i, a, b, t
<1>5. t \in Ui
  BY <1>1, <1>3, <1>4, Zenon DEF Ui
<1>6. /\ Keeps(s, t) /\ SameLight(s, t) /\ t.hasty = s.hasty /\ t.fails = s.fails
      /\ t.lockout = s.lockout /\ t.lockAge = a /\ t.wrongAge = b
  BY <1>1, <1>4, Zenon DEF Ui, Keeps, SameLight
<1>7. LockoutAfter(s.fails) \in 0..BackoffCap
  BY <1>2, Caps
<1>8. Paced(t)
  BY <1>1, <1>2, <1>3, <1>6, <1>7, Caps DEF Paced
<1>9. Lit(t)
  BY <1>1, <1>6, Zenon DEF Lit, SameLight
<1> QED
  BY <1>5, <1>6, <1>8, <1>9 DEF Sound, t

LEMMA NavigateFacts ==
    ASSUME NEW s, Sound(s), NEW dismiss \in BOOLEAN
    PROVE  Sound(Navigate(s, dismiss)) /\ Keeps(s, Navigate(s, dismiss))
<1> DEFINE t == [s EXCEPT !.active = "app", !.shown = "app", !.nav = FALSE]
<1>1. s \in Ui
  BY DEF Sound
<1>2. t \in Ui
  BY <1>1, Zenon DEF Ui
<1>3. Keeps(s, t) /\ SamePace(s, t) /\ SameLight(s, t)
  BY <1>1, Zenon DEF Ui, Keeps, SamePace, SameLight
<1>4. Navigate(s, dismiss) = s \/ Navigate(s, dismiss) = t
  BY DEF Navigate
<1> HIDE DEF t
<1>5. Sound(t) /\ Keeps(s, s)
  BY <1>2, <1>3, SoundFrom DEF Keeps
<1> QED
  BY <1>3, <1>4, <1>5, Zenon

\* A PIN handed over: nothing is scored within a lockout.
Emptied(s) == [s EXCEPT !.confirm = NoPin]
Cleared(s) == [s EXCEPT !.confirm = NoPin, !.fails = 0]
Scored(s, l, h) ==
    [Emptied(s) EXCEPT !.fails = s.fails + 1, !.lockout = l, !.lockAge = 0, !.wrongAge = 0,
                       !.hasty = h]

LEMMA EmptiedFacts ==
    ASSUME NEW s \in Ui
    PROVE  /\ Emptied(s) \in Ui
           /\ Keeps(s, Emptied(s)) /\ SamePace(s, Emptied(s)) /\ SameLight(s, Emptied(s))
<1>1. Emptied(s) \in Ui
  BY Zenon DEF Ui, Emptied
<1>2. Keeps(s, Emptied(s)) /\ SamePace(s, Emptied(s)) /\ SameLight(s, Emptied(s))
  BY Zenon DEF Ui, Emptied, Keeps, SamePace, SameLight
<1> QED
  BY <1>1, <1>2

LEMMA ClearedFacts ==
    ASSUME NEW s \in Ui
    PROVE  /\ Cleared(s) \in Ui
           /\ Keeps(s, Cleared(s)) /\ SameLight(s, Cleared(s))
           /\ Cleared(s).hasty = s.hasty /\ Cleared(s).fails = 0
           /\ Cleared(s).lockout = s.lockout
           /\ Cleared(s).lockAge = s.lockAge /\ Cleared(s).wrongAge = s.wrongAge
<1>0. 0 \in Nat
  OBVIOUS
<1>1. Cleared(s) \in Ui
  BY <1>0, Zenon DEF Ui, Cleared
<1>2. /\ Keeps(s, Cleared(s)) /\ SameLight(s, Cleared(s))
      /\ Cleared(s).hasty = s.hasty /\ Cleared(s).fails = 0
      /\ Cleared(s).lockout = s.lockout
      /\ Cleared(s).lockAge = s.lockAge /\ Cleared(s).wrongAge = s.wrongAge
  BY Zenon DEF Ui, Cleared, Keeps, SameLight
<1> QED
  BY <1>1, <1>2

LEMMA ScoredFacts ==
    ASSUME NEW s \in Ui, NEW l \in 0..BackoffCap, 0 \in 0..BackoffCap, s.fails + 1 \in Nat
    PROVE  /\ Scored(s, l, FALSE) \in Ui
           /\ Keeps(s, Scored(s, l, FALSE)) /\ SameLight(s, Scored(s, l, FALSE))
           /\ Scored(s, l, FALSE).hasty = FALSE /\ Scored(s, l, FALSE).fails = s.fails + 1
           /\ Scored(s, l, FALSE).lockout = l
           /\ Scored(s, l, FALSE).lockAge = 0 /\ Scored(s, l, FALSE).wrongAge = 0
<1> DEFINE n == s.fails + 1
<1>1. Scored(s, l, FALSE) = [Emptied(s) EXCEPT !.fails = n, !.lockout = l, !.lockAge = 0,
                                               !.wrongAge = 0, !.hasty = FALSE]
  BY Zenon DEF Scored
<1>2. n \in Nat
  OBVIOUS
<1> HIDE DEF n
<1>3. Emptied(s) \in Ui /\ Keeps(s, Emptied(s)) /\ SameLight(s, Emptied(s))
  BY EmptiedFacts
<1>4. ASSUME NEW t \in Ui
      PROVE  [t EXCEPT !.fails = n, !.lockout = l, !.lockAge = 0, !.wrongAge = 0,
                       !.hasty = FALSE] \in Ui
  BY <1>2, Zenon DEF Ui
<1>5. ASSUME NEW t \in Ui, NEW u, u = [t EXCEPT !.fails = n, !.lockout = l, !.lockAge = 0,
                                                !.wrongAge = 0, !.hasty = FALSE]
      PROVE  /\ Keeps(t, u) /\ SameLight(t, u) /\ u.hasty = FALSE /\ u.fails = n
             /\ u.lockout = l /\ u.lockAge = 0 /\ u.wrongAge = 0
  BY <1>5, Zenon DEF Ui, Keeps, SameLight
<1>6. Scored(s, l, FALSE) \in Ui
  BY <1>1, <1>3, <1>4, Zenon
<1>7. /\ Keeps(Emptied(s), Scored(s, l, FALSE)) /\ SameLight(Emptied(s), Scored(s, l, FALSE))
      /\ Scored(s, l, FALSE).hasty = FALSE /\ Scored(s, l, FALSE).fails = n
      /\ Scored(s, l, FALSE).lockout = l
      /\ Scored(s, l, FALSE).lockAge = 0 /\ Scored(s, l, FALSE).wrongAge = 0
  BY <1>1, <1>3, <1>5, Zenon
<1> QED
  BY <1>3, <1>6, <1>7, Zenon DEF Keeps, SameLight, n

LEMMA ConfirmFacts ==
    ASSUME NEW s, Sound(s)
    PROVE  Sound(Confirm(s)) /\ Keeps(s, Confirm(s))
<1> DEFINE l == LockoutAfter(s.fails + 1)
<1>1. s \in Ui /\ Paced(s) /\ Lit(s)
  BY DEF Sound
<1>2. /\ s.fails \in Nat /\ s.lockout \in 0..BackoffCap /\ s.wrongAge \in 0..BackoffCap
  BY <1>1, Zenon DEF Ui
<1>3. 0 \in 0..BackoffCap /\ l \in 0..BackoffCap /\ s.fails + 1 \in Nat
  BY <1>2, Caps
<1>4. Confirm(s) = Emptied(s) \/ Confirm(s) = Unlock(Cleared(s))
        \/ (Allowed(s) /\ Confirm(s) = Scored(s, l, s.hasty \/ s.wrongAge < LockoutAfter(s.fails)))
  <2>1. Cleared(s) = [Emptied(s) EXCEPT !.fails = 0]
    BY <1>1 DEF Cleared, Emptied, Ui
  <2>2. /\ Emptied(s).fails = s.fails /\ Emptied(s).hasty = s.hasty /\ Emptied(s) \in Ui
    BY <1>1, EmptiedFacts, Zenon DEF SamePace
  <2>3. ASSUME NEW h
        PROVE  [Emptied(s) EXCEPT !.fails = @ + 1, !.lockout = l, !.lockAge = 0,
                                  !.wrongAge = 0, !.hasty = @ \/ h]
                 = Scored(s, l, s.hasty \/ h)
    BY <2>2, Zenon DEF Scored, Ui
  <2> QED
    BY <2>1, <2>3, Zenon DEF Confirm, Emptied
<1> HIDE DEF l
<1>5. CASE Confirm(s) = Emptied(s)
  BY <1>1, <1>5, EmptiedFacts, SoundFrom
<1>6. CASE Confirm(s) = Unlock(Cleared(s))
  <2> DEFINE t == Cleared(s)
  <2>1. /\ t \in Ui /\ Keeps(s, t) /\ SameLight(s, t)
        /\ t.hasty = s.hasty /\ t.fails = 0 /\ t.lockout = s.lockout
        /\ t.lockAge = s.lockAge /\ t.wrongAge = s.wrongAge
    BY <1>1, ClearedFacts
  <2> HIDE DEF t
  <2>2. Paced(t)
    BY <1>1, <1>2, <2>1, Caps DEF Paced
  <2>3. Lit(t)
    BY <1>1, <2>1, Zenon DEF Lit, SameLight
  <2>4. Sound(Unlock(t)) /\ Keeps(t, Unlock(t))
    BY <2>1, <2>2, <2>3, UnlockFacts DEF Sound
  <2> QED
    BY <1>6, <2>1, <2>4, Zenon DEF Keeps, t
<1>7. CASE Allowed(s) /\ Confirm(s) = Scored(s, l, s.hasty \/ s.wrongAge < LockoutAfter(s.fails))
  <2>1. LockoutAfter(s.fails) \in 0..BackoffCap
    BY <1>2, Caps
  <2>2. ~(s.wrongAge < LockoutAfter(s.fails)) /\ ~s.hasty
    BY <1>1, <1>2, <1>7, <2>1 DEF Paced, Allowed
  <2>3. (s.hasty \/ s.wrongAge < LockoutAfter(s.fails)) = FALSE
    BY <2>2
  <2> DEFINE t == Scored(s, l, FALSE)
  <2>4. Confirm(s) = t
    BY <1>7, <2>3
  <2>5. /\ t \in Ui /\ Keeps(s, t) /\ SameLight(s, t)
        /\ t.hasty = FALSE /\ t.fails = s.fails + 1 /\ t.lockout = l
        /\ t.lockAge = 0 /\ t.wrongAge = 0
    BY <1>1, <1>3, ScoredFacts
  <2> HIDE DEF t
  <2>6. Paced(t)
    BY <1>2, <1>3, <2>5, Caps DEF Paced, l
  <2>7. Lit(t)
    BY <1>1, <2>5, Zenon DEF Lit, SameLight
  <2> QED
    BY <2>4, <2>5, <2>6, <2>7 DEF Sound
<1> QED
  BY <1>4, <1>5, <1>6, <1>7

LEMMA CountdownFacts ==
    ASSUME NEW s, Sound(s)
    PROVE  Sound(Countdown(s)) /\ Keeps(s, Countdown(s))
<1> DEFINE t == [s EXCEPT !.lockout = 0]
<1>1. s \in Ui /\ Paced(s) /\ Lit(s)
  BY DEF Sound
<1>2. /\ s.fails \in Nat /\ s.lockout \in 0..BackoffCap /\ s.wrongAge \in 0..BackoffCap
      /\ LockoutAfter(s.fails) \in 0..BackoffCap /\ 0 \in 0..BackoffCap
  <2>1. s.fails \in Nat /\ s.lockout \in 0..BackoffCap /\ s.wrongAge \in 0..BackoffCap
    BY <1>1, Zenon DEF Ui
  <2> QED
    BY <2>1, Caps
<1>3. t \in Ui
  BY <1>1, <1>2, Zenon DEF Ui
<1>4. /\ Keeps(s, t) /\ SameLight(s, t) /\ t.hasty = s.hasty /\ t.fails = s.fails
      /\ t.lockout = 0 /\ t.lockAge = s.lockAge /\ t.wrongAge = s.wrongAge
  BY <1>1, Zenon DEF Ui, Keeps, SameLight
<1>5. Countdown(s) = s \/ (s.lockAge >= s.lockout /\ Countdown(s) = t)
  BY Zenon DEF Countdown
<1> HIDE DEF t
<1>6. Keeps(s, s)
  BY Zenon DEF Keeps
<1>7. CASE s.lockAge >= s.lockout /\ Countdown(s) = t
  <2>1. Paced(t)
    BY <1>1, <1>2, <1>4, <1>7, Caps DEF Paced
  <2>2. Lit(t)
    BY <1>1, <1>4, Zenon DEF Lit, SameLight
  <2> QED
    BY <1>3, <1>4, <1>7, <2>1, <2>2 DEF Sound
<1> QED
  BY <1>5, <1>6, <1>7

\* What an event tells the UI.
Told(s, e, t) ==
    /\ t.pin = IF CarriesPin(e) THEN e.pin ELSE s.pin
    /\ t.enabled = IF e.kind \in {"seed", "config"} THEN e.enabled ELSE s.enabled
    /\ t.seeded = (s.seeded \/ e.kind = "seed")
    /\ t.swallow = s.swallow /\ t.leak = s.leak

LEMMA EventFacts ==
    ASSUME NEW e \in Events
    PROVE  /\ e.kind \in {"seed", "pin", "config", "message"}
           /\ CarriesPin(e) => e.pin \in {NoPin} \cup Pins
           /\ e.kind \in {"seed", "config"} => e.enabled \in BOOLEAN
  BY DEF Events, CarriesPin

Seeded(s, e) == [s EXCEPT !.seeded = TRUE, !.pin = e.pin, !.enabled = e.enabled]

LEMMA SeededIs ==
    ASSUME NEW s \in Ui, NEW e, e.pin \in {NoPin} \cup Pins, e.enabled \in BOOLEAN
    PROVE  /\ Seeded(s, e) \in Ui
           /\ SamePace(s, Seeded(s, e)) /\ SameLight(s, Seeded(s, e))
           /\ Seeded(s, e).seeded = TRUE
           /\ Seeded(s, e).pin = e.pin /\ Seeded(s, e).enabled = e.enabled
           /\ Seeded(s, e).swallow = s.swallow /\ Seeded(s, e).leak = s.leak
<1>1. Seeded(s, e) \in Ui
  BY Zenon DEF Ui, Seeded
<1>2. /\ SamePace(s, Seeded(s, e)) /\ SameLight(s, Seeded(s, e))
      /\ Seeded(s, e).seeded = TRUE
      /\ Seeded(s, e).pin = e.pin /\ Seeded(s, e).enabled = e.enabled
      /\ Seeded(s, e).swallow = s.swallow /\ Seeded(s, e).leak = s.leak
  BY Zenon DEF Ui, SamePace, SameLight, Seeded
<1> QED
  BY <1>1, <1>2

LEMMA PinIs ==
    ASSUME NEW s \in Ui, NEW p \in {NoPin} \cup Pins, NEW t, t = [s EXCEPT !.pin = p]
    PROVE  /\ t \in Ui /\ SamePace(s, t) /\ SameLight(s, t)
           /\ t.pin = p /\ t.enabled = s.enabled /\ t.seeded = s.seeded
           /\ t.swallow = s.swallow /\ t.leak = s.leak
<1>1. t \in Ui
  BY Zenon DEF Ui
<1>2. /\ SamePace(s, t) /\ SameLight(s, t)
      /\ t.pin = p /\ t.enabled = s.enabled /\ t.seeded = s.seeded
      /\ t.swallow = s.swallow /\ t.leak = s.leak
  BY Zenon DEF Ui, SamePace, SameLight
<1> QED
  BY <1>1, <1>2

LEMMA EnabledIs ==
    ASSUME NEW s \in Ui, NEW b \in BOOLEAN, NEW t, t = [s EXCEPT !.enabled = b]
    PROVE  /\ t \in Ui /\ SamePace(s, t) /\ SameLight(s, t)
           /\ t.pin = s.pin /\ t.enabled = b /\ t.seeded = s.seeded
           /\ t.swallow = s.swallow /\ t.leak = s.leak
<1>1. t \in Ui
  BY Zenon DEF Ui
<1>2. /\ SamePace(s, t) /\ SameLight(s, t)
      /\ t.pin = s.pin /\ t.enabled = b /\ t.seeded = s.seeded
      /\ t.swallow = s.swallow /\ t.leak = s.leak
  BY Zenon DEF Ui, SamePace, SameLight
<1> QED
  BY <1>1, <1>2

LEMMA BlinkIs ==
    ASSUME NEW s \in Ui, NEW t,
           t = [s EXCEPT !.blink = s.blink \/ s.asleep, !.heard = s.heard \/ s.asleep]
    PROVE  /\ t \in Ui /\ SamePace(s, t) /\ Keeps(s, t)
           /\ t.asleep = s.asleep /\ t.lit = s.lit
           /\ t.blink = (s.blink \/ s.asleep) /\ t.heard = (s.heard \/ s.asleep)
<1> DEFINE b == (s.blink \/ s.asleep)
           h == (s.heard \/ s.asleep)
<1>1. b \in BOOLEAN /\ h \in BOOLEAN
  OBVIOUS
<1>2. t = [s EXCEPT !.blink = b, !.heard = h]
  OBVIOUS
<1> HIDE DEF b, h
<1>3. t \in Ui
  <2>1. ASSUME NEW w \in Ui, NEW x \in BOOLEAN PROVE [w EXCEPT !.blink = x] \in Ui
    BY Zenon DEF Ui
  <2>2. ASSUME NEW w \in Ui, NEW x \in BOOLEAN PROVE [w EXCEPT !.heard = x] \in Ui
    BY Zenon DEF Ui
  <2>3. t = [[s EXCEPT !.blink = b] EXCEPT !.heard = h]
    BY <1>2
  <2> QED
    BY <1>1, <2>1, <2>2, <2>3
<1>4. /\ SamePace(s, t) /\ Keeps(s, t) /\ t.asleep = s.asleep /\ t.lit = s.lit
      /\ t.blink = b /\ t.heard = h
  BY <1>2, Zenon DEF Ui, SamePace, Keeps
<1> QED
  BY <1>3, <1>4 DEF b, h

LEMMA HandleFacts ==
    ASSUME NEW s, Sound(s), NEW e \in Events, NEW built \in BOOLEAN
    PROVE  Sound(HandleEvent(s, e, built)) /\ Told(s, e, HandleEvent(s, e, built))
<1> DEFINE u == HandleEvent(s, e, built)
<1>1. s \in Ui /\ Paced(s) /\ Lit(s)
  BY DEF Sound
<1>2. CASE e.kind = "seed"
  <2> DEFINE t == Seeded(s, e)
  <2>1. u = IF t.enabled THEN TripLock(t, built) ELSE t
    BY <1>2 DEF HandleEvent, Seeded
  <2>2. e.pin \in {NoPin} \cup Pins /\ e.enabled \in BOOLEAN
    BY <1>2, EventFacts DEF CarriesPin
  <2>3. /\ t \in Ui /\ SamePace(s, t) /\ SameLight(s, t)
        /\ t.seeded = TRUE /\ t.pin = e.pin /\ t.enabled = e.enabled
        /\ t.swallow = s.swallow /\ t.leak = s.leak
    BY <1>1, <2>2, SeededIs
  <2> HIDE DEF t
  <2>4. Sound(t)
    BY <2>3, SoundFrom
  <2>5. Sound(TripLock(t, built)) /\ Keeps(t, TripLock(t, built))
    BY <2>4, TripFacts
  <2>6. Sound(u) /\ Keeps(t, u)
    <3>1. Keeps(t, t)
      BY Zenon DEF Keeps
    <3> QED
      BY <2>1, <2>4, <2>5, <3>1, Zenon
  <2> HIDE DEF u
  <2>7. Told(s, e, u)
    BY <1>2, <2>3, <2>6 DEF Told, Keeps, CarriesPin
  <2> QED
    BY <2>6, <2>7 DEF u
<1>3. CASE e.kind = "pin"
  <2>1. u = [s EXCEPT !.pin = e.pin]
    BY <1>3 DEF HandleEvent
  <2>2. e.pin \in {NoPin} \cup Pins
    BY <1>3, EventFacts DEF CarriesPin
  <2> HIDE DEF u
  <2>3. /\ u \in Ui /\ SamePace(s, u) /\ SameLight(s, u)
        /\ u.pin = e.pin /\ u.enabled = s.enabled /\ u.seeded = s.seeded
        /\ u.swallow = s.swallow /\ u.leak = s.leak
    BY <1>1, <2>1, <2>2, PinIs
  <2>4. Sound(u)
    BY <2>3, SoundFrom
  <2>5. Told(s, e, u)
    <3>1. s.seeded \in BOOLEAN
      BY <1>1, Zenon DEF Ui
    <3> QED
      BY <1>3, <2>3, <3>1 DEF Told, CarriesPin
  <2> QED
    BY <2>4, <2>5 DEF u
<1>4. CASE e.kind = "config"
  <2>1. u = [s EXCEPT !.enabled = e.enabled]
    BY <1>4 DEF HandleEvent
  <2>2. e.enabled \in BOOLEAN
    BY <1>4, EventFacts
  <2> HIDE DEF u
  <2>3. /\ u \in Ui /\ SamePace(s, u) /\ SameLight(s, u)
        /\ u.pin = s.pin /\ u.enabled = e.enabled /\ u.seeded = s.seeded
        /\ u.swallow = s.swallow /\ u.leak = s.leak
    BY <1>1, <2>1, <2>2, EnabledIs
  <2>4. Sound(u)
    BY <2>3, SoundFrom
  <2>5. Told(s, e, u)
    <3>1. s.seeded \in BOOLEAN
      BY <1>1, Zenon DEF Ui
    <3> QED
      BY <1>4, <2>3, <3>1 DEF Told, CarriesPin
  <2> QED
    BY <2>4, <2>5 DEF u
<1>5. CASE e.kind = "message"
  <2>1. u = [s EXCEPT !.blink = s.blink \/ s.asleep, !.heard = s.heard \/ s.asleep]
    <3>1. u = [s EXCEPT !.blink = @ \/ s.asleep, !.heard = @ \/ s.asleep]
      BY <1>5 DEF HandleEvent
    <3> QED
      BY <1>1, <3>1, Zenon DEF Ui
  <2> HIDE DEF u
  <2>2. /\ u \in Ui /\ SamePace(s, u) /\ Keeps(s, u)
        /\ u.asleep = s.asleep /\ u.lit = s.lit
        /\ u.blink = (s.blink \/ s.asleep) /\ u.heard = (s.heard \/ s.asleep)
    BY <1>1, <2>1, BlinkIs
  <2>3. Paced(u)
    BY <1>1, <2>2, Zenon DEF Paced, SamePace
  <2>4. Lit(u)
    BY <1>1, <2>2, Zenon DEF Lit
  <2>5. Told(s, e, u)
    <3>1. s.seeded \in BOOLEAN
      BY <1>1, Zenon DEF Ui
    <3> QED
      BY <1>5, <2>2, <3>1 DEF Told, CarriesPin, Keeps
  <2> QED
    BY <2>2, <2>3, <2>4, <2>5 DEF Sound, u
<1> QED
  BY <1>2, <1>3, <1>4, <1>5, EventFacts

\* A touch may toggle the lock setting of a device that has its seed; nothing
\* else of what the queues carry.
Toggles(s, t) ==
    /\ t.pin = s.pin /\ t.seeded = s.seeded
    /\ t.enabled # s.enabled => s.seeded

LEMMA ClickFacts ==
    ASSUME NEW s, Sound(s), NEW c
    PROVE  /\ Sound(Click(s, c)) /\ Toggles(s, Click(s, c))
           /\ Click(s, c).swallow = s.swallow /\ Click(s, c).leak = s.leak
<1> DEFINE u == Click(s, c)
<1>1. s \in Ui
  BY DEF Sound
<1>2. \/ c \in Entries /\ u = [s EXCEPT !.confirm = c]
      \/ u = [s EXCEPT !.nav = TRUE]
      \/ s.seeded /\ u = [s EXCEPT !.enabled = ~s.enabled]
      \/ u = s
  <2>1. ~s.enabled = ~s.enabled
    OBVIOUS
  <2> QED
    BY Zenon DEF Click
<1> HIDE DEF u
<1>3. CASE c \in Entries /\ u = [s EXCEPT !.confirm = c]
  <2>1. u \in Ui
    <3>1. c \in {NoPin} \cup Entries
      BY <1>3
    <3> QED
      BY <1>1, <1>3, <3>1, Zenon DEF Ui
  <2>2. SamePace(s, u) /\ SameLight(s, u) /\ Keeps(s, u)
    BY <1>1, <1>3, Zenon DEF Ui, SamePace, SameLight, Keeps
  <2> QED
    BY <2>1, <2>2, SoundFrom DEF Keeps, Toggles, u
<1>4. CASE u = [s EXCEPT !.nav = TRUE]
  <2>1. u \in Ui
    BY <1>1, <1>4, Zenon DEF Ui
  <2>2. SamePace(s, u) /\ SameLight(s, u) /\ Keeps(s, u)
    BY <1>1, <1>4, Zenon DEF Ui, SamePace, SameLight, Keeps
  <2> QED
    BY <2>1, <2>2, SoundFrom DEF Keeps, Toggles, u
<1>5. CASE s.seeded /\ u = [s EXCEPT !.enabled = ~s.enabled]
  <2>1. (~s.enabled) \in BOOLEAN
    BY Zenon
  <2>2. /\ u \in Ui /\ SamePace(s, u) /\ SameLight(s, u)
        /\ u.pin = s.pin /\ u.seeded = s.seeded
        /\ u.swallow = s.swallow /\ u.leak = s.leak
    BY <1>1, <1>5, <2>1, EnabledIs
  <2> QED
    BY <1>5, <2>2, SoundFrom DEF Toggles, u
<1>6. CASE u = s
  BY <1>6 DEF Toggles, u
<1> QED
  BY <1>2, <1>3, <1>4, <1>5, <1>6

LEMMA DownIs ==
    ASSUME NEW s, Sound(s), NEW w \in {"splash", "app", "overlay", "none"},
           NEW t, t = [s EXCEPT !.down = w]
    PROVE  Sound(t) /\ Keeps(s, t)
<1>1. s \in Ui
  BY DEF Sound
<1>2. t \in Ui
  BY <1>1, Zenon DEF Ui
<1>3. Keeps(s, t) /\ SamePace(s, t) /\ SameLight(s, t)
  BY <1>1, Zenon DEF Ui, Keeps, SamePace, SameLight
<1> QED
  BY <1>2, <1>3, SoundFrom

LEMMA DispatchFacts ==
    ASSUME NEW s, Sound(s), NEW k, NEW c
    PROVE  /\ Sound(DispatchTouch(s, k, c)) /\ Toggles(s, DispatchTouch(s, k, c))
           /\ DispatchTouch(s, k, c).swallow = s.swallow
           /\ DispatchTouch(s, k, c).leak = s.leak
<1> DEFINE v == IF s.down = s.shown THEN Click(s, c) ELSE s
           u == DispatchTouch(s, k, c)
<1>1. s.shown \in {"splash", "app", "overlay", "none"}
  BY Zenon DEF Sound, Ui
<1>2. u = [s EXCEPT !.down = s.shown] \/ u = [v EXCEPT !.down = "none"] \/ u = s
  BY Zenon DEF DispatchTouch
<1>3. Sound(v) /\ Toggles(s, v) /\ v.swallow = s.swallow /\ v.leak = s.leak
  BY ClickFacts DEF Toggles
<1> HIDE DEF u, v
<1>4. CASE u = [s EXCEPT !.down = s.shown]
  <2>1. Sound(u) /\ Keeps(s, u)
    BY <1>1, <1>4, DownIs
  <2> QED
    BY <2>1, Zenon DEF Keeps, Toggles, u
<1>5. CASE u = [v EXCEPT !.down = "none"]
  <2>1. Sound(u) /\ Keeps(v, u)
    BY <1>3, <1>5, DownIs
  <2> QED
    BY <1>3, <2>1, Zenon DEF Keeps, Toggles, u
<1>6. CASE u = s
  BY <1>6, Zenon DEF Toggles, u
<1> QED
  BY <1>2, <1>4, <1>5, <1>6

LEMMA SwallowIs ==
    ASSUME NEW s, Sound(s), NEW b, b \in BOOLEAN, NEW t, t = [s EXCEPT !.swallow = b]
    PROVE  /\ Sound(t) /\ t.swallow = b /\ t.leak = s.leak
           /\ t.pin = s.pin /\ t.enabled = s.enabled /\ t.seeded = s.seeded
<1>1. s \in Ui
  BY DEF Sound
<1>2. t \in Ui
  BY <1>1, Zenon DEF Ui
<1>3. /\ SamePace(s, t) /\ SameLight(s, t) /\ t.swallow = b /\ t.leak = s.leak
      /\ t.pin = s.pin /\ t.enabled = s.enabled /\ t.seeded = s.seeded
  BY <1>1, Zenon DEF Ui, SamePace, SameLight
<1> QED
  BY <1>2, <1>3, SoundFrom

LEMMA LeakIs ==
    ASSUME NEW s, Sound(s), NEW b, b \in BOOLEAN, NEW t, t = [s EXCEPT !.leak = b]
    PROVE  /\ Sound(t) /\ t.swallow = s.swallow /\ t.leak = b
           /\ t.pin = s.pin /\ t.enabled = s.enabled /\ t.seeded = s.seeded
<1>1. s \in Ui
  BY DEF Sound
<1>2. t \in Ui
  BY <1>1, Zenon DEF Ui
<1>3. /\ SamePace(s, t) /\ SameLight(s, t) /\ t.swallow = s.swallow /\ t.leak = b
      /\ t.pin = s.pin /\ t.enabled = s.enabled /\ t.seeded = s.seeded
  BY <1>1, Zenon DEF Ui, SamePace, SameLight
<1> QED
  BY <1>2, <1>3, SoundFrom

LEMMA ActiveIs ==
    ASSUME NEW s, Sound(s), NEW t, t = [s EXCEPT !.idle = 0]
    PROVE  Sound(t) /\ Keeps(s, t) /\ t.asleep = s.asleep
<1>1. s \in Ui /\ 0 \in 0..IdleCap
  BY Caps DEF Sound
<1>2. t \in Ui
  BY <1>1, Zenon DEF Ui
<1>3. Keeps(s, t) /\ SamePace(s, t) /\ SameLight(s, t)
  BY <1>1, Zenon DEF Ui, Keeps, SamePace, SameLight
<1> QED
  BY <1>2, <1>3, SoundFrom DEF SameLight

\* The gesture under way woke the screen.
Own(s) == env.woke \/ s.asleep

\* One touch event: swallowed with the gesture that woke the screen, or handed on.
LEMMA TouchFacts ==
    ASSUME NEW s, Sound(s), NEW k, NEW c, NEW z, NEW u,
           Own(z) => Swallows(s), u = Touch(s, k, c, Own(z))
    PROVE  /\ Sound(u) /\ Toggles(s, u) /\ u.leak = s.leak
           /\ u.swallow = (Swallows(s) /\ k # "release")
<1> DEFINE own == Own(z)
           awake == IF s.asleep THEN WakeScreen(s) ELSE [s EXCEPT !.idle = 0]
           b == (Swallows(s) /\ k # "release")
           t == [awake EXCEPT !.swallow = b]
           v == [t EXCEPT !.leak = t.leak \/ own]
<1>1. Sound(awake) /\ Keeps(s, awake)
  BY WakeFacts, ActiveIs
<1>2. Sound(t) /\ t.swallow = b /\ t.leak = awake.leak
      /\ t.pin = awake.pin /\ t.enabled = awake.enabled /\ t.seeded = awake.seeded
  <2> HIDE DEF awake
  <2>1. b \in BOOLEAN
    BY Zenon
  <2> HIDE DEF b
  <2> QED
    BY <1>1, <2>1, SwallowIs, Zenon
<1>3. u = IF Swallows(s) THEN t ELSE DispatchTouch(v, k, c)
  <2>1. u = IF Swallows(s) THEN t ELSE DispatchTouch([t EXCEPT !.leak = @ \/ own], k, c)
    BY Zenon DEF Touch
  <2> HIDE DEF t
  <2> QED
    BY <2>1, Zenon
<1>4. Toggles(s, t) /\ t.leak = s.leak /\ t.swallow = b
  <2> HIDE DEF awake, t, b
  <2> QED
    BY <1>1, <1>2, Zenon DEF Keeps, Toggles
<1>5. CASE Swallows(s)
  <2> HIDE DEF t, b
  <2>1. u = t
    BY <1>3, <1>5, Zenon
  <2> QED
    BY <1>2, <1>4, <2>1 DEF b
<1>6. CASE ~Swallows(s)
  <2>1. t.leak \in BOOLEAN
    <3> HIDE DEF t
    <3> QED
      BY <1>2, Zenon DEF Sound, Ui
  <2>2. (t.leak \/ own) = t.leak
    <3> HIDE DEF t
    <3> QED
      BY <1>6, <2>1, Zenon
  <2>3. v = [t EXCEPT !.leak = t.leak]
    BY <2>2, Zenon
  <2> HIDE DEF awake, t, b, v
  <2>4. Sound(v) /\ v.swallow = t.swallow /\ v.leak = t.leak
        /\ v.pin = t.pin /\ v.enabled = t.enabled /\ v.seeded = t.seeded
    BY <1>2, <2>1, <2>3, LeakIs
  <2>5. u = DispatchTouch(v, k, c)
    BY <1>3, <1>6, Zenon
  <2>6. Sound(u) /\ Toggles(v, u) /\ u.swallow = v.swallow /\ u.leak = v.leak
    BY <2>4, <2>5, DispatchFacts
  <2>7. Toggles(s, u)
    <3>1. t.enabled = s.enabled /\ t.pin = s.pin /\ t.seeded = s.seeded
      BY <1>1, <1>2, Zenon DEF Keeps
    <3> QED
      BY <2>4, <2>6, <3>1, Zenon DEF Toggles
  <2> QED
    BY <1>4, <2>4, <2>6, <2>7, Zenon DEF b
<1> QED
  BY <1>5, <1>6

\* A gesture within a step.  Woke says that it began while the screen slept.
LEMMA TouchesFacts ==
    ASSUME NEW s, Sound(s), NEW ks \in Gestures, NEW c, env.woke => s.swallow
    PROVE  /\ Sound(Touches(s, ks, c)) /\ Toggles(s, Touches(s, ks, c))
           /\ Touches(s, ks, c).leak = s.leak
           /\ (env.woke \/ (ks # <<>> /\ s.asleep)) /\ ~Lifts(ks) => Touches(s, ks, c).swallow
<1> DEFINE own == Own(s)
           u == Touches(s, ks, c)
<1>1. own => Swallows(s)
  BY Zenon DEF Swallows, Own
<1>2. \/ ks = <<>> \/ ks = <<"press">> \/ ks = <<"move">> \/ ks = <<"release">>
      \/ ks = <<"press", "release">>
  BY DEF Gestures
<1>3. ASSUME NEW x, Sound(x), own => Swallows(x), NEW k, NEW v, v = Touch(x, k, c, own)
      PROVE  /\ Sound(v) /\ Toggles(x, v) /\ v.leak = x.leak
             /\ v.swallow = (Swallows(x) /\ k # "release")
  <2>1. Own(s) => Swallows(x)
    BY <1>3
  <2>2. v = Touch(x, k, c, Own(s))
    BY <1>3
  <2>3. Sound(x)
    BY <1>3
  <2> HIDE DEF own
  <2> QED
    BY <2>1, <2>2, <2>3, TouchFacts
<1>4. CASE ks = <<>>
  <2>1. u = s
    BY <1>4 DEF Touches
  <2>2. Toggles(s, s)
    BY Zenon DEF Toggles
  <2> QED
    BY <1>4, <2>1, <2>2, Zenon
<1>5. ASSUME NEW k, ks = <<k>>, k = "press" \/ k = "move" \/ k = "release"
      PROVE  /\ Sound(u) /\ Toggles(s, u) /\ u.leak = s.leak
             /\ (env.woke \/ (ks # <<>> /\ s.asleep)) /\ ~Lifts(ks) => u.swallow
  <2>1. ks # <<>> /\ Len(ks) = 1 /\ ks[1] = k /\ ks[Len(ks)] = k
    BY <1>5
  <2>2. u = Touch(s, k, c, own)
    BY <2>1 DEF Touches, Own
  <2>3. Lifts(ks) <=> k = "release"
    BY <2>1 DEF Lifts
  <2> HIDE DEF u, own
  <2>4. /\ Sound(u) /\ Toggles(s, u) /\ u.leak = s.leak
        /\ u.swallow = (Swallows(s) /\ k # "release")
    BY <1>1, <1>3, <2>2, Zenon
  <2>5. (env.woke \/ s.asleep) => Swallows(s)
    BY <1>1, Zenon DEF own, Own
  <2> QED
    BY <2>3, <2>4, <2>5, Zenon
<1>6. CASE ks = <<"press", "release">>
  <2> DEFINE first == Touch(s, "press", c, own)
  <2>1. ks # <<>> /\ Len(ks) = 2 /\ ks[1] = "press" /\ ks[2] = "release"
    BY <1>6
  <2>2. u = Touch(first, "release", c, own)
    BY <2>1 DEF Touches, Own
  <2>3. Lifts(ks)
    BY <2>1 DEF Lifts
  <2>4. PICK k : k = "press"
    OBVIOUS
  <2>5. k # "release"
    BY <2>4
  <2> HIDE DEF own, u
  <2>6. first = Touch(s, k, c, own)
    BY <2>4, Zenon
  <2> HIDE DEF first
  <2>7. /\ Sound(first) /\ Toggles(s, first) /\ first.leak = s.leak
        /\ first.swallow = (Swallows(s) /\ k # "release")
    BY <1>1, <1>3, <2>6, Zenon
  <2>8. own => Swallows(first)
    BY <1>1, <2>5, <2>7, Zenon DEF Swallows
  <2>9. Sound(u) /\ Toggles(first, u) /\ u.leak = first.leak
    BY <1>3, <2>2, <2>7, <2>8, Zenon
  <2>10. Toggles(s, u)
    BY <2>7, <2>9, Zenon DEF Toggles
  <2> QED
    BY <2>3, <2>7, <2>9, <2>10, Zenon DEF u
<1> QED
  <2> HIDE DEF u, own
  <2>1. CASE ks = <<"press">>
    BY <1>5, <2>1, Zenon DEF u
  <2>2. CASE ks = <<"move">>
    BY <1>5, <2>2, Zenon DEF u
  <2>3. CASE ks = <<"release">>
    BY <1>5, <2>3, Zenon DEF u
  <2> QED
    BY <1>2, <1>4, <1>6, <2>1, <2>2, <2>3, Zenon DEF u

LEMMA KeyFacts ==
    ASSUME NEW s, Sound(s), NEW k
    PROVE  Sound(Key(s, k)) /\ Keeps(s, Key(s, k))
<1> DEFINE b == (s.nav \/ (k = "nav" /\ ~s.locked /\ s.active = "app"))
           t == [s EXCEPT !.idle = 0, !.nav = b]
<1>1. s \in Ui /\ 0 \in 0..IdleCap /\ b \in BOOLEAN
  <2>1. b \in BOOLEAN
    BY Zenon
  <2> HIDE DEF b
  <2> QED
    BY <2>1, Caps DEF Sound
<1>2. Key(s, k) = s \/ Key(s, k) = WakeScreen(s) \/ Key(s, k) = t
  <2>1. [s EXCEPT !.idle = 0, !.nav = @ \/ (k = "nav" /\ ~s.locked /\ s.active = "app")] = t
    BY <1>1, Zenon DEF Ui
  <2>2. \/ Key(s, k) = s \/ Key(s, k) = WakeScreen(s)
        \/ Key(s, k) = [s EXCEPT !.idle = 0,
                                 !.nav = @ \/ (k = "nav" /\ ~s.locked /\ s.active = "app")]
    BY DEF Key
  <2> HIDE DEF t
  <2> QED
    BY <2>1, <2>2, Zenon
<1> HIDE DEF b
<1>3. t \in Ui
  <2>1. ASSUME NEW x \in BOOLEAN PROVE [s EXCEPT !.idle = 0, !.nav = x] \in Ui
    BY <1>1, Zenon DEF Ui
  <2> QED
    BY <1>1, <2>1
<1>4. Keeps(s, t) /\ SamePace(s, t) /\ SameLight(s, t)
  BY <1>1, Zenon DEF Ui, Keeps, SamePace, SameLight
<1> HIDE DEF t
<1>5. Sound(t) /\ Keeps(s, s)
  BY <1>3, <1>4, SoundFrom DEF Keeps
<1> QED
  BY <1>2, <1>4, <1>5, WakeFacts, Zenon

LEMMA IdleActionFacts ==
    ASSUME NEW s, Sound(s)
    PROVE  Sound(IdleAction(s)) /\ Keeps(s, IdleAction(s))
<1> DEFINE b == (s.idle >= SleepAfter - Least(DimLead, SleepAfter))
           t == [s EXCEPT !.dim = b]
<1>1. s \in Ui /\ b \in BOOLEAN
  BY DEF Sound
<1>2. IdleAction(s) = s \/ IdleAction(s) = SleepScreen(s) \/ IdleAction(s) = t
  BY DEF IdleAction
<1> HIDE DEF b
<1>3. t \in Ui
  <2>1. ASSUME NEW x \in BOOLEAN PROVE [s EXCEPT !.dim = x] \in Ui
    BY <1>1, Zenon DEF Ui
  <2> QED
    BY <1>1, <2>1
<1>4. Keeps(s, t) /\ SamePace(s, t) /\ SameLight(s, t)
  BY <1>1, Zenon DEF Ui, Keeps, SamePace, SameLight
<1> HIDE DEF t
<1>5. Sound(t) /\ Keeps(s, s)
  BY <1>3, <1>4, SoundFrom DEF Keeps
<1> QED
  BY <1>2, <1>4, <1>5, SleepFacts, Zenon

LEMMA IdleLockFacts ==
    ASSUME NEW s, Sound(s), NEW built \in BOOLEAN
    PROVE  /\ Sound(IdleLock(s, built)) /\ Keeps(s, IdleLock(s, built))
           /\ IdleLock(s, built).enabled /\ IdleLock(s, built).idle >= LockAfter
                => IdleLock(s, built).locked
<1> DEFINE t == TripLock(s, built)
           u == IdleLock(s, built)
<1>1. /\ Sound(t) /\ Keeps(s, t) /\ t.locked /\ t.idle = s.idle
  BY TripFacts
<1>2. u = IF s.enabled /\ s.idle >= LockAfter THEN t ELSE s
  BY Zenon DEF IdleLock
<1>3. Keeps(s, s)
  BY Zenon DEF Keeps
<1> HIDE DEF t, u
<1> QED
  BY <1>1, <1>2, <1>3, Zenon DEF u

LEMMA SyncFacts ==
    ASSUME NEW s, Sound(s)
    PROVE  /\ Sound(SyncBrightness(s)) /\ Keeps(s, SyncBrightness(s))
           /\ SyncBrightness(s).locked = s.locked /\ SyncBrightness(s).idle = s.idle
<1> DEFINE u == SyncBrightness(s)
<1>1. s \in Ui /\ Paced(s) /\ Lit(s)
  BY DEF Sound
<1>2. u = s \/ (~s.asleep /\ (\/ u = [s EXCEPT !.lit = "dim", !.applied = "dim"]
                              \/ u = [s EXCEPT !.lit = "full", !.applied = "full"]))
  BY Zenon DEF SyncBrightness
<1> HIDE DEF u
<1>3. ASSUME NEW w, w = "dim" \/ w = "full", ~s.asleep, u = [s EXCEPT !.lit = w, !.applied = w]
      PROVE  /\ Sound(u) /\ Keeps(s, u) /\ u.locked = s.locked /\ u.idle = s.idle
  <2>1. u \in Ui
    <3>1. [s EXCEPT !.lit = "dim", !.applied = "dim"] \in Ui
      BY <1>1, Zenon DEF Ui
    <3>2. [s EXCEPT !.lit = "full", !.applied = "full"] \in Ui
      BY <1>1, Zenon DEF Ui
    <3> QED
      BY <1>3, <3>1, <3>2, Zenon
  <2>2. /\ Keeps(s, u) /\ SamePace(s, u) /\ u.locked = s.locked /\ u.idle = s.idle
        /\ u.lit = w /\ u.asleep = s.asleep /\ u.heard = s.heard /\ u.blink = s.blink
    BY <1>1, <1>3, Zenon DEF Ui, Keeps, SamePace
  <2>3. Paced(u)
    BY <1>1, <2>2, Zenon DEF Paced, SamePace
  <2>4. w # "off"
    BY <1>3
  <2>5. Lit(u)
    BY <1>1, <1>3, <2>2, <2>4, Zenon DEF Lit
  <2> QED
    BY <2>1, <2>2, <2>3, <2>5 DEF Sound
<1>4. Keeps(s, s)
  BY Zenon DEF Keeps
<1> QED
  BY <1>2, <1>3, <1>4, Zenon DEF u

LEMMA ReassertFacts ==
    ASSUME NEW s, Sound(s), NEW built \in BOOLEAN
    PROVE  /\ Sound(Reassert(s, built)) /\ Keeps(s, Reassert(s, built))
           /\ Reassert(s, built).locked = s.locked /\ Reassert(s, built).idle = s.idle
           /\ Reassert(s, built).locked /\ Reassert(s, built).overlay
                => Reassert(s, built).shown = "overlay"
<1> DEFINE t == Construct(s, built)
           v == [t EXCEPT !.shown = "overlay"]
           u == Reassert(s, built)
<1>1. /\ Sound(t) /\ Keeps(s, t) /\ t.locked = s.locked /\ t.idle = s.idle
  BY ConstructFacts
<1>2. u = IF ~s.locked THEN s ELSE IF t.overlay THEN v ELSE t
  BY Zenon DEF Reassert
<1> HIDE DEF t
<1>3. t \in Ui
  BY <1>1 DEF Sound
<1>4. v \in Ui
  BY <1>3, Zenon DEF Ui
<1>5. /\ Keeps(t, v) /\ SamePace(t, v) /\ SameLight(t, v)
      /\ v.locked = t.locked /\ v.idle = t.idle /\ v.shown = "overlay"
  BY <1>3, Zenon DEF Ui, Keeps, SamePace, SameLight
<1> HIDE DEF v, u
<1>6. Sound(v)
  BY <1>1, <1>4, <1>5, SoundFrom
<1>7. Keeps(s, s) /\ Keeps(s, v)
  BY <1>1, <1>5, Zenon DEF Keeps
<1>8. CASE ~s.locked
  BY <1>2, <1>7, <1>8, Zenon DEF u
<1>9. CASE s.locked /\ t.overlay
  BY <1>1, <1>2, <1>5, <1>6, <1>7, <1>9, Zenon DEF u
<1>10. CASE s.locked /\ ~t.overlay
  BY <1>1, <1>2, <1>10, Zenon DEF u
<1> QED
  BY <1>8, <1>9, <1>10

-----------------------------------------------------------------------------
(***************************************************************************)
(* A round of the UI task.                                                 *)
(***************************************************************************)
Settled(s, d, dismiss) == Countdown(Confirm(Navigate(Advance(s, d), dismiss)))

Closed(s, built) == Reassert(SyncBrightness(IdleLock(IdleAction(s), built)), built)

LEMMA SettledFacts ==
    ASSUME NEW s, Sound(s), NEW d \in 0..1, NEW dismiss \in BOOLEAN
    PROVE  Sound(Settled(s, d, dismiss)) /\ Keeps(s, Settled(s, d, dismiss))
<1> DEFINE t1 == Advance(s, d)
           t2 == Navigate(t1, dismiss)
           t3 == Confirm(t2)
           t4 == Countdown(t3)
<1>1. Sound(t1) /\ Keeps(s, t1)
  BY AdvanceFacts
<1> HIDE DEF t1
<1>2. Sound(t2) /\ Keeps(t1, t2)
  BY <1>1, NavigateFacts
<1> HIDE DEF t2
<1>3. Sound(t3) /\ Keeps(t2, t3)
  BY <1>2, ConfirmFacts
<1> HIDE DEF t3
<1>4. Sound(t4) /\ Keeps(t3, t4)
  BY <1>3, CountdownFacts
<1> HIDE DEF t4
<1>5. Keeps(s, t4)
  BY <1>1, <1>2, <1>3, <1>4, Zenon DEF Keeps
<1> QED
  BY <1>4, <1>5, Zenon DEF Settled, t1, t2, t3, t4

\* Every step ends with the idle lock, the brightness and the overlay.
LEMMA ClosedFacts ==
    ASSUME NEW s, Sound(s), NEW built \in BOOLEAN
    PROVE  LET u == Closed(s, built)
           IN  /\ Sound(u) /\ Keeps(s, u)
               /\ u.locked /\ u.overlay => u.shown = "overlay"
               /\ u.enabled /\ u.idle >= LockAfter => u.locked
<1> DEFINE t1 == IdleAction(s)
           t2 == IdleLock(t1, built)
           t3 == SyncBrightness(t2)
           u == Reassert(t3, built)
<1>1. Sound(t1) /\ Keeps(s, t1)
  BY IdleActionFacts
<1> HIDE DEF t1
<1>2. Sound(t2) /\ Keeps(t1, t2) /\ (t2.enabled /\ t2.idle >= LockAfter => t2.locked)
  BY <1>1, IdleLockFacts
<1> HIDE DEF t2
<1>3. Sound(t3) /\ Keeps(t2, t3) /\ t3.locked = t2.locked /\ t3.idle = t2.idle
  BY <1>2, SyncFacts
<1> HIDE DEF t3
<1>4. /\ Sound(u) /\ Keeps(t3, u) /\ u.locked = t3.locked /\ u.idle = t3.idle
      /\ u.locked /\ u.overlay => u.shown = "overlay"
  BY <1>3, ReassertFacts
<1> HIDE DEF u
<1>5. Keeps(s, u)
  BY <1>1, <1>2, <1>3, <1>4, Zenon DEF Keeps
<1>6. u.enabled /\ u.idle >= LockAfter => u.locked
  BY <1>2, <1>3, <1>4, Zenon DEF Keeps
<1>7. Closed(s, built) = u
  BY Zenon DEF Closed, t1, t2, t3, u
<1> QED
  BY <1>4, <1>5, <1>6, <1>7, Zenon

\* The event at the head of the queue, or none.
Heard(s, built) == IF evtq = <<>> THEN s ELSE HandleEvent(s, Head(evtq), built)

Took(s, t) == IF evtq = <<>> THEN Keeps(s, t) ELSE Told(s, Head(evtq), t)

LEMMA HeardFacts ==
    ASSUME NEW s, Sound(s), NEW built \in BOOLEAN, QueueInv
    PROVE  Sound(Heard(s, built)) /\ Took(s, Heard(s, built))
<1>1. CASE evtq = <<>>
  <2>1. Heard(s, built) = s /\ (Took(s, s) <=> Keeps(s, s))
    BY <1>1, Zenon DEF Heard, Took
  <2>2. Keeps(s, s)
    BY Zenon DEF Keeps
  <2> QED
    BY <2>1, <2>2, Zenon
<1>2. CASE evtq # <<>>
  <2> DEFINE e == Head(evtq)
             u == HandleEvent(s, e, built)
  <2>1. e \in Events
    BY <1>2 DEF QueueInv
  <2>2. Heard(s, built) = u /\ (Took(s, u) <=> Told(s, e, u))
    BY <1>2, Zenon DEF Heard, Took
  <2> HIDE DEF e
  <2>3. Sound(u) /\ Told(s, e, u)
    BY <2>1, HandleFacts
  <2> HIDE DEF u
  <2> QED
    BY <2>2, <2>3, Zenon
<1> QED
  BY <1>1, <1>2

Asked(told, touched) ==
    (IF evtq = <<>> THEN <<>> ELSE SettingsOf(Head(evtq)))
        \o (IF touched.enabled # told.enabled THEN <<touched.enabled>> ELSE <<>>)

\* What a round of the task did, in the terms of the invariant.
Round(told, touched, ks) ==
    /\ Sound(ui') /\ ui'.fails <= MaxFails
    /\ LockedFrameIsOverlay' /\ IdleDeviceLocks'
    /\ Took(ui, told) /\ told.enabled \in BOOLEAN
    /\ Toggles(told, touched) /\ touched.enabled \in BOOLEAN
    /\ ui'.pin = touched.pin /\ ui'.enabled = touched.enabled /\ ui'.seeded = touched.seeded
    /\ ui'.leak = ui.leak
    /\ env'.woke => ui'.swallow
    /\ env' \in [finger : BOOLEAN, woke : BOOLEAN]
    /\ Persist(Asked(told, touched))
    /\ evtq' = IF evtq = <<>> THEN evtq ELSE Tail(evtq)
    /\ UNCHANGED <<flash, seed>>

LEMMA StepRound ==
    ASSUME IInv, NEW d \in 0..1, NEW dismiss \in BOOLEAN, NEW ks \in Gestures, NEW c, NEW k,
           NEW built \in BOOLEAN, Step(d, dismiss, ks, c, k, built)
    PROVE  \E told, touched : Round(told, touched, ks)
<1> DEFINE t0 == Settled(ui, d, dismiss)
           told == Heard(t0, built)
           touched == Touches(told, ks, c)
           keyed == Key(touched, k)
           u == Closed(keyed, built)
<1>1. Sound(ui) /\ QueueInv /\ (env.woke => ui.swallow) /\ ~ui.leak
  BY DEF IInv, GestureInv
<1>2. Sound(t0) /\ Keeps(ui, t0)
  BY <1>1, SettledFacts
<1>3. /\ ui' = u
      /\ ui'.fails <= MaxFails
      /\ evtq' = IF evtq = <<>> THEN evtq ELSE Tail(evtq)
      /\ Persist(Asked(told, touched))
      /\ env' = [finger |-> (env.finger \/ ks # <<>>) /\ ~Lifts(ks),
                 woke |-> (env.woke \/ (ks # <<>> /\ told.asleep)) /\ ~Lifts(ks)]
      /\ UNCHANGED <<flash, seed>>
  BY Zenon DEF Step, Settled, Heard, Closed, Asked
<1> HIDE DEF t0
<1>4. Sound(told) /\ Took(t0, told)
  BY <1>1, <1>2, HeardFacts
<1> HIDE DEF told
<1>5. Took(ui, told)
  BY <1>2, <1>4, Zenon DEF Took, Keeps, Told
<1>6. told.swallow = ui.swallow /\ told.leak = ui.leak
  BY <1>5, Zenon DEF Took, Keeps, Told
<1>7. /\ Sound(touched) /\ Toggles(told, touched) /\ touched.leak = told.leak
      /\ (env.woke \/ (ks # <<>> /\ told.asleep)) /\ ~Lifts(ks) => touched.swallow
  BY <1>1, <1>4, <1>6, TouchesFacts
<1> HIDE DEF touched
<1>8. Sound(keyed) /\ Keeps(touched, keyed)
  BY <1>7, KeyFacts
<1> HIDE DEF keyed
<1>9. /\ Sound(u) /\ Keeps(keyed, u)
      /\ u.locked /\ u.overlay => u.shown = "overlay"
      /\ u.enabled /\ u.idle >= LockAfter => u.locked
  BY <1>8, ClosedFacts
<1> HIDE DEF u
<1>10. told.enabled \in BOOLEAN /\ touched.enabled \in BOOLEAN
  BY <1>4, <1>7, Zenon DEF Sound, Ui
<1>11. /\ ui'.pin = touched.pin /\ ui'.enabled = touched.enabled /\ ui'.seeded = touched.seeded
       /\ ui'.leak = ui.leak /\ ui'.swallow = touched.swallow
  BY <1>3, <1>6, <1>7, <1>8, <1>9, Zenon DEF Keeps
<1>12. LockedFrameIsOverlay' /\ IdleDeviceLocks'
  BY <1>3, <1>9, Zenon DEF LockedFrameIsOverlay, IdleDeviceLocks
<1>13. env'.woke => ui'.swallow
  <2>1. env'.woke = ((env.woke \/ (ks # <<>> /\ told.asleep)) /\ ~Lifts(ks))
    BY <1>3, Zenon
  <2> QED
    BY <1>7, <1>11, <2>1, Zenon
<1>14. env' \in [finger : BOOLEAN, woke : BOOLEAN]
  BY <1>3, Zenon
<1>15. Sound(ui') /\ ui'.fails <= MaxFails
  BY <1>3, <1>9, Zenon
<1>16. Persist(Asked(told, touched)) /\ UNCHANGED <<flash, seed>>
       /\ evtq' = IF evtq = <<>> THEN evtq ELSE Tail(evtq)
  BY <1>3, Zenon
<1>17. Round(told, touched, ks)
  BY <1>5, <1>7, <1>10, <1>11, <1>12, <1>13, <1>14, <1>15, <1>16, Zenon DEF Round
<1> QED
  BY <1>17, Zenon

LEMMA OneAndOne ==
    ASSUME NEW S, NEW h \in Seq(S), NEW g \in Seq(S), Len(h) = 1, Len(g) = 1
    PROVE  h \o g \in Seq(S) /\ Len(h \o g) = 2 /\ (h \o g)[2] = g[1]
<1> DEFINE q == h \o g
<1>1. /\ q \in Seq(S) /\ Len(q) = Len(h) + Len(g)
      /\ \A i \in 1..Len(h) + Len(g) : q[i] = IF i <= Len(h) THEN h[i] ELSE g[i - Len(h)]
  BY ConcatProperties, Zenon
<1> HIDE DEF q
<1>2. q \in Seq(S) /\ Len(q) = 2 /\ q[2] = g[1]
  BY <1>1
<1> QED
  BY <1>2 DEF q

\* Nothing is saved unless a setting changed, and what is saved last is what the UI holds.
LEMMA AskedFacts ==
    ASSUME NEW told, NEW touched, QueueInv,
           told.enabled \in BOOLEAN, touched.enabled \in BOOLEAN,
           Took(ui, told)
    PROVE  LET q == Asked(told, touched)
           IN  /\ q \in Seq(BOOLEAN)
               /\ Len(q) > 0 => q[Len(q)] = touched.enabled
               /\ (Len(q) = 0 /\ (evtq = <<>> \/ Head(evtq).kind # "seed")) => touched.enabled = ui.enabled
               /\ (Len(q) = 0 /\ evtq # <<>> /\ Head(evtq).kind = "seed")
                    => touched.enabled = Head(evtq).enabled
               /\ (evtq = <<>> /\ touched.enabled = told.enabled) => q = <<>>
<1> DEFINE q == Asked(told, touched)
           h == (IF evtq = <<>> THEN <<>> ELSE SettingsOf(Head(evtq)))
           g == (IF touched.enabled # told.enabled THEN <<touched.enabled>> ELSE <<>>)
<1>1. q = h \o g
  BY DEF Asked
<1>2. \/ h = <<>> /\ (evtq = <<>> \/ Head(evtq).kind # "config")
      \/ evtq # <<>> /\ Head(evtq).kind = "config" /\ h = <<told.enabled>>
  <2>1. CASE evtq = <<>>
    BY <2>1
  <2>2. CASE evtq # <<>> /\ Head(evtq).kind = "config"
    <3>1. told.enabled = Head(evtq).enabled
      BY <2>2 DEF Took, Told
    <3> QED
      BY <2>2, <3>1 DEF SettingsOf
  <2>3. CASE evtq # <<>> /\ Head(evtq).kind # "config"
    BY <2>3 DEF SettingsOf
  <2> QED
    BY <2>1, <2>2, <2>3
<1>3. /\ (evtq = <<>> \/ Head(evtq).kind \notin {"seed", "config"}) => told.enabled = ui.enabled
      /\ evtq # <<>> /\ Head(evtq).kind \in {"seed", "config"} => told.enabled = Head(evtq).enabled
  BY DEF Took, Told, Keeps
<1>4. \/ touched.enabled = told.enabled /\ g = <<>>
      \/ touched.enabled # told.enabled /\ g = <<touched.enabled>>
  OBVIOUS
<1> HIDE DEF q, h, g
<1>5. CASE h = <<>> /\ g = <<>>
  <2>1. q = <<>>
    BY <1>1, <1>5
  <2> QED
    BY <1>2, <1>3, <1>4, <1>5, <2>1 DEF q
<1>6. CASE h = <<>> /\ g # <<>>
  <2>1. q = <<touched.enabled>>
    BY <1>1, <1>4, <1>6
  <2> QED
    BY <1>4, <1>6, <2>1 DEF q
<1>7. CASE h # <<>> /\ g = <<>>
  <2>1. q = <<touched.enabled>> /\ evtq # <<>>
    BY <1>1, <1>2, <1>4, <1>7
  <2> QED
    BY <2>1 DEF q
<1>8. CASE h # <<>> /\ g # <<>>
  <2>1. h = <<told.enabled>> /\ g = <<touched.enabled>> /\ evtq # <<>>
    BY <1>2, <1>4, <1>8, Zenon
  <2>2. h \in Seq(BOOLEAN) /\ g \in Seq(BOOLEAN) /\ Len(h) = 1 /\ Len(g) = 1 /\ g[1] = touched.enabled
    BY <2>1
  <2>3. q \in Seq(BOOLEAN) /\ Len(q) = 2 /\ q[2] = g[1]
    BY <1>1, <2>2, OneAndOne
  <2>4. Len(q) # 0 /\ q[Len(q)] = touched.enabled
    BY <2>2, <2>3
  <2> QED
    BY <2>1, <2>3, <2>4, Zenon DEF q
<1> QED
  BY <1>5, <1>6, <1>7, <1>8

LEMMA PersistFacts ==
    ASSUME NEW q \in Seq(BOOLEAN), QueueInv, Persist(q)
    PROVE  /\ cmdq' \in Seq(BOOLEAN) /\ Len(cmdq') <= CommandCap /\ lost' \in BOOLEAN
           /\ ~lost' => ~lost /\ cmdq' = cmdq \o q
<1> DEFINE room == CommandCap - Len(cmdq)
           n == Least(room, Len(q))
<1>1. /\ cmdq \in Seq(BOOLEAN) /\ Len(cmdq) <= CommandCap /\ lost \in BOOLEAN
      /\ CommandCap \in Nat
  BY ScreenLockAssumption DEF QueueInv
<1>2. n \in 0..Len(q) /\ n <= room /\ (Len(q) <= room => n = Len(q))
  BY <1>1 DEF Least
<1>3. cmdq' = cmdq \o SubSeq(q, 1, n) /\ lost' = (lost \/ Len(q) > room)
  BY Zenon DEF Persist
<1> HIDE DEF n
<1>4. SubSeq(q, 1, n) \in Seq(BOOLEAN) /\ Len(SubSeq(q, 1, n)) = n
  BY <1>2
<1>5. n = Len(q) => SubSeq(q, 1, n) = q
  BY <1>2
<1>6. cmdq' \in Seq(BOOLEAN) /\ Len(cmdq') <= CommandCap
  BY <1>1, <1>2, <1>3, <1>4
<1>7. lost' \in BOOLEAN /\ (~lost' => ~lost /\ ~(Len(q) > room))
  BY <1>1, <1>3, Zenon
<1>8. ~(Len(q) > room) => n = Len(q)
  BY <1>1, <1>2
<1> QED
  BY <1>3, <1>5, <1>6, <1>7, <1>8, Zenon

\* The setting the UI leaves, in terms of the setting it began with.
LEMMA EnabledRound ==
    ASSUME NEW told, NEW touched, NEW ks, IInv, Round(told, touched, ks), seed.sent, ~lost',
           ui'.seeded
    PROVE  EnabledAfter(ui'.enabled, flash.enabled, cmdq')
<1> DEFINE q == Asked(told, touched)
<1>1. QueueInv /\ FlowInv
  BY DEF IInv
<1>2. /\ told.enabled \in BOOLEAN /\ touched.enabled \in BOOLEAN /\ Took(ui, told)
      /\ Persist(q) /\ ui'.enabled = touched.enabled
  BY Zenon DEF Round
<1>3. /\ q \in Seq(BOOLEAN)
      /\ Len(q) > 0 => q[Len(q)] = touched.enabled
      /\ (Len(q) = 0 /\ (evtq = <<>> \/ Head(evtq).kind # "seed")) => touched.enabled = ui.enabled
      /\ (Len(q) = 0 /\ evtq # <<>> /\ Head(evtq).kind = "seed")
           => touched.enabled = Head(evtq).enabled
  BY <1>1, <1>2, AskedFacts
<1> HIDE DEF q
<1>4. ~lost /\ cmdq' = cmdq \o q
  BY <1>1, <1>2, <1>3, PersistFacts
<1>5. cmdq \in Seq(BOOLEAN)
  BY <1>1 DEF QueueInv
<1>6. CASE Len(q) > 0
  BY <1>2, <1>3, <1>4, <1>5, <1>6 DEF EnabledAfter
<1>7. CASE Len(q) = 0 /\ ui.seeded
  <2>1. evtq = <<>> \/ Head(evtq).kind # "seed"
    BY <1>1, <1>4, <1>7 DEF FlowInv, OneSeed, QueueInv
  <2>2. cmdq' = cmdq
    BY <1>3, <1>4, <1>5, <1>7
  <2>3. EnabledAfter(ui.enabled, flash.enabled, cmdq)
    BY <1>1, <1>4, <1>7 DEF FlowInv, SeededInv
  <2> QED
    BY <1>2, <1>3, <1>7, <2>1, <2>2, <2>3 DEF EnabledAfter
<1>8. CASE Len(q) = 0 /\ ~ui.seeded
  <2>1. cmdq = <<>> /\ evtq # <<>> /\ evtq[1].kind = "seed" /\ evtq[1].enabled = flash.enabled
    BY <1>1, <1>4, <1>8 DEF FlowInv, SeedUnderWayInv
  <2>2. Head(evtq) = evtq[1]
    BY <1>1, <2>1 DEF QueueInv
  <2>3. cmdq' = <<>>
    BY <1>3, <1>4, <1>8, <2>1
  <2> QED
    BY <1>2, <1>3, <1>8, <2>1, <2>2, <2>3 DEF EnabledAfter
<1>9. Len(q) \in Nat
  BY <1>3
<1> QED
  BY <1>6, <1>7, <1>8, <1>9

LEMMA TailPin ==
    ASSUME NEW p, NEW u, NEW v, NEW q \in Seq(Events), q # <<>>, PinAfter(p, u, q),
           v.pin = IF CarriesPin(Head(q)) THEN Head(q).pin ELSE u.pin
    PROVE  PinAfter(p, v, Tail(q))
<1>1. /\ Tail(q) \in Seq(Events) /\ Len(q) >= 1 /\ Len(q) \in Nat /\ Len(Tail(q)) = Len(q) - 1
      /\ \A i \in 1..Len(Tail(q)) : Tail(q)[i] = q[i + 1]
      /\ Head(q) = q[1]
  OBVIOUS
<1>2. ASSUME \A i \in 1..Len(Tail(q)) : ~CarriesPin(Tail(q)[i])
      PROVE  v.pin = p
  <2>1. \A j \in 2..Len(q) : ~CarriesPin(q[j])
    <3>1. ASSUME NEW j \in 2..Len(q) PROVE ~CarriesPin(q[j])
      <4>1. j - 1 \in 1..Len(Tail(q)) /\ q[(j - 1) + 1] = q[j]
        BY <1>1
      <4> QED
        BY <1>1, <1>2, <4>1
    <3> QED
      BY <3>1
  <2>2. CASE CarriesPin(q[1])
    BY <1>1, <2>1, <2>2 DEF PinAfter
  <2>3. CASE ~CarriesPin(q[1])
    <3>1. \A i \in 1..Len(q) : ~CarriesPin(q[i])
      BY <1>1, <2>1, <2>3
    <3> QED
      BY <1>1, <2>3, <3>1 DEF PinAfter
  <2> QED
    BY <2>2, <2>3
<1>3. ASSUME NEW i \in 1..Len(Tail(q)), CarriesPin(Tail(q)[i]),
             \A j \in (i + 1)..Len(Tail(q)) : ~CarriesPin(Tail(q)[j])
      PROVE  Tail(q)[i].pin = p
  <2>1. \A j \in (i + 2)..Len(q) : ~CarriesPin(q[j])
    <3>1. ASSUME NEW j \in (i + 2)..Len(q) PROVE ~CarriesPin(q[j])
      <4>1. j - 1 \in (i + 1)..Len(Tail(q)) /\ j - 1 \in 1..Len(Tail(q)) /\ q[(j - 1) + 1] = q[j]
        BY <1>1
      <4> QED
        BY <1>1, <1>3, <4>1
    <3> QED
      BY <3>1
  <2>2. i + 1 \in 1..Len(q) /\ CarriesPin(q[i + 1]) /\ Tail(q)[i] = q[i + 1]
        /\ (i + 1) + 1 = i + 2
    BY <1>1, <1>3
  <2> QED
    BY <2>1, <2>2 DEF PinAfter
<1> QED
  BY <1>2, <1>3 DEF PinAfter

LEMMA RoundFlow ==
    ASSUME NEW told, NEW touched, NEW ks, IInv, Round(told, touched, ks)
    PROVE  QueueInv' /\ FlowInv' /\ GestureInv'
<1> DEFINE q == Asked(told, touched)
<1>1. QueueInv /\ FlowInv /\ GestureInv
  BY DEF IInv
<1>2. /\ told.enabled \in BOOLEAN /\ touched.enabled \in BOOLEAN /\ Took(ui, told)
      /\ Toggles(told, touched) /\ Persist(q) /\ flash' = flash /\ seed' = seed
      /\ ui'.pin = touched.pin /\ ui'.enabled = touched.enabled /\ ui'.seeded = touched.seeded
      /\ env' \in [finger : BOOLEAN, woke : BOOLEAN]
      /\ evtq' = IF evtq = <<>> THEN evtq ELSE Tail(evtq)
      /\ ui'.leak = ui.leak /\ (env'.woke => ui'.swallow)
  BY DEF Round
<1>3. q \in Seq(BOOLEAN) /\ ((evtq = <<>> /\ touched.enabled = told.enabled) => q = <<>>)
  BY <1>1, <1>2, AskedFacts
<1> HIDE DEF q
<1>4. /\ cmdq' \in Seq(BOOLEAN) /\ Len(cmdq') <= CommandCap /\ lost' \in BOOLEAN
      /\ ~lost' => ~lost /\ cmdq' = cmdq \o q
  <2>1. q \in Seq(BOOLEAN)
    BY <1>3, Zenon
  <2>2. QueueInv /\ Persist(q)
    BY <1>1, <1>2, Zenon
  <2> QED
    BY <2>1, <2>2, PersistFacts
<1>5. evtq' \in Seq(Events) /\ Len(evtq') <= EventCap
  <2>1. evtq \in Seq(Events) /\ Len(evtq) <= EventCap /\ EventCap \in Nat
    BY <1>1, ScreenLockAssumption DEF QueueInv
  <2>2. CASE evtq = <<>>
    BY <1>2, <2>1, <2>2
  <2>3. CASE evtq # <<>>
    <3>1. evtq' = Tail(evtq)
      BY <1>2, <2>3
    <3>2. Tail(evtq) \in Seq(Events) /\ Len(Tail(evtq)) = Len(evtq) - 1 /\ Len(evtq) \in Nat
      BY <2>1, <2>3
    <3> QED
      BY <2>1, <3>1, <3>2
  <2> QED
    BY <2>2, <2>3
<1>6. QueueInv'
  BY <1>1, <1>2, <1>4, <1>5 DEF QueueInv
<1>7. GestureInv'
  BY <1>1, <1>2 DEF GestureInv
<1>8. /\ told.pin = IF evtq = <<>> THEN ui.pin
                    ELSE IF CarriesPin(Head(evtq)) THEN Head(evtq).pin ELSE ui.pin
      /\ told.seeded = IF evtq = <<>> THEN ui.seeded ELSE ui.seeded \/ Head(evtq).kind = "seed"
  BY <1>2 DEF Took, Told, Keeps
<1>9. ui'.pin = told.pin /\ ui'.seeded = told.seeded /\ (touched.enabled # told.enabled => told.seeded)
  BY <1>2, Zenon DEF Toggles
<1>10. UnseededInv'
  <2> SUFFICES ASSUME ~seed.sent, ~lost'
               PROVE  /\ evtq' = <<>> /\ cmdq' = <<>> /\ ~ui'.seeded
                      /\ seed.pin = flash.pin /\ seed.enabled = flash.enabled
    BY <1>2 DEF UnseededInv
  <2>1. /\ evtq = <<>> /\ cmdq = <<>> /\ ~ui.seeded
        /\ seed.pin = flash.pin /\ seed.enabled = flash.enabled
    BY <1>1, <1>4 DEF FlowInv, UnseededInv
  <2>2. ~told.seeded
    BY <1>8, <2>1
  <2>3. q = <<>>
    BY <1>3, <1>9, <2>1, <2>2
  <2> QED
    BY <1>2, <1>4, <1>9, <2>1, <2>2, <2>3
<1>11. ASSUME seed.sent, ~lost' PROVE ui'.seeded
  <2>1. CASE ui.seeded
    BY <1>8, <1>9, <2>1
  <2>2. CASE ~ui.seeded
    <3>1. evtq # <<>> /\ evtq[1].kind = "seed"
      BY <1>1, <1>4, <1>11, <2>2 DEF FlowInv, SeedUnderWayInv
    <3>2. Head(evtq) = evtq[1]
      BY <1>1, <3>1 DEF QueueInv
    <3> QED
      BY <1>8, <1>9, <3>1, <3>2
  <2> QED
    BY <2>1, <2>2
<1>12. SeedUnderWayInv'
  BY <1>2, <1>11 DEF SeedUnderWayInv
<1>13. SeededInv'
  <2>1. seed.sent /\ ~lost' /\ ui'.seeded => EnabledAfter(ui'.enabled, flash.enabled, cmdq')
    BY EnabledRound
  <2> QED
    BY <1>2, <2>1 DEF SeededInv
<1>14. PinInv'
  <2> SUFFICES ASSUME seed.sent, ~lost' PROVE PinAfter(flash.pin, ui', evtq')
    BY <1>2 DEF PinInv
  <2>1. PinAfter(flash.pin, ui, evtq)
    BY <1>1, <1>4 DEF FlowInv, PinInv
  <2>2. CASE evtq = <<>>
    BY <1>2, <1>8, <1>9, <2>1, <2>2 DEF PinAfter
  <2>3. CASE evtq # <<>>
    <3>1. ui'.pin = IF CarriesPin(Head(evtq)) THEN Head(evtq).pin ELSE ui.pin
      BY <1>8, <1>9, <2>3
    <3>2. evtq \in Seq(Events) /\ evtq' = Tail(evtq)
      BY <1>1, <1>2, <2>3 DEF QueueInv
    <3> QED
      BY <2>1, <2>3, <3>1, <3>2, TailPin
  <2> QED
    BY <2>2, <2>3
<1>15. OneSeed'
  <2> SUFFICES ASSUME ~lost', NEW i \in 1..Len(evtq'), evtq'[i].kind = "seed" PROVE FALSE
    BY DEF OneSeed
  <2>1. evtq # <<>> /\ i + 1 \in 1..Len(evtq) /\ evtq'[i] = evtq[i + 1] /\ i + 1 # 1
    BY <1>1, <1>2 DEF QueueInv
  <2> QED
    BY <1>1, <1>4, <2>1 DEF FlowInv, OneSeed
<1> QED
  BY <1>6, <1>7, <1>10, <1>12, <1>13, <1>14, <1>15 DEF FlowInv

LEMMA StepKeeps ==
    ASSUME IInv, UiStep
    PROVE  IInv'
<1>1. PICK d \in 0..1, ks \in Gestures, built \in {TRUE, ui.overlay} :
        \E dismiss \in {FALSE, ui.active = "splash"}, c \in (IF Lifts(ks) THEN Clicks ELSE {"other"}),
           k \in (IF ks = <<>> THEN {"none", "nav"} ELSE {"none"}) :
           Step(d, dismiss, ks, c, k, built)
  BY Zenon DEF UiStep
<1>2. PICK dismiss \in {FALSE, ui.active = "splash"}, c \in (IF Lifts(ks) THEN Clicks ELSE {"other"}),
           k \in (IF ks = <<>> THEN {"none", "nav"} ELSE {"none"}) :
           Step(d, dismiss, ks, c, k, built)
  BY <1>1, Zenon
<1>3. built \in BOOLEAN
  BY Zenon DEF IInv, Sound, Ui
<1>4. dismiss \in BOOLEAN
  <2>1. dismiss = FALSE \/ dismiss = (ui.active = "splash")
    BY Zenon
  <2> QED
    BY <2>1, Zenon
<1>5. PICK told, touched : Round(told, touched, ks)
  BY <1>2, <1>3, <1>4, StepRound, Zenon
<1>6. /\ Sound(ui') /\ ui'.fails <= MaxFails
      /\ LockedFrameIsOverlay' /\ IdleDeviceLocks'
  BY <1>5, Zenon DEF Round
<1>7. QueueInv' /\ FlowInv' /\ GestureInv'
  BY <1>5, RoundFlow
<1> QED
  BY <1>6, <1>7, Zenon DEF IInv

-----------------------------------------------------------------------------
(***************************************************************************)
(* The dispatcher, the USB admin task and the boot.                        *)
(***************************************************************************)
LEMMA AppendIs ==
    ASSUME NEW q \in Seq(Events), NEW e \in Events, NEW r, r = Append(q, e)
    PROVE  /\ r \in Seq(Events) /\ Len(r) = Len(q) + 1 /\ Len(q) \in Nat
           /\ \A i \in 1..Len(q) : r[i] = q[i]
           /\ r[Len(q) + 1] = e
  OBVIOUS

LEMMA AppendOther ==
    ASSUME NEW q \in Seq(Events), NEW e \in Events, NEW p, NEW u, PinAfter(p, u, q),
           ~CarriesPin(e)
    PROVE  PinAfter(p, u, Append(q, e))
<1> DEFINE r == Append(q, e)
<1>1. /\ r \in Seq(Events) /\ Len(r) = Len(q) + 1 /\ Len(q) \in Nat
      /\ \A i \in 1..Len(q) : r[i] = q[i]
      /\ r[Len(q) + 1] = e
  BY AppendIs
<1> HIDE DEF r
<1>2. ASSUME \A i \in 1..Len(r) : ~CarriesPin(r[i])
      PROVE  u.pin = p
  <2>1. \A i \in 1..Len(q) : ~CarriesPin(q[i])
    BY <1>1, <1>2
  <2> QED
    BY <2>1 DEF PinAfter
<1>3. ASSUME NEW i \in 1..Len(r), CarriesPin(r[i]),
             \A j \in (i + 1)..Len(r) : ~CarriesPin(r[j])
      PROVE  r[i].pin = p
  <2>1. i # Len(q) + 1
    BY <1>1, <1>3
  <2>2. i \in 1..Len(q) /\ r[i] = q[i]
    BY <1>1, <2>1
  <2>3. \A j \in (i + 1)..Len(q) : ~CarriesPin(q[j])
    BY <1>1, <1>3, <2>2
  <2> QED
    BY <1>3, <2>2, <2>3 DEF PinAfter
<1> QED
  BY <1>2, <1>3 DEF PinAfter, r

LEMMA AppendPin ==
    ASSUME NEW q \in Seq(Events), NEW e \in Events, NEW u, CarriesPin(e)
    PROVE  PinAfter(e.pin, u, Append(q, e))
<1> DEFINE r == Append(q, e)
<1>1. /\ r \in Seq(Events) /\ Len(r) = Len(q) + 1 /\ Len(q) \in Nat
      /\ r[Len(q) + 1] = e
  BY AppendIs
<1> HIDE DEF r
<1>2. ~(\A i \in 1..Len(r) : ~CarriesPin(r[i]))
  BY <1>1
<1>3. ASSUME NEW i \in 1..Len(r), CarriesPin(r[i]),
             \A j \in (i + 1)..Len(r) : ~CarriesPin(r[j])
      PROVE  r[i].pin = e.pin
  <2>1. i = Len(r)
    BY <1>1, <1>3
  <2> QED
    BY <1>1, <2>1
<1> QED
  BY <1>2, <1>3 DEF PinAfter, r

LEMMA ForwardFacts ==
    ASSUME NEW e \in Events, QueueInv, Forward(e), seed.sent \/ e.kind = "seed"
    PROVE  /\ evtq' \in Seq(Events) /\ Len(evtq') <= EventCap /\ lost' \in BOOLEAN
           /\ ~lost' => ~lost /\ (evtq' = Append(evtq, e) \/ (evtq' = evtq /\ e.kind = "message"))
<1>1. /\ evtq \in Seq(Events) /\ Len(evtq) <= EventCap /\ EventCap \in Nat /\ Len(evtq) \in Nat
      /\ lost \in BOOLEAN
  BY ScreenLockAssumption DEF QueueInv
<1>2. /\ evtq' = IF Len(evtq) < EventCap THEN Append(evtq, e) ELSE evtq
      /\ lost' = (\/ lost
                  \/ Len(evtq) >= EventCap /\ e.kind # "message"
                  \/ ~seed.sent /\ e.kind # "seed")
  BY Zenon DEF Forward
<1>3. evtq' \in Seq(Events) /\ Len(evtq') <= EventCap
  <2>1. CASE Len(evtq) < EventCap
    <3>1. evtq' = Append(evtq, e)
      BY <1>2, <2>1
    <3>2. evtq' \in Seq(Events) /\ Len(evtq') = Len(evtq) + 1
      BY <1>1, <3>1, AppendIs
    <3> QED
      BY <1>1, <2>1, <3>2
  <2>2. CASE ~(Len(evtq) < EventCap)
    BY <1>1, <1>2, <2>2
  <2> QED
    BY <2>1, <2>2
<1>4. /\ lost' \in BOOLEAN
      /\ ~lost' => ~lost /\ (Len(evtq) >= EventCap => e.kind = "message")
  BY <1>1, <1>2, Zenon
<1>5. evtq' = Append(evtq, e) \/ (evtq' = evtq /\ Len(evtq) >= EventCap)
  BY <1>1, <1>2
<1> QED
  BY <1>3, <1>4, <1>5, Zenon

\* An event of the running device that leaves the settings in flash alone, or writes
\* the PIN it carries.
LEMMA ForwardFlow ==
    ASSUME IInv, NEW e \in Events, Forward(e), e.kind # "seed",
           seed' = seed, ui' = ui, cmdq' = cmdq, env' = env, flash' \in Settings,
           flash'.enabled = flash.enabled,
           CarriesPin(e) => flash'.pin = e.pin,
           ~CarriesPin(e) => flash'.pin = flash.pin
    PROVE  IInv'
<1>1. QueueInv /\ FlowInv
  BY DEF IInv
<1>2. CASE ~seed.sent
  <2>1. lost' = TRUE
    BY <1>2, Zenon DEF Forward
  <2>2. evtq' \in Seq(Events) /\ Len(evtq') <= EventCap
    <3>1. evtq \in Seq(Events) /\ Len(evtq) <= EventCap /\ EventCap \in Nat /\ Len(evtq) \in Nat
      BY <1>1, ScreenLockAssumption DEF QueueInv
    <3>2. evtq' = IF Len(evtq) < EventCap THEN Append(evtq, e) ELSE evtq
      BY Zenon DEF Forward
    <3> QED
      BY <3>1, <3>2
  <2>3. QueueInv'
    BY <1>1, <2>1, <2>2 DEF QueueInv
  <2>4. FlowInv'
    BY <2>1 DEF FlowInv, UnseededInv, SeedUnderWayInv, SeededInv, PinInv, OneSeed
  <2> QED
    BY <2>3, <2>4, Zenon DEF IInv, GestureInv, LockedFrameIsOverlay, IdleDeviceLocks
<1>3. CASE seed.sent
  <2>1. /\ evtq' \in Seq(Events) /\ Len(evtq') <= EventCap /\ lost' \in BOOLEAN
        /\ ~lost' => ~lost /\ (evtq' = Append(evtq, e) \/ (evtq' = evtq /\ e.kind = "message"))
    BY <1>1, <1>3, ForwardFacts, Zenon
  <2>2. QueueInv'
    BY <1>1, <2>1 DEF QueueInv
  <2>3. evtq \in Seq(Events) /\ Len(evtq) \in Nat
    BY <1>1 DEF QueueInv
  <2>4. UnseededInv'
    BY <1>3 DEF UnseededInv
  <2>5. ASSUME ~lost', NEW i \in 1..Len(evtq'), evtq'[i].kind = "seed"
        PROVE  i \in 1..Len(evtq) /\ evtq'[i] = evtq[i]
    <3>1. CASE evtq' = evtq
      BY <2>5, <3>1
    <3>2. CASE evtq' = Append(evtq, e)
      <4>1. /\ Len(evtq') = Len(evtq) + 1
            /\ \A j \in 1..Len(evtq) : evtq'[j] = evtq[j]
            /\ evtq'[Len(evtq) + 1] = e
        BY <2>3, <3>2, AppendIs
      <4>2. i # Len(evtq) + 1
        BY <2>5, <4>1
      <4> QED
        BY <2>3, <2>5, <4>1, <4>2
    <3> QED
      BY <2>1, <2>5, <3>1, <3>2
  <2>6. SeedUnderWayInv'
    <3> SUFFICES ASSUME ~lost', ~ui.seeded
                 PROVE  cmdq = <<>> /\ evtq' # <<>> /\ evtq'[1].kind = "seed"
                        /\ evtq'[1].enabled = flash.enabled
      BY DEF SeedUnderWayInv
    <3>1. cmdq = <<>> /\ evtq # <<>> /\ evtq[1].kind = "seed" /\ evtq[1].enabled = flash.enabled
      BY <1>1, <1>3, <2>1 DEF FlowInv, SeedUnderWayInv
    <3>2. CASE evtq' = evtq
      BY <3>1, <3>2
    <3>3. CASE evtq' = Append(evtq, e)
      <4>1. evtq' # <<>> /\ evtq'[1] = evtq[1]
        BY <2>3, <3>1, <3>3
      <4> QED
        BY <3>1, <4>1
    <3> QED
      BY <2>1, <3>2, <3>3
  <2>7. SeededInv'
    BY <1>1, <1>3, <2>1 DEF FlowInv, SeededInv
  <2>8. PinInv'
    <3> SUFFICES ASSUME ~lost' PROVE PinAfter(flash'.pin, ui, evtq')
      BY DEF PinInv
    <3>1. PinAfter(flash.pin, ui, evtq)
      BY <1>1, <1>3, <2>1 DEF FlowInv, PinInv
    <3>2. CASE evtq' = evtq /\ e.kind = "message"
      BY <3>1, <3>2 DEF CarriesPin
    <3>3. CASE evtq' = Append(evtq, e) /\ CarriesPin(e)
      BY <2>3, <3>3, AppendPin
    <3>4. CASE evtq' = Append(evtq, e) /\ ~CarriesPin(e)
      BY <2>3, <3>1, <3>4, AppendOther
    <3> QED
      BY <2>1, <3>2, <3>3, <3>4
  <2>9. OneSeed'
    BY <1>1, <2>1, <2>5 DEF FlowInv, OneSeed
  <2>10. FlowInv'
    BY <2>4, <2>6, <2>7, <2>8, <2>9 DEF FlowInv
  <2> QED
    BY <2>2, <2>10, Zenon DEF IInv, GestureInv, LockedFrameIsOverlay, IdleDeviceLocks
<1>4. seed.sent \in BOOLEAN
  BY <1>1, Zenon DEF QueueInv
<1> QED
  BY <1>2, <1>3

LEMMA SendSeedKeeps ==
    ASSUME IInv, SendSeed
    PROVE  IInv'
<1> DEFINE e == [kind |-> "seed", pin |-> seed.pin, enabled |-> seed.enabled]
<1>1. QueueInv /\ FlowInv
  BY DEF IInv
<1>2. e \in Events /\ e.kind = "seed" /\ e.pin = seed.pin /\ e.enabled = seed.enabled
  BY <1>1 DEF QueueInv, Events
<1>3. /\ ~seed.sent /\ Forward(e) /\ seed' = [sent |-> TRUE, pin |-> NoPin, enabled |-> FALSE]
      /\ ui' = ui /\ cmdq' = cmdq /\ flash' = flash /\ env' = env
  BY DEF SendSeed
<1> HIDE DEF e
<1>4. /\ evtq' \in Seq(Events) /\ Len(evtq') <= EventCap /\ lost' \in BOOLEAN
      /\ ~lost' => ~lost /\ (evtq' = Append(evtq, e) \/ (evtq' = evtq /\ e.kind = "message"))
  BY <1>1, <1>2, <1>3, ForwardFacts, Zenon
<1>5. QueueInv'
  BY <1>1, <1>3, <1>4 DEF QueueInv
<1>6. ASSUME ~lost'
      PROVE  /\ evtq' = Append(evtq, e) /\ evtq = <<>> /\ cmdq = <<>> /\ ~ui.seeded
             /\ e.pin = flash.pin /\ e.enabled = flash.enabled
  BY <1>1, <1>2, <1>3, <1>4, <1>6 DEF FlowInv, UnseededInv
<1>7. ASSUME ~lost' PROVE evtq' # <<>> /\ Len(evtq') = 1 /\ evtq'[1] = e
  <2>1. evtq' = Append(evtq, e) /\ evtq = <<>>
    BY <1>6, <1>7, Zenon
  <2>2. evtq \in Seq(Events) /\ Len(evtq) = 0
    BY <2>1
  <2>3. Len(evtq') = 0 + 1 /\ evtq'[0 + 1] = e
    BY <1>2, <2>1, <2>2, AppendIs
  <2> QED
    BY <2>3
<1>8. UnseededInv' /\ SeededInv'
  BY <1>3, <1>6 DEF UnseededInv, SeededInv
<1>9. SeedUnderWayInv'
  <2> SUFFICES ASSUME ~lost'
               PROVE  cmdq = <<>> /\ evtq' # <<>> /\ evtq'[1].kind = "seed"
                      /\ evtq'[1].enabled = flash.enabled
    BY <1>3, Zenon DEF SeedUnderWayInv
  <2> QED
    BY <1>2, <1>6, <1>7, Zenon
<1>10. PinInv'
  <2> SUFFICES ASSUME ~lost' PROVE PinAfter(flash.pin, ui, evtq')
    BY <1>3 DEF PinInv
  <2>1. CarriesPin(e) /\ evtq \in Seq(Events)
    BY <1>1, <1>2 DEF CarriesPin, QueueInv
  <2> QED
    BY <1>2, <1>6, <2>1, AppendPin
<1>11. OneSeed'
  <2> SUFFICES ASSUME ~lost', NEW i \in 1..Len(evtq') PROVE i = 1 /\ ~ui.seeded
    BY <1>3, Zenon DEF OneSeed
  <2>1. Len(evtq') = 1 /\ ~ui.seeded
    BY <1>6, <1>7, Zenon
  <2> QED
    BY <2>1
<1>12. FlowInv'
  BY <1>8, <1>9, <1>10, <1>11 DEF FlowInv
<1> QED
  BY <1>3, <1>5, <1>12, Zenon DEF IInv, GestureInv, LockedFrameIsOverlay, IdleDeviceLocks

LEMMA IncomingMessageKeeps ==
    ASSUME IInv, IncomingMessage
    PROVE  IInv'
<1> DEFINE e == [kind |-> "message"]
<1>1. e \in Events /\ e.kind = "message"
  BY DEF Events
<1>2. Forward(e) /\ seed' = seed /\ ui' = ui /\ cmdq' = cmdq /\ env' = env /\ flash' = flash
  BY DEF IncomingMessage
<1>3. flash' \in Settings
  BY <1>2 DEF IInv, QueueInv
<1> HIDE DEF e
<1>4. ~CarriesPin(e) /\ e.kind # "seed"
  BY <1>1 DEF CarriesPin
<1> QED
  BY <1>1, <1>2, <1>3, <1>4, ForwardFlow

LEMMA SetLockPinKeeps ==
    ASSUME IInv, NEW p \in Pins, SetLockPin(p)
    PROVE  IInv'
<1> DEFINE e == [kind |-> "pin", pin |-> p]
<1>1. e \in Events /\ e.kind = "pin" /\ e.pin = p
  BY DEF Events
<1>2. /\ Forward(e) /\ seed' = seed /\ ui' = ui /\ cmdq' = cmdq /\ env' = env
      /\ flash' = [flash EXCEPT !.pin = p]
  BY DEF SetLockPin
<1>3. flash \in Settings
  BY DEF IInv, QueueInv
<1>4. flash' \in Settings /\ flash'.enabled = flash.enabled /\ flash'.pin = p
  BY <1>2, <1>3 DEF Settings
<1> HIDE DEF e
<1>5. CarriesPin(e) /\ e.kind # "seed"
  BY <1>1 DEF CarriesPin
<1> QED
  BY <1>1, <1>2, <1>4, <1>5, ForwardFlow

LEMMA SetLockConfigKeeps ==
    ASSUME IInv, NEW v \in BOOLEAN, SetLockConfig(v)
    PROVE  IInv'
<1> DEFINE e == [kind |-> "config", enabled |-> v]
<1>1. e \in Events /\ e.kind = "config"
  BY DEF Events
<1>2. Forward(e) /\ seed' = seed /\ ui' = ui /\ cmdq' = cmdq /\ env' = env /\ flash' = flash
  BY DEF SetLockConfig
<1>3. flash' \in Settings
  BY <1>2 DEF IInv, QueueInv
<1> HIDE DEF e
<1>4. ~CarriesPin(e) /\ e.kind # "seed"
  BY <1>1 DEF CarriesPin
<1> QED
  BY <1>1, <1>2, <1>3, <1>4, ForwardFlow

LEMMA LastOfTail ==
    ASSUME NEW S, NEW q \in Seq(S), q # <<>>, Len(q) # 1
    PROVE  Tail(q) # <<>> /\ Tail(q)[Len(Tail(q))] = q[Len(q)]
<1>1. /\ Tail(q) \in Seq(S) /\ Len(Tail(q)) = Len(q) - 1
      /\ \A i \in 1..Len(Tail(q)) : Tail(q)[i] = q[i + 1]
  BY HeadTailProperties, Zenon
<1>2. Len(q) \in Nat /\ Len(q) # 0
  BY EmptySeq, LenProperties
<1>3. Len(Tail(q)) \in 1..Len(Tail(q)) /\ Len(Tail(q)) + 1 = Len(q) /\ Len(Tail(q)) # 0
  <2> DEFINE n == Len(q)
             m == Len(Tail(q))
  <2>1. m = n - 1 /\ n \in Nat /\ n # 0 /\ n # 1
    BY <1>1, <1>2
  <2> HIDE DEF m, n
  <2>2. m \in 1..m /\ m + 1 = n /\ m # 0
    BY <2>1
  <2> QED
    BY <2>2 DEF m, n
<1>4. Tail(q) # <<>>
  BY <1>3, EmptySeq, Zenon
<1>5. Tail(q)[Len(Tail(q))] = q[Len(Tail(q)) + 1]
  BY <1>1, <1>3, Zenon
<1> QED
  BY <1>3, <1>4, <1>5, Zenon

LEMMA SaveSettingsKeeps ==
    ASSUME IInv, SaveSettings
    PROVE  IInv'
<1>1. QueueInv /\ FlowInv
  BY DEF IInv
<1>2. /\ cmdq # <<>> /\ cmdq' = Tail(cmdq)
      /\ ui' = ui /\ evtq' = evtq /\ seed' = seed /\ env' = env
      /\ \/ flash' = [flash EXCEPT !.enabled = Head(cmdq)] /\ lost' = lost
         \/ lost' = TRUE /\ flash' = flash
  BY DEF SaveSettings
<1>3. /\ cmdq \in Seq(BOOLEAN) /\ Head(cmdq) \in BOOLEAN /\ Tail(cmdq) \in Seq(BOOLEAN)
      /\ Len(cmdq) \in Nat /\ Len(Tail(cmdq)) = Len(cmdq) - 1 /\ Len(cmdq) <= CommandCap
      /\ CommandCap \in Nat
  BY <1>1, <1>2, ScreenLockAssumption DEF QueueInv
<1>4. CASE lost' = TRUE /\ flash' = flash
  <2>1. QueueInv'
    BY <1>1, <1>2, <1>3, <1>4 DEF QueueInv
  <2>2. FlowInv'
    BY <1>4 DEF FlowInv, UnseededInv, SeedUnderWayInv, SeededInv, PinInv, OneSeed
  <2> QED
    BY <1>2, <2>1, <2>2, Zenon DEF IInv, GestureInv, LockedFrameIsOverlay, IdleDeviceLocks
<1>5. CASE flash' = [flash EXCEPT !.enabled = Head(cmdq)] /\ lost' = lost
  <2>1. flash \in Settings
    BY <1>1 DEF QueueInv
  <2>2. flash' \in Settings /\ flash'.pin = flash.pin /\ flash'.enabled = Head(cmdq)
    BY <1>3, <1>5, <2>1 DEF Settings
  <2>3. QueueInv'
    BY <1>1, <1>2, <1>3, <1>5, <2>2 DEF QueueInv
  <2>4. ASSUME ~lost PROVE seed.sent /\ ui.seeded
    BY <1>1, <1>2, <2>4 DEF FlowInv, UnseededInv, SeedUnderWayInv
  <2>5. UnseededInv' /\ SeedUnderWayInv'
    BY <1>2, <1>5, <2>4 DEF UnseededInv, SeedUnderWayInv
  <2>6. SeededInv'
    <3> SUFFICES ASSUME ~lost PROVE EnabledAfter(ui.enabled, flash'.enabled, cmdq')
      BY <1>2, <1>5 DEF SeededInv
    <3>1. EnabledAfter(ui.enabled, flash.enabled, cmdq)
      BY <1>1, <2>4 DEF FlowInv, SeededInv
    <3>2. ui.enabled = cmdq[Len(cmdq)]
      BY <1>2, <3>1 DEF EnabledAfter
    <3>3. CASE Len(cmdq) = 1
      BY <1>2, <1>3, <2>2, <3>2, <3>3 DEF EnabledAfter
    <3>4. CASE Len(cmdq) # 1
      <4>1. Tail(cmdq) # <<>> /\ Tail(cmdq)[Len(Tail(cmdq))] = cmdq[Len(cmdq)]
        BY <1>2, <1>3, <3>4, LastOfTail, Zenon
      <4> QED
        BY <1>2, <3>2, <4>1 DEF EnabledAfter
    <3> QED
      BY <3>3, <3>4
  <2>7. PinInv' /\ OneSeed'
    BY <1>1, <1>2, <1>5, <2>2 DEF FlowInv, PinInv, OneSeed
  <2> QED
    BY <1>2, <2>3, <2>5, <2>6, <2>7, Zenon DEF IInv, FlowInv, GestureInv, LockedFrameIsOverlay, IdleDeviceLocks
<1> QED
  BY <1>2, <1>4, <1>5

LEMMA BootedFacts ==
    /\ Sound(Booted) /\ Booted.fails = 0 /\ ~Booted.locked /\ ~Booted.enabled
    /\ ~Booted.leak /\ ~Booted.seeded
<1>1. Booted \in Ui
  <2>1. 0 \in 0..IdleCap /\ 0 \in 0..BackoffCap /\ BackoffCap \in 0..BackoffCap
    BY Caps
  <2>2. 0 \in Nat
    OBVIOUS
  <2> QED
    BY <2>1, <2>2, Zenon DEF Booted, Ui
<1>2. /\ Booted.fails = 0 /\ ~Booted.locked /\ ~Booted.enabled
      /\ ~Booted.leak /\ ~Booted.seeded /\ ~Booted.hasty /\ Booted.lockout = 0
      /\ Booted.lockAge = BackoffCap /\ Booted.wrongAge = BackoffCap
      /\ ~Booted.asleep /\ ~Booted.heard /\ ~Booted.blink /\ Booted.lit = "full"
  BY Zenon DEF Booted
<1>3. LockoutAfter(0) = 0 /\ BackoffCap \in Nat
  BY Caps, ScreenLockAssumption DEF LockoutAfter
<1>4. Paced(Booted)
  <2>1. BackoffCap >= 0
    BY <1>3
  <2> QED
    BY <1>2, <1>3, <2>1, Zenon DEF Paced
<1>5. Lit(Booted)
  BY <1>2 DEF Lit
<1> QED
  BY <1>1, <1>2, <1>4, <1>5, Zenon DEF Sound

LEMMA FreshBoot ==
    ASSUME NEW f \in Settings,
           ui = Booted, evtq = <<>>, cmdq = <<>>, lost = FALSE, flash = f,
           seed = [sent |-> FALSE, pin |-> f.pin, enabled |-> f.enabled],
           env = [finger |-> FALSE, woke |-> FALSE]
    PROVE  IInv
<1>1. Sound(ui) /\ ui.fails = 0 /\ ~ui.locked /\ ~ui.enabled /\ ~ui.leak /\ ~ui.seeded
  BY BootedFacts, Zenon
<1>2. QueueInv
  <2>1. /\ evtq \in Seq(Events) /\ Len(evtq) <= EventCap
        /\ cmdq \in Seq(BOOLEAN) /\ Len(cmdq) <= CommandCap
    BY ScreenLockAssumption
  <2>2. f.pin \in {NoPin} \cup Pins /\ f.enabled \in BOOLEAN
    BY Zenon DEF Settings
  <2>3. /\ seed \in [sent : BOOLEAN, pin : {NoPin} \cup Pins, enabled : BOOLEAN]
        /\ env \in [finger : BOOLEAN, woke : BOOLEAN]
    BY <2>2, Zenon
  <2> QED
    BY <2>1, <2>3, Zenon DEF QueueInv
<1>3. seed.sent = FALSE /\ seed.pin = flash.pin /\ seed.enabled = flash.enabled /\ env.woke = FALSE
  OBVIOUS
<1>4. FlowInv
  BY <1>1, <1>3 DEF FlowInv, UnseededInv, SeedUnderWayInv, SeededInv, PinInv, OneSeed
<1>5. ui.fails <= MaxFails
  BY <1>1, ScreenLockAssumption
<1> QED
  BY <1>1, <1>2, <1>3, <1>4, <1>5, Zenon
     DEF IInv, GestureInv, LockedFrameIsOverlay, IdleDeviceLocks

LEMMA InitIInv == Init => IInv
<1> SUFFICES ASSUME Init PROVE IInv
  OBVIOUS
<1> QED
  BY FreshBoot DEF Init, Settings

LEMMA RebootKeeps ==
    ASSUME IInv, Reboot
    PROVE  IInv'
<1>1. Sound(ui') /\ ui'.fails = 0 /\ ~ui'.locked /\ ~ui'.enabled /\ ~ui'.leak /\ ~ui'.seeded
  BY BootedFacts, Zenon DEF Reboot
<1>2. /\ evtq' = <<>> /\ cmdq' = <<>> /\ lost' = FALSE /\ flash' = flash
      /\ seed' = [sent |-> FALSE, pin |-> flash.pin, enabled |-> flash.enabled]
      /\ env' = [finger |-> FALSE, woke |-> FALSE]
  BY DEF Reboot
<1>3. flash \in Settings
  BY DEF IInv, QueueInv
<1>4. QueueInv'
  <2>1. /\ evtq' \in Seq(Events) /\ Len(evtq') <= EventCap
        /\ cmdq' \in Seq(BOOLEAN) /\ Len(cmdq') <= CommandCap
    BY <1>2, ScreenLockAssumption
  <2>2. flash.pin \in {NoPin} \cup Pins /\ flash.enabled \in BOOLEAN
    BY <1>3, Zenon DEF Settings
  <2>3. /\ seed' \in [sent : BOOLEAN, pin : {NoPin} \cup Pins, enabled : BOOLEAN]
        /\ env' \in [finger : BOOLEAN, woke : BOOLEAN]
    BY <1>2, <2>2, Zenon
  <2> QED
    BY <1>2, <1>3, <2>1, <2>3, Zenon DEF QueueInv
<1>5. seed'.sent = FALSE /\ seed'.pin = flash'.pin /\ seed'.enabled = flash'.enabled
      /\ env'.woke = FALSE
  BY <1>2
<1>6. FlowInv'
  BY <1>1, <1>2, <1>5 DEF FlowInv, UnseededInv, SeedUnderWayInv, SeededInv, PinInv, OneSeed
<1>7. ui'.fails <= MaxFails
  BY <1>1, ScreenLockAssumption
<1> QED
  BY <1>1, <1>4, <1>5, <1>6, <1>7, Zenon
     DEF IInv, GestureInv, LockedFrameIsOverlay, IdleDeviceLocks

LEMMA IInvStep == IInv /\ [Next]_vars => IInv'
<1> SUFFICES ASSUME IInv, [Next]_vars PROVE IInv'
  OBVIOUS
<1>1. CASE UNCHANGED vars
  <2>1. ui' = ui /\ evtq' = evtq /\ cmdq' = cmdq /\ flash' = flash /\ seed' = seed /\ env' = env
        /\ lost' = lost
    BY <1>1 DEF vars
  <2> QED
    BY <2>1, Zenon DEF IInv, GestureInv, LockedFrameIsOverlay, IdleDeviceLocks, QueueInv, FlowInv,
       UnseededInv, SeedUnderWayInv, SeededInv, PinInv, OneSeed
<1>2. CASE Next
  BY <1>2, StepKeeps, SendSeedKeeps, IncomingMessageKeeps, SaveSettingsKeeps, SetLockPinKeeps,
     SetLockConfigKeeps, RebootKeeps DEF Next
<1> QED
  BY <1>1, <1>2

LEMMA IInvHolds == Spec => []IInv
  BY InitIInv, IInvStep, PTL DEF Spec

-----------------------------------------------------------------------------
(***************************************************************************)
(* The theorems.                                                           *)
(***************************************************************************)
\* At the end of every step of UiRuntime the lock, its overlay, the sleeping screen
\* and the blink agree: a locked frame shows the overlay, an idle device with the
\* lock on is locked, an awake screen is lit.
THEOREM ScreenHolds == Spec => []ScreenInv
<1>1. IInv => ScreenInv
  <2> SUFFICES ASSUME IInv PROVE ScreenInv
    OBVIOUS
  <2>1. ui \in Ui /\ ui.fails \in Nat /\ ui.fails <= MaxFails
    BY Zenon DEF IInv, Sound, Ui
  <2>2. ui.fails \in 0..MaxFails
    BY <2>1, ScreenLockAssumption
  <2>3. ui \in [locked : BOOLEAN, overlay : BOOLEAN,
               shown : {"splash", "app", "overlay", "none"}, active : {"splash", "app"},
               asleep : BOOLEAN, swallow : BOOLEAN, idle : 0..IdleCap, nav : BOOLEAN,
               down : {"splash", "app", "overlay", "none"},
               fails : 0..MaxFails, lockout : 0..BackoffCap, lockAge : 0..BackoffCap,
               confirm : {NoPin} \cup Entries, enabled : BOOLEAN, pin : {NoPin} \cup Pins,
               seeded : BOOLEAN, blink : BOOLEAN, heard : BOOLEAN, lit : {"off", "dim", "full"},
               applied : {"dim", "full"}, dim : BOOLEAN,
               wrongAge : 0..BackoffCap, hasty : BOOLEAN, leak : BOOLEAN]
    BY <2>1, <2>2, Zenon DEF Ui
  <2>4. TypeOK
    BY <2>3, Zenon DEF TypeOK, IInv, QueueInv, Settings
  <2>5. ScreenTellsUser
    BY Zenon DEF IInv, Sound, Lit, ScreenTellsUser
  <2> QED
    BY <2>4, <2>5, Zenon DEF IInv, ScreenInv
<1> QED
  BY <1>1, IInvHolds, PTL

\* No event of the gesture that woke the screen reaches a component.
THEOREM GestureHolds == Spec => []WakeGestureInert
<1>1. IInv => WakeGestureInert
  BY Zenon DEF IInv, GestureInv, WakeGestureInert
<1> QED
  BY <1>1, IInvHolds, PTL

\* Two wrong PINs are scored only as far apart as the lockout of the first one says,
\* whatever reseeds, new PINs, sleeps and unlocks came between them in a boot.
THEOREM PacedHolds == Spec => []AttemptsPaced
<1>1. IInv => AttemptsPaced
  BY Zenon DEF IInv, Sound, Paced, AttemptsPaced
<1> QED
  BY <1>1, IInvHolds, PTL

\* With nothing under way and nothing lost, the PIN and the lock setting that the UI
\* compares against are those flash holds.
THEOREM StoredHolds == Spec => []LiveIsStored
<1>1. IInv => LiveIsStored
  <2> SUFFICES ASSUME IInv, seed.sent, evtq = <<>>, cmdq = <<>>, ~lost
               PROVE  ui.pin = flash.pin /\ ui.enabled = flash.enabled
    BY DEF LiveIsStored
  <2>1. ui.seeded
    BY DEF IInv, FlowInv, SeedUnderWayInv
  <2>2. EnabledAfter(ui.enabled, flash.enabled, cmdq) /\ PinAfter(flash.pin, ui, evtq)
    BY <2>1 DEF IInv, FlowInv, SeededInv, PinInv
  <2>3. ui.enabled = flash.enabled
    BY <2>2 DEF EnabledAfter
  <2>4. ui.pin = flash.pin
    BY <2>2 DEF PinAfter
  <2> QED
    BY <2>3, <2>4
<1> QED
  BY <1>1, IInvHolds, PTL

-----------------------------------------------------------------------------
(***************************************************************************)
(* DeliveryMarks: screen and flash show no more acknowledged messages than *)
(* were acknowledged, and a settled conversation shows what became of each *)
(* message until something is dropped or the device reboots.               *)
(***************************************************************************)

-----------------------------------------------------------------------------
(***************************************************************************)
(* The inductive invariant.                                                *)
(***************************************************************************)
Entry == [msg : Messages, acked : BOOLEAN]

Kinds == {"DmQueued", "DmAcked", "DmUndelivered"}

\* What the dispatcher has sent and kept.
KeptIn(f, m) == \E i \in 1..Len(f) : f[i].msg = m

\* A message is composed once, waits in the command queue, and is then kept once.
SendInv ==
    /\ \A i \in 1..Len(commands) :
          /\ commands[i] \in composed /\ fate[commands[i]] = "Pending"
          /\ ~KeptIn(region, commands[i])
    /\ \A i, j \in 1..Len(commands) : commands[i] = commands[j] => i = j
    /\ \A i \in 1..Len(region) : region[i].msg \in composed
    /\ \A i, j \in 1..Len(region) : region[i].msg = region[j].msg => i = j
    /\ \A m \in outstanding : KeptIn(region, m) /\ fate[m] = "Pending"
    /\ \A m \in Messages : fate[m] = "Acked" => KeptIn(region, m)
    /\ \A m \in Messages \ composed : fate[m] = "Pending"

Blue(b) == {i \in 1..Len(b) : b[i].mark = "Acked"}

AckEvents(q) == {i \in 1..Len(q) : q[i].kind = "DmAcked"}

AckedBits(f) == (1..Len(f)) \ Unacked(f)

\* Every blue check, and every one still in the event queue, has its ACK.
CountInv ==
    /\ Cardinality(Blue(bubbles)) + Cardinality(AckEvents(events)) <= Cardinality(AckedMessages)
    /\ FlashCountsAcks

\* The first bubble whose message is still in the command queue, less one.
Taken == Len(bubbles) - Len(commands)

Verdict(ev) == ev.kind \in {"DmAcked", "DmUndelivered"}

VerdictMark(ev) == IF ev.kind = "DmAcked" THEN "Acked" ELSE "Undelivered"

Apart(b) == \A i, j \in 1..Len(b) : b[i].msg = b[j].msg => i = j

\* While nothing was dropped: the command queue holds the newest bubbles' messages.
CommandInv ==
    /\ Len(commands) <= Len(bubbles)
    /\ \A j \in 1..Len(commands) : commands[j] = bubbles[Taken + j].msg
    /\ \A i \in 1..Len(bubbles) : bubbles[i].msg \in composed
    /\ Apart(bubbles)
    /\ \A m \in outstanding : \E i \in 1..Taken : bubbles[i].msg = m

\* ... every bubble of b carries its own message's tag or none yet, and the DmQueued
\* of the n whose command was taken are under way in q, in the order of the bubbles.
TagsOK(b, n, q) ==
    /\ \A i \in 1..Len(b) :
          /\ b[i].tag \in {NoTag, b[i].msg}
          /\ i > n => b[i].tag = NoTag
          /\ b[i].tag = NoTag => b[i].mark = "Pending"
          /\ b[i].tag = NoTag /\ i <= n =>
                \E p \in 1..Len(q) : q[p].kind = "DmQueued" /\ q[p].msg = b[i].msg
    /\ \A p \in 1..Len(q) : q[p].kind = "DmQueued" =>
          \E i \in 1..n : b[i].msg = q[p].msg /\ b[i].tag = NoTag
    /\ \A i, k \in 1..Len(b), p, o \in 1..Len(q) :
          (/\ q[p].kind = "DmQueued" /\ q[p].msg = b[i].msg
           /\ q[o].kind = "DmQueued" /\ q[o].msg = b[k].msg) => (i < k <=> p < o)

\* ... and a bubble shows its message's fate, unless the one event that tells it is
\* under way, behind the message's DmQueued.
VerdictsOK(b, n, q, ft) ==
    /\ \A i \in 1..Len(b) :
          \/ b[i].mark = ft[b[i].msg]
          \/ \E p \in 1..Len(q) : Verdict(q[p]) /\ q[p].msg = b[i].msg
    /\ \A p \in 1..Len(q) : Verdict(q[p]) =>
          /\ ft[q[p].msg] = VerdictMark(q[p])
          /\ \E i \in 1..n : b[i].msg = q[p].msg
          /\ \A o \in 1..Len(q) : q[o].msg = q[p].msg /\ o # p => q[o].kind = "DmQueued" /\ o < p

TagInv == TagsOK(bubbles, Taken, events)

VerdictInv == VerdictsOK(bubbles, Taken, events, fate)

\* Without a region scope every message is refused: as many bubbles wait for a mark
\* as there are commands and events under way.
RefusedInv ==
    /\ outstanding = {}
    /\ \A i \in 1..Len(bubbles) :
          /\ bubbles[i].tag = NoTag /\ bubbles[i].mark # "Acked"
          /\ i <= Taken => fate[bubbles[i].msg] = "Undelivered"
    /\ \A p \in 1..Len(events) : events[p].kind = "DmUndelivered"
    /\ Cardinality(Pending(bubbles)) = Len(commands) + Len(events)

SmoothInv ==
    smooth => /\ CommandInv
              /\ regionOk => TagInv /\ VerdictInv
              /\ ~regionOk => RefusedInv

MarksIInv == MarksTypeOK /\ SendInv /\ CountInv /\ SmoothInv

-----------------------------------------------------------------------------
(***************************************************************************)
(* Sequences, counts and the searches.                                     *)
(***************************************************************************)
LEMMA LowestOf ==
    ASSUME NEW S \in SUBSET Nat, S # {}
    PROVE  Min(S) \in S /\ \A y \in S : Min(S) <= y
<1>1. PICK m \in S : \A y \in S : <<y, m>> \notin OpToRel(<, Nat)
  BY NatLessThanWellFounded, WFMin
<1>2. ASSUME NEW y \in S PROVE m <= y
  <2>1. ~(y < m)
    BY <1>1 DEF OpToRel
  <2>2. y \in Nat /\ m \in Nat
    OBVIOUS
  <2> QED
    BY <2>1, <2>2
<1>3. \E x \in S : \A y \in S : x <= y
  BY <1>2
<1> QED
  BY <1>3 DEF Min

LEMMA HighestOf ==
    ASSUME NEW N \in Nat, NEW S \in SUBSET (1..N), S # {}
    PROVE  Max(S) \in S
<1> DEFINE D == {d \in 0..N : N - d \in S}
<1>1. D \in SUBSET Nat /\ D # {}
  <2>1. PICK y \in S : TRUE
    OBVIOUS
  <2>2. N - y \in 0..N /\ N - (N - y) = y
    OBVIOUS
  <2>3. N - y \in D
    BY <2>2
  <2>4. D \in SUBSET Nat
    OBVIOUS
  <2> QED
    BY <2>3, <2>4
<1>2. Min(D) \in D /\ \A x \in D : Min(D) <= x
  <2> HIDE DEF D
  <2> QED
    BY <1>1, LowestOf
<1> DEFINE k == Min(D)
<1>3. k \in 0..N /\ N - k \in S /\ \A x \in D : k <= x
  BY <1>2
<1> HIDE DEF k
<1>4. ASSUME NEW y \in S PROVE N - k >= y
  <2>1. N - y \in 0..N /\ N - (N - y) = y
    OBVIOUS
  <2>2. k <= N - y
    BY <1>3, <2>1
  <2> QED
    BY <1>3, <2>1, <2>2
<1>5. \E x \in S : \A y \in S : x >= y
  BY <1>3, <1>4
<1> QED
  BY <1>5 DEF Max

LEMMA Grown ==
    ASSUME NEW S, NEW s \in Seq(S), NEW e \in S, NEW t, t = Append(s, e)
    PROVE  /\ t \in Seq(S) /\ Len(s) \in Nat /\ Len(t) = Len(s) + 1 /\ t[Len(s) + 1] = e
           /\ \A i \in 1..Len(s) : t[i] = s[i]
           /\ \A i \in 1..Len(t) : i \in 1..Len(s) \/ i = Len(s) + 1
  OBVIOUS

LEMMA Shifted ==
    ASSUME NEW S, NEW s \in Seq(S), s # <<>>, NEW t, t = Tail(s)
    PROVE  /\ t \in Seq(S) /\ Len(s) \in Nat /\ Len(s) >= 1 /\ Len(t) = Len(s) - 1
           /\ Head(s) = s[1] /\ s[1] \in S
           /\ \A i \in 1..Len(t) : i + 1 \in 1..Len(s) /\ t[i] = s[i + 1]
           /\ \A i \in 1..Len(s) : i # 1 => i - 1 \in 1..Len(t) /\ t[i - 1] = s[i]
  OBVIOUS

\* Positions in a sequence are finitely many.
LEMMA Positions ==
    ASSUME NEW S, NEW s \in Seq(S), NEW A \in SUBSET (1..Len(s))
    PROVE  IsFiniteSet(A) /\ Cardinality(A) \in Nat /\ Cardinality(A) <= Len(s)
<1>1. Len(s) \in Nat
  OBVIOUS
<1>2. IsFiniteSet(1..Len(s)) /\ Cardinality(1..Len(s)) = Len(s)
  BY <1>1, FS_Interval
<1> QED
  BY <1>2, FS_Subset, FS_CardinalityType

\* What one more position counts for.
LEMMA OneMore ==
    ASSUME NEW A, NEW B, NEW x, IsFiniteSet(A), B \subseteq A \cup {x}
    PROVE  /\ IsFiniteSet(B) /\ Cardinality(A) \in Nat /\ Cardinality(B) \in Nat
           /\ Cardinality(B) <= Cardinality(A) + 1
           /\ B \subseteq A => Cardinality(B) <= Cardinality(A)
           /\ (B = A \cup {x} /\ x \notin A) => Cardinality(B) = Cardinality(A) + 1
<1>1. /\ IsFiniteSet(A \cup {x}) /\ Cardinality(A) \in Nat
      /\ Cardinality(A \cup {x}) = IF x \in A THEN Cardinality(A) ELSE Cardinality(A) + 1
  BY FS_AddElement, FS_CardinalityType
<1>2. IsFiniteSet(B) /\ Cardinality(B) <= Cardinality(A \cup {x})
  BY <1>1, FS_Subset
<1>3. Cardinality(B) \in Nat
  BY <1>2, FS_CardinalityType
<1>4. B \subseteq A => Cardinality(B) <= Cardinality(A)
  BY FS_Subset
<1>5. Cardinality(B) <= Cardinality(A) + 1
  BY <1>1, <1>2, <1>3
<1>6. B = A \cup {x} /\ x \notin A => Cardinality(B) = Cardinality(A) + 1
  BY <1>1
<1> QED
  BY <1>1, <1>2, <1>3, <1>4, <1>5, <1>6

\* Taking the first of a sequence takes the first position out of a set of them.
LEMMA OneLess ==
    ASSUME NEW S, NEW s \in Seq(S), s # <<>>, NEW A \in SUBSET (1..Len(s)),
           NEW B \in SUBSET (1..Len(Tail(s))),
           \A i \in 1..Len(Tail(s)) : i \in B <=> i + 1 \in A
    PROVE  Cardinality(B) = IF 1 \in A THEN Cardinality(A) - 1 ELSE Cardinality(A)
<1>1. Len(s) \in Nat /\ Len(s) >= 1 /\ Len(Tail(s)) = Len(s) - 1
  BY Shifted
<1>2. IsFiniteSet(A) /\ IsFiniteSet(B)
  BY <1>1, Positions, Shifted
<1>3. IsFiniteSet(A \ {1})
      /\ Cardinality(A \ {1}) = IF 1 \in A THEN Cardinality(A) - 1 ELSE Cardinality(A)
  BY <1>2, FS_RemoveElement
<1> DEFINE f == [i \in B |-> i + 1]
<1>4. f \in Bijection(B, A \ {1})
  <2>1. \A i \in B : f[i] \in A \ {1}
    BY <1>1
  <2>2. \A i, j \in B : f[i] = f[j] => i = j
    BY <1>1
  <2>3. \A j \in A \ {1} : \E i \in B : f[i] = j
    <3> SUFFICES ASSUME NEW j \in A \ {1} PROVE \E i \in B : f[i] = j
      OBVIOUS
    <3>1. j - 1 \in 1..Len(Tail(s)) /\ (j - 1) + 1 = j
      BY <1>1
    <3>2. j - 1 \in B
      BY <3>1
    <3> QED
      BY <3>1, <3>2
  <2> QED
    BY <2>1, <2>2, <2>3 DEF Bijection, Injection, Surjection, IsInjective
<1>5. ExistsBijection(B, A \ {1})
  BY <1>4 DEF ExistsBijection
<1>6. Cardinality(A \ {1}) = Cardinality(B)
  BY <1>2, <1>5, FS_Bijection
<1> QED
  BY <1>3, <1>6

\* A search changes one record's tag, or its mark, and nothing else.
Retagged(b, c, k, m) ==
    /\ k \in 1..Len(b) /\ c[k].msg = b[k].msg /\ c[k].mark = b[k].mark /\ c[k].tag = m
    /\ \A i \in 1..Len(b) : i # k => c[i] = b[i]

Remarked(b, c, k, mark) ==
    /\ k \in 1..Len(b) /\ c[k].msg = b[k].msg /\ c[k].tag = b[k].tag /\ c[k].mark = mark
    /\ \A i \in 1..Len(b) : i # k => c[i] = b[i]

LEMMA BubbleFacts ==
    ASSUME NEW b \in Seq(Bubble), NEW i \in 1..Len(b)
    PROVE  b[i] \in Bubble /\ b[i].msg \in Messages /\ b[i].mark \in Marks /\ b[i].tag \in Messages \cup {NoTag}
<1>1. b[i] \in Bubble
  OBVIOUS
<1> QED
  BY <1>1 DEF Bubble

LEMMA RetagFacts ==
    ASSUME NEW b \in Seq(Bubble), NEW k \in 1..Len(b), NEW m \in Messages,
           NEW c, c = [b EXCEPT ![k].tag = m]
    PROVE  c \in Seq(Bubble) /\ Len(c) = Len(b) /\ Retagged(b, c, k, m)
<1> DEFINE x == [b[k] EXCEPT !.tag = m]
<1>1. x \in Bubble /\ x.msg = b[k].msg /\ x.mark = b[k].mark /\ x.tag = m
  BY BubbleFacts DEF Bubble
<1>2. c = [b EXCEPT ![k] = x]
  OBVIOUS
<1> HIDE DEF x
<1>3. c \in Seq(Bubble) /\ Len(c) = Len(b) /\ c[k] = x /\ \A i \in 1..Len(b) : i # k => c[i] = b[i]
  BY <1>1, <1>2
<1> QED
  BY <1>1, <1>3 DEF Retagged

LEMMA RemarkFacts ==
    ASSUME NEW b \in Seq(Bubble), NEW k \in 1..Len(b), NEW mark \in Marks,
           NEW c, c = [b EXCEPT ![k].mark = mark]
    PROVE  c \in Seq(Bubble) /\ Len(c) = Len(b) /\ Remarked(b, c, k, mark)
<1> DEFINE x == [b[k] EXCEPT !.mark = mark]
<1>1. x \in Bubble /\ x.msg = b[k].msg /\ x.tag = b[k].tag /\ x.mark = mark
  BY BubbleFacts DEF Bubble
<1>2. c = [b EXCEPT ![k] = x]
  OBVIOUS
<1> HIDE DEF x
<1>3. c \in Seq(Bubble) /\ Len(c) = Len(b) /\ c[k] = x /\ \A i \in 1..Len(b) : i # k => c[i] = b[i]
  BY <1>1, <1>2
<1> QED
  BY <1>1, <1>3 DEF Remarked

\* What the UI does with DmQueued.
LEMMA TagFacts ==
    ASSUME NEW b \in Seq(Bubble), NEW m \in Messages, NEW c, c = TagOldestUntagged(b, m)
    PROVE  /\ c \in Seq(Bubble) /\ Len(c) = Len(b)
           /\ \/ c = b /\ Pending(b) \cap Tagged(b, NoTag) = {}
              \/ \E k \in Pending(b) \cap Tagged(b, NoTag) :
                    /\ Retagged(b, c, k, m)
                    /\ \A i \in Pending(b) \cap Tagged(b, NoTag) : k <= i
<1> DEFINE U == Pending(b) \cap Tagged(b, NoTag)
           k == Min(U)
<1>1. U \in SUBSET (1..Len(b)) /\ U \in SUBSET Nat
  BY DEF Pending
<1>2. CASE U = {}
  BY <1>2 DEF TagOldestUntagged
<1>3. CASE U # {}
  <2>1. k \in U /\ \A y \in U : k <= y
    BY <1>1, <1>3, LowestOf
  <2>2. c = [b EXCEPT ![k].tag = m]
    BY <1>3 DEF TagOldestUntagged
  <2>3. k \in 1..Len(b)
    BY <1>1, <2>1
  <2> HIDE DEF k, U
  <2>4. c \in Seq(Bubble) /\ Len(c) = Len(b) /\ Retagged(b, c, k, m)
    BY <2>2, <2>3, RetagFacts
  <2> QED
    BY <2>1, <2>4 DEF U
<1> QED
  BY <1>2, <1>3

\* What it does with a verdict.
LEMMA MarkFacts ==
    ASSUME NEW b \in Seq(Bubble), NEW m \in Messages, NEW mark \in Marks, NEW c, c = Mark(b, m, mark)
    PROVE  /\ c \in Seq(Bubble) /\ Len(c) = Len(b)
           /\ \/ c = b /\ Tagged(b, m) = {} /\ Pending(b) = {}
              \/ \E k \in 1..Len(b) : Remarked(b, c, k, mark) /\ (Tagged(b, m) # {} => k \in Tagged(b, m))
                                      /\ (Tagged(b, m) = {} => k \in Pending(b))
<1>1. Tagged(b, m) \in SUBSET (1..Len(b)) /\ Pending(b) \in SUBSET (1..Len(b)) /\ Len(b) \in Nat
  BY DEF Tagged, Pending
<1>2. CASE Tagged(b, m) # {}
  <2> DEFINE k == Min(Tagged(b, m))
  <2>1. k \in Tagged(b, m)
    BY <1>1, <1>2, LowestOf
  <2>2. c = [b EXCEPT ![k].mark = mark]
    BY <1>2 DEF Mark
  <2>3. k \in 1..Len(b)
    BY <1>1, <2>1
  <2> HIDE DEF k
  <2>4. c \in Seq(Bubble) /\ Len(c) = Len(b) /\ Remarked(b, c, k, mark)
    BY <2>2, <2>3, RemarkFacts
  <2> QED
    BY <1>2, <2>1, <2>3, <2>4
<1>3. CASE Tagged(b, m) = {} /\ Pending(b) # {}
  <2> DEFINE k == Max(Pending(b))
  <2>1. k \in Pending(b)
    BY <1>1, <1>3, HighestOf
  <2>2. c = [b EXCEPT ![k].mark = mark]
    BY <1>3 DEF Mark, MarkNewestPending
  <2>3. k \in 1..Len(b)
    BY <1>1, <2>1
  <2> HIDE DEF k
  <2>4. c \in Seq(Bubble) /\ Len(c) = Len(b) /\ Remarked(b, c, k, mark)
    BY <2>2, <2>3, RemarkFacts
  <2> QED
    BY <1>3, <2>1, <2>3, <2>4
<1>4. CASE Tagged(b, m) = {} /\ Pending(b) = {}
  BY <1>4 DEF Mark, MarkNewestPending
<1> QED
  BY <1>2, <1>3, <1>4

-----------------------------------------------------------------------------
(***************************************************************************)
(* Counting checks, events, ack bits and ACKs.                             *)
(***************************************************************************)
LEMMA HandleMarks ==
    ASSUME NEW b \in Seq(Bubble), NEW ev \in Event, NEW c, c = Handle(b, ev)
    PROVE  /\ c \in Seq(Bubble) /\ Len(c) = Len(b)
           /\ \A i \in 1..Len(b) : c[i].msg = b[i].msg
           /\ \/ ev.kind = "DmAcked" /\ Cardinality(Blue(c)) <= Cardinality(Blue(b)) + 1
              \/ ev.kind # "DmAcked" /\ Cardinality(Blue(c)) <= Cardinality(Blue(b))
<1>1. ev.kind \in {"DmQueued", "DmAcked", "DmUndelivered"} /\ ev.msg \in Messages
  BY DEF Event
<1>2. Blue(b) \in SUBSET (1..Len(b)) /\ Len(b) \in Nat
  BY DEF Blue
<1>3. IsFiniteSet(Blue(b)) /\ Cardinality(Blue(b)) \in Nat
  BY <1>2, Positions
<1>4. CASE ev.kind = "DmQueued"
  <2>1. c = TagOldestUntagged(b, ev.msg)
    BY <1>4 DEF Handle
  <2>2. /\ c \in Seq(Bubble) /\ Len(c) = Len(b)
        /\ c = b \/ \E k \in 1..Len(b) : Retagged(b, c, k, ev.msg)
    <3>1. Pending(b) \subseteq 1..Len(b)
      BY DEF Pending
    <3> QED
      BY <1>1, <2>1, <3>1, TagFacts
  <2>3. \A i \in 1..Len(b) : c[i].msg = b[i].msg /\ c[i].mark = b[i].mark
    BY <2>2 DEF Retagged
  <2>4. Blue(c) = Blue(b)
    BY <2>2, <2>3 DEF Blue
  <2> QED
    BY <1>3, <1>4, <2>2, <2>3, <2>4
<1>5. CASE ev.kind = "DmAcked"
  <2>1. c = Mark(b, ev.msg, "Acked") /\ "Acked" \in Marks
    BY <1>5 DEF Handle, Marks
  <2>2. /\ c \in Seq(Bubble) /\ Len(c) = Len(b)
        /\ c = b \/ \E k \in 1..Len(b) : Remarked(b, c, k, "Acked")
    BY <1>1, <2>1, MarkFacts
  <2>3. \A i \in 1..Len(b) : c[i].msg = b[i].msg
    BY <2>2 DEF Remarked
  <2>4. \E k : Blue(c) \subseteq Blue(b) \cup {k}
    BY <2>2 DEF Remarked, Blue
  <2>5. Cardinality(Blue(c)) <= Cardinality(Blue(b)) + 1
    BY <1>3, <2>4, OneMore
  <2> QED
    BY <1>5, <2>2, <2>3, <2>5
<1>6. CASE ev.kind = "DmUndelivered"
  <2>1. c = Mark(b, ev.msg, "Undelivered") /\ "Undelivered" \in Marks
    BY <1>6 DEF Handle, Marks
  <2>2. /\ c \in Seq(Bubble) /\ Len(c) = Len(b)
        /\ c = b \/ \E k \in 1..Len(b) : Remarked(b, c, k, "Undelivered")
    BY <1>1, <2>1, MarkFacts
  <2>3. \A i \in 1..Len(b) : c[i].msg = b[i].msg
    BY <2>2 DEF Remarked
  <2>4. Blue(c) \in SUBSET Blue(b)
    BY <2>2 DEF Remarked, Blue
  <2>5. Cardinality(Blue(c)) <= Cardinality(Blue(b))
    BY <1>3, <2>4, FS_Subset
  <2> QED
    BY <1>6, <2>2, <2>3, <2>5
<1> QED
  BY <1>1, <1>4, <1>5, <1>6

LEMMA BlueAppend ==
    ASSUME NEW b \in Seq(Bubble), NEW x \in Bubble, x.mark # "Acked", NEW c, c = Append(b, x)
    PROVE  Blue(c) = Blue(b)
<1>1. /\ Len(b) \in Nat /\ Len(c) = Len(b) + 1 /\ c[Len(b) + 1] = x
      /\ \A i \in 1..Len(b) : c[i] = b[i]
      /\ \A i \in 1..Len(c) : i \in 1..Len(b) \/ i = Len(b) + 1
  BY Grown
<1>2. \A i \in 1..Len(b) : i \in 1..Len(c)
  BY <1>1
<1> QED
  BY <1>1, <1>2 DEF Blue

LEMMA EventCount ==
    ASSUME NEW q \in Seq(Event)
    PROVE  AckEvents(q) \in SUBSET (1..Len(q)) /\ IsFiniteSet(AckEvents(q))
           /\ Cardinality(AckEvents(q)) \in Nat
<1>1. AckEvents(q) \in SUBSET (1..Len(q))
  BY DEF AckEvents
<1> QED
  BY <1>1, Positions

LEMMA EventAppend ==
    ASSUME NEW q \in Seq(Event), NEW ev \in Event, NEW r, r = Append(q, ev)
    PROVE  Cardinality(AckEvents(r)) =
               IF ev.kind = "DmAcked" THEN Cardinality(AckEvents(q)) + 1 ELSE Cardinality(AckEvents(q))
<1>1. /\ Len(q) \in Nat /\ Len(r) = Len(q) + 1 /\ r[Len(q) + 1] = ev
      /\ \A i \in 1..Len(q) : r[i] = q[i]
      /\ \A i \in 1..Len(r) : i \in 1..Len(q) \/ i = Len(q) + 1
  BY Grown
<1>2. \A i \in 1..Len(q) : i \in 1..Len(r)
  BY <1>1
<1>3. IsFiniteSet(AckEvents(q)) /\ Len(q) + 1 \notin AckEvents(q)
  BY <1>1, EventCount DEF AckEvents
<1>4. CASE ev.kind = "DmAcked"
  <2>1. AckEvents(r) = AckEvents(q) \cup {Len(q) + 1}
    BY <1>1, <1>2, <1>4 DEF AckEvents
  <2> QED
    BY <1>3, <1>4, <2>1, OneMore
<1>5. CASE ev.kind # "DmAcked"
  <2>1. AckEvents(r) = AckEvents(q)
    BY <1>1, <1>2, <1>5 DEF AckEvents
  <2> QED
    BY <1>5, <2>1
<1> QED
  BY <1>4, <1>5

LEMMA EventTail ==
    ASSUME NEW q \in Seq(Event), q # <<>>, NEW r, r = Tail(q)
    PROVE  Cardinality(AckEvents(r)) =
               IF Head(q).kind = "DmAcked" THEN Cardinality(AckEvents(q)) - 1
               ELSE Cardinality(AckEvents(q))
<1>1. /\ r \in Seq(Event) /\ Len(q) \in Nat /\ Len(q) >= 1 /\ Head(q) = q[1]
      /\ \A i \in 1..Len(r) : i + 1 \in 1..Len(q) /\ r[i] = q[i + 1]
  BY Shifted
<1>2. AckEvents(q) \in SUBSET (1..Len(q)) /\ AckEvents(r) \in SUBSET (1..Len(r))
  BY DEF AckEvents
<1>3. \A i \in 1..Len(r) : i \in AckEvents(r) <=> i + 1 \in AckEvents(q)
  BY <1>1 DEF AckEvents
<1>4. 1 \in AckEvents(q) <=> Head(q).kind = "DmAcked"
  BY <1>1 DEF AckEvents
<1> QED
  BY <1>2, <1>3, <1>4, OneLess

LEMMA OfferFacts ==
    ASSUME NEW S, NEW q \in Seq(S), NEW x \in S, NEW cap \in Nat, Len(q) <= cap,
           NEW r, r = Offer(q, cap, x)
    PROVE  /\ r \in Seq(S) /\ Len(r) <= cap
           /\ Len(q) < cap => r = Append(q, x)
           /\ r = q \/ r = Append(q, x)
<1>1. CASE Len(q) < cap
  BY <1>1 DEF Offer
<1>2. CASE ~(Len(q) < cap)
  BY <1>2 DEF Offer
<1> QED
  BY <1>1, <1>2

\* The ack bits.
LEMMA EntryFacts ==
    ASSUME NEW f \in Seq(Entry), NEW i \in 1..Len(f)
    PROVE  f[i] \in Entry /\ f[i].msg \in Messages
<1>1. f[i] \in Entry
  OBVIOUS
<1> QED
  BY <1>1, Zenon DEF Entry

LEMMA BitsFacts ==
    ASSUME NEW f \in Seq(Entry)
    PROVE  /\ AckedBits(f) \in SUBSET (1..Len(f)) /\ IsFiniteSet(AckedBits(f))
           /\ Cardinality(AckedBits(f)) \in Nat
           /\ \A i \in 1..Len(f) : i \in AckedBits(f) <=> f[i].acked
           /\ Unacked(f) = {} => Cardinality(AckedBits(f)) = Len(f)
<1>1. AckedBits(f) \in SUBSET (1..Len(f)) /\ Len(f) \in Nat
  BY DEF AckedBits
<1>2. \A i \in 1..Len(f) : i \in AckedBits(f) <=> f[i].acked
  BY Zenon DEF AckedBits, Unacked
<1>3. ASSUME Unacked(f) = {} PROVE Cardinality(AckedBits(f)) = Len(f)
  <2>1. AckedBits(f) = 1..Len(f)
    BY <1>3 DEF AckedBits
  <2> QED
    BY <1>1, <2>1, FS_Interval
<1> QED
  BY <1>1, <1>2, <1>3, Positions

LEMMA BitsAppend ==
    ASSUME NEW f \in Seq(Entry), NEW e \in Entry, ~e.acked, NEW g, g = Append(f, e)
    PROVE  g \in Seq(Entry) /\ AckedBits(g) = AckedBits(f)
<1>1. ~e.acked
  OBVIOUS
<1>2. /\ g \in Seq(Entry) /\ Len(f) \in Nat /\ Len(g) = Len(f) + 1 /\ g[Len(f) + 1] = e
      /\ \A i \in 1..Len(f) : g[i] = f[i]
      /\ \A i \in 1..Len(g) : i \in 1..Len(f) \/ i = Len(f) + 1
  BY Grown
<1>3. \A i \in 1..Len(f) : i \in 1..Len(g)
  BY <1>2
<1>4. \A i : i \in AckedBits(g) <=> i \in AckedBits(f)
  BY <1>1, <1>2, <1>3, Zenon DEF AckedBits, Unacked
<1> QED
  BY <1>2, <1>4

LEMMA FlashMarkFacts ==
    ASSUME NEW f \in Seq(Entry), Unacked(f) # {}, NEW g, g = FlashMark(f)
    PROVE  /\ g \in Seq(Entry) /\ Len(g) = Len(f) /\ \A i \in 1..Len(f) : g[i].msg = f[i].msg
           /\ \E k : AckedBits(g) = AckedBits(f) \cup {k} /\ k \notin AckedBits(f)
<1> DEFINE k == Max(Unacked(f))
           x == [f[k] EXCEPT !.acked = TRUE]
<1>1. Unacked(f) \in SUBSET (1..Len(f)) /\ Len(f) \in Nat
  BY DEF Unacked
<1>2. k \in Unacked(f)
  BY <1>1, HighestOf
<1>3. g = [f EXCEPT ![k] = x]
  BY Zenon DEF FlashMark
<1>4. k \in 1..Len(f)
  BY <1>1, <1>2
<1> HIDE DEF k
<1>5. f[k] \in Entry
  BY <1>4
<1>6. x \in Entry /\ x.msg = f[k].msg /\ x.acked
  BY <1>5, Zenon DEF Entry
<1> HIDE DEF x
<1>7. g \in Seq(Entry) /\ Len(g) = Len(f) /\ g[k] = x /\ \A i \in 1..Len(f) : i # k => g[i] = f[i]
  BY <1>3, <1>4, <1>6
<1>8. \A i \in 1..Len(f) : g[i].msg = f[i].msg
  BY <1>6, <1>7
<1>9. AckedBits(g) = AckedBits(f) \cup {k} /\ k \notin AckedBits(f)
  <2>1. \A i \in 1..Len(f) : i \in AckedBits(g) <=> i \in AckedBits(f) \/ i = k
    BY <1>2, <1>4, <1>6, <1>7, Zenon DEF AckedBits, Unacked
  <2>2. \A i : i \in AckedBits(g) => i \in 1..Len(f)
    BY <1>7 DEF AckedBits
  <2>3. \A i : i \in AckedBits(f) => i \in 1..Len(f)
    BY DEF AckedBits
  <2>4. k \notin AckedBits(f)
    BY <1>2, Zenon DEF AckedBits
  <2> QED
    BY <1>4, <2>1, <2>2, <2>3, <2>4
<1> QED
  BY <1>7, <1>8, <1>9

\* The messages with an ACK are among those kept.
LEMMA AckedFinite ==
    ASSUME region \in Seq(Entry), \A m \in Messages : fate[m] = "Acked" => KeptIn(region, m)
    PROVE  /\ IsFiniteSet(AckedMessages) /\ Cardinality(AckedMessages) \in Nat
           /\ \A m \in Messages : fate[m] # "Acked" /\ KeptIn(region, m)
                => Cardinality(AckedMessages) < Len(region)
<1> DEFINE f == [i \in 1..Len(region) |-> region[i].msg]
           K == {m \in Messages : KeptIn(region, m)}
<1>1. Len(region) \in Nat /\ IsFiniteSet(1..Len(region)) /\ Cardinality(1..Len(region)) = Len(region)
  <2>1. Len(region) \in Nat
    OBVIOUS
  <2> QED
    BY <2>1, FS_Interval
<1>2. f \in Surjection(1..Len(region), K)
  <2>1. \A i \in 1..Len(region) : region[i].msg \in K
    BY EntryFacts DEF KeptIn
  <2>2. \A m \in K : \E i \in 1..Len(region) : region[i].msg = m
    BY DEF KeptIn
  <2> QED
    BY <2>1, <2>2 DEF Surjection
<1>3. IsFiniteSet(K) /\ Cardinality(K) <= Len(region) /\ Cardinality(K) \in Nat
  BY <1>1, <1>2, FS_Surjection, FS_CardinalityType
<1>4. AckedMessages \in SUBSET K
  BY DEF AckedMessages
<1>5. IsFiniteSet(AckedMessages) /\ Cardinality(AckedMessages) \in Nat
  BY <1>3, <1>4, FS_Subset, FS_CardinalityType
<1>6. ASSUME NEW m \in Messages, fate[m] # "Acked", KeptIn(region, m)
      PROVE  Cardinality(AckedMessages) < Len(region)
  <2>1. m \in K /\ m \notin AckedMessages
    BY <1>6 DEF AckedMessages
  <2>2. Cardinality(AckedMessages) <= Cardinality(K) /\ Cardinality(AckedMessages) # Cardinality(K)
    BY <1>3, <1>4, <2>1, FS_Subset
  <2> QED
    BY <1>1, <1>3, <1>5, <2>2
<1> QED
  BY <1>5, <1>6

\* A fresh UI shows the ack bits.
LEMMA RestoreFacts ==
    ASSUME NEW f \in Seq(Entry), NEW b, b = Restore(f)
    PROVE  b \in Seq(Bubble) /\ Blue(b) = AckedBits(f)
<1> DEFINE x(i) == [msg |-> f[i].msg, mark |-> IF f[i].acked THEN "Acked" ELSE "Pending", tag |-> NoTag]
<1>1. b = [i \in 1..Len(f) |-> x(i)]
  BY DEF Restore
<1>2. ASSUME NEW i \in 1..Len(f)
      PROVE  x(i) \in Bubble /\ (x(i).mark = "Acked" <=> f[i].acked)
  <2>1. f[i].msg \in Messages
    BY EntryFacts
  <2>2. CASE f[i].acked
    BY <2>1, <2>2 DEF Bubble, Marks
  <2>3. CASE ~f[i].acked
    BY <2>1, <2>3 DEF Bubble, Marks
  <2> QED
    BY <2>2, <2>3
<1> HIDE DEF x
<1>3. b \in Seq(Bubble) /\ Len(b) = Len(f) /\ \A i \in 1..Len(f) : b[i] = x(i)
  BY <1>1, <1>2
<1>4. \A i : i \in Blue(b) <=> i \in AckedBits(f)
  BY <1>2, <1>3, Zenon DEF Blue, AckedBits, Unacked
<1> QED
  BY <1>3, <1>4

-----------------------------------------------------------------------------
(***************************************************************************)
(* Types, and the way of a message.                                        *)
(***************************************************************************)
LEMMA MarksTypes ==
    ASSUME MarksTypeOK
    PROVE  /\ bubbles \in Seq(Bubble) /\ commands \in Seq(Messages) /\ events \in Seq(Event)
           /\ region \in Seq(Entry) /\ composed \subseteq Messages /\ outstanding \subseteq composed
           /\ Len(commands) <= CommandQueueCap /\ Len(events) <= EventQueueCap
           /\ fate \in [Messages -> Marks] /\ reboots \in 0..MaxReboots
           /\ CommandQueueCap \in Nat /\ EventQueueCap \in Nat
<1>1. /\ bubbles \in Seq(Bubble) /\ commands \in Seq(Messages) /\ events \in Seq(Event)
      /\ composed \subseteq Messages /\ outstanding \subseteq composed
      /\ Len(commands) <= CommandQueueCap /\ Len(events) <= EventQueueCap
      /\ fate \in [Messages -> Marks] /\ reboots \in 0..MaxReboots
  BY Zenon DEF MarksTypeOK
<1>2. region \in Seq(Entry)
  BY Zenon DEF MarksTypeOK, Entry
<1> QED
  BY <1>1, <1>2, DeliveryMarksAssumption

LEMMA MarksTypesNext ==
    ASSUME MarksTypeOK,
           bubbles' \in Seq(Bubble), commands' \in Seq(Messages), events' \in Seq(Event),
           region' \in Seq(Entry), composed' \subseteq Messages, outstanding' \subseteq composed',
           Len(commands') <= CommandQueueCap, Len(events') <= EventQueueCap,
           fate' \in [Messages -> Marks], reboots' \in 0..MaxReboots,
           regionOk' = regionOk, smooth' \in BOOLEAN
    PROVE  MarksTypeOK'
<1>1. regionOk' \in BOOLEAN
  BY Zenon DEF MarksTypeOK
<1>2. region' \in Seq([msg : Messages, acked : BOOLEAN])
  BY Zenon DEF Entry
<1> QED
  BY <1>1, <1>2, Zenon DEF MarksTypeOK

\* What raising an event does to the event queue.
LEMMA RaiseFacts ==
    ASSUME MarksTypeOK, NEW kind \in Kinds, NEW m \in Messages, Raise(kind, m),
           NEW ev, ev = [kind |-> kind, msg |-> m]
    PROVE  /\ ev \in Event /\ ev.kind = kind /\ ev.msg = m
           /\ events' \in Seq(Event) /\ Len(events') <= EventQueueCap
           /\ events' = events \/ events' = Append(events, ev)
           /\ smooth' \in BOOLEAN
           /\ smooth' => smooth /\ events' = Append(events, ev)
<1>1. ev \in Event /\ ev.kind = kind /\ ev.msg = m
  BY DEF Event, Kinds
<1>2. /\ events \in Seq(Event) /\ Len(events) <= EventQueueCap /\ EventQueueCap \in Nat
  BY MarksTypes
<1>3. events' = Offer(events, EventQueueCap, ev)
  BY DEF Raise
<1>4. smooth' = (smooth /\ Len(events) < EventQueueCap)
  BY DEF Raise
<1>5. smooth' \in BOOLEAN
  BY <1>4, Zenon
<1>6. /\ events' \in Seq(Event) /\ Len(events') <= EventQueueCap
      /\ Len(events) < EventQueueCap => events' = Append(events, ev)
      /\ events' = events \/ events' = Append(events, ev)
  BY <1>1, <1>2, <1>3, OfferFacts
<1>7. smooth' => smooth /\ Len(events) < EventQueueCap
  BY <1>4, Zenon
<1> QED
  BY <1>1, <1>5, <1>6, <1>7, Zenon

LEMMA RaiseCount ==
    ASSUME MarksTypeOK, NEW ev \in Event, events' = events \/ events' = Append(events, ev)
    PROVE  /\ Cardinality(AckEvents(events)) \in Nat /\ Cardinality(AckEvents(events')) \in Nat
           /\ Cardinality(AckEvents(events')) <= Cardinality(AckEvents(events)) + 1
           /\ ev.kind # "DmAcked" => Cardinality(AckEvents(events')) = Cardinality(AckEvents(events))
<1>1. events \in Seq(Event)
  BY MarksTypes
<1>2. Cardinality(AckEvents(events)) \in Nat
  BY <1>1, EventCount
<1>3. CASE events' = events
  BY <1>2, <1>3
<1>4. CASE events' = Append(events, ev)
  <2>1. Cardinality(AckEvents(events')) =
            IF ev.kind = "DmAcked" THEN Cardinality(AckEvents(events)) + 1
            ELSE Cardinality(AckEvents(events))
    BY <1>1, <1>4, EventAppend
  <2> QED
    BY <1>2, <2>1
<1> QED
  BY <1>3, <1>4

\* The counts, as long as no ACK comes in.
LEMMA CountKeeps ==
    ASSUME MarksIInv, region' \in Seq(Entry), AckedBits(region') = AckedBits(region),
           AckedMessages' = AckedMessages,
           Cardinality(Blue(bubbles')) + Cardinality(AckEvents(events'))
               <= Cardinality(Blue(bubbles)) + Cardinality(AckEvents(events)),
           Cardinality(Blue(bubbles')) \in Nat, Cardinality(AckEvents(events')) \in Nat
    PROVE  CountInv'
<1>1. CountInv /\ MarksTypeOK /\ SendInv
  BY DEF MarksIInv
<1>2. /\ bubbles \in Seq(Bubble) /\ events \in Seq(Event) /\ region \in Seq(Entry)
  BY <1>1, MarksTypes
<1>3. Cardinality(Blue(bubbles)) \in Nat /\ Cardinality(AckEvents(events)) \in Nat
  <2>1. Blue(bubbles) \in SUBSET (1..Len(bubbles))
    BY DEF Blue
  <2> QED
    BY <1>2, <2>1, Positions, EventCount
<1>4. Cardinality(AckedMessages) \in Nat
  BY <1>1, <1>2, AckedFinite DEF SendInv
<1>5. Cardinality(Blue(bubbles)) + Cardinality(AckEvents(events)) <= Cardinality(AckedMessages)
  BY <1>1 DEF CountInv
<1>6. Cardinality(Blue(bubbles')) + Cardinality(AckEvents(events')) <= Cardinality(AckedMessages)
  BY <1>3, <1>4, <1>5
<1>7. FlashCountsAcks'
  <2>1. Cardinality(AckedBits(region)) = Cardinality(AckedMessages)
    BY <1>1 DEF CountInv, FlashCountsAcks, AckedBits
  <2>2. Cardinality(AckedBits(region')) = Cardinality(AckedMessages')
    BY <2>1
  <2> QED
    BY <2>2 DEF FlashCountsAcks, AckedBits
<1> QED
  BY <1>6, <1>7 DEF CountInv

LEMMA BlueNat ==
    ASSUME NEW b \in Seq(Bubble)
    PROVE  Cardinality(Blue(b)) \in Nat
<1>1. Blue(b) \in SUBSET (1..Len(b))
  BY DEF Blue
<1> QED
  BY <1>1, Positions

\* A verdict other than an ACK.
LEMMA FateFacts ==
    ASSUME MarksIInv, NEW m \in Messages, fate[m] = "Pending", NEW v \in Marks,
           fate' = [fate EXCEPT ![m] = v]
    PROVE  /\ fate' \in [Messages -> Marks] /\ fate'[m] = v
           /\ \A x \in Messages : x # m => fate'[x] = fate[x]
           /\ v # "Acked" => AckedMessages' = AckedMessages
           /\ v = "Acked" => AckedMessages' = AckedMessages \cup {m} /\ m \notin AckedMessages
<1>1. fate \in [Messages -> Marks]
  BY MarksTypes DEF MarksIInv
<1>2. /\ fate' \in [Messages -> Marks] /\ fate'[m] = v
      /\ \A x \in Messages : x # m => fate'[x] = fate[x]
  BY <1>1
<1>3. AckedMessages' = {x \in Messages : fate'[x] = "Acked"}
  BY DEF AckedMessages
<1> QED
  BY <1>2, <1>3 DEF AckedMessages

-----------------------------------------------------------------------------
(***************************************************************************)
(* The steps, but for what holds while nothing was dropped.                *)
(***************************************************************************)
Counted == MarksTypeOK /\ SendInv /\ CountInv

LEMMA ComposeCounted ==
    ASSUME MarksIInv, NEW m \in Messages, Compose(m)
    PROVE  Counted'
<1> DEFINE x == [msg |-> m, mark |-> "Pending", tag |-> NoTag]
<1>1. MarksTypeOK /\ SendInv
  BY DEF MarksIInv
<1>2. /\ m \notin composed /\ composed' = composed \cup {m} /\ bubbles' = Append(bubbles, x)
      /\ commands' = Offer(commands, CommandQueueCap, m)
      /\ events' = events /\ outstanding' = outstanding /\ fate' = fate /\ region' = region
      /\ reboots' = reboots
  BY DEF Compose
<1>3. regionOk' = regionOk /\ smooth' \in BOOLEAN
  BY Zenon DEF Compose
<1>4. /\ bubbles \in Seq(Bubble) /\ commands \in Seq(Messages) /\ events \in Seq(Event)
      /\ region \in Seq(Entry) /\ composed \subseteq Messages /\ outstanding \subseteq composed
      /\ Len(commands) <= CommandQueueCap /\ Len(events) <= EventQueueCap
      /\ fate \in [Messages -> Marks] /\ reboots \in 0..MaxReboots
      /\ CommandQueueCap \in Nat
  BY <1>1, MarksTypes
<1>5. x \in Bubble /\ x.mark # "Acked"
  BY DEF Bubble, Marks
<1> HIDE DEF x
<1>6. bubbles' \in Seq(Bubble)
  BY <1>2, <1>4, <1>5
<1>7. /\ commands' \in Seq(Messages) /\ Len(commands') <= CommandQueueCap
      /\ commands' = commands \/ commands' = Append(commands, m)
  BY <1>2, <1>4, OfferFacts
<1>8. MarksTypeOK'
  BY <1>1, <1>2, <1>3, <1>4, <1>6, <1>7, MarksTypesNext
<1>9. \A y : KeptIn(region', y) <=> KeptIn(region, y)
  BY <1>2 DEF KeptIn
<1>10. ~KeptIn(region, m) /\ fate[m] = "Pending" /\ \A i \in 1..Len(commands) : commands[i] # m
  BY <1>1, <1>2 DEF SendInv, KeptIn
<1>11. SendInv'
  <2>1. CASE commands' = commands
    BY <1>1, <1>2, <1>9, <2>1 DEF SendInv
  <2>2. CASE commands' = Append(commands, m)
    <3>1. /\ commands'[Len(commands) + 1] = m
          /\ \A i \in 1..Len(commands) : commands'[i] = commands[i]
          /\ \A i \in 1..Len(commands') : i \in 1..Len(commands) \/ i = Len(commands) + 1
      BY <1>4, <2>2, Grown
    <3>2. \A i \in 1..Len(commands') :
             commands'[i] \in composed' /\ fate'[commands'[i]] = "Pending" /\ ~KeptIn(region', commands'[i])
      BY <1>1, <1>2, <1>9, <1>10, <3>1 DEF SendInv
    <3>3. \A i, j \in 1..Len(commands') : commands'[i] = commands'[j] => i = j
      BY <1>1, <1>10, <3>1 DEF SendInv
    <3>4. /\ \A i \in 1..Len(region') : region'[i].msg \in composed'
          /\ \A i, j \in 1..Len(region') : region'[i].msg = region'[j].msg => i = j
          /\ \A y \in outstanding' : KeptIn(region', y) /\ fate'[y] = "Pending"
          /\ \A y \in Messages : fate'[y] = "Acked" => KeptIn(region', y)
          /\ \A y \in Messages \ composed' : fate'[y] = "Pending"
      BY <1>1, <1>2, <1>9 DEF SendInv
    <3> QED
      BY <3>2, <3>3, <3>4 DEF SendInv
  <2> QED
    BY <1>7, <2>1, <2>2
<1>12. CountInv'
  <2>1. Blue(bubbles') = Blue(bubbles) /\ AckedMessages' = AckedMessages
    BY <1>2, <1>4, <1>5, BlueAppend DEF AckedMessages
  <2>2. Cardinality(Blue(bubbles)) \in Nat /\ Cardinality(AckEvents(events)) \in Nat
    BY <1>4, BlueNat, EventCount
  <2> QED
    BY <1>2, <1>4, <2>1, <2>2, CountKeeps
<1> QED
  BY <1>8, <1>11, <1>12 DEF Counted

\* The next command of the queue.
LEMMA CommandTaken ==
    ASSUME MarksIInv, commands # <<>>, commands' = Tail(commands), NEW m, m = Head(commands)
    PROVE  /\ m \in Messages /\ m \in composed /\ fate[m] = "Pending" /\ ~KeptIn(region, m)
           /\ m \notin outstanding
           /\ commands' \in Seq(Messages) /\ Len(commands') <= CommandQueueCap
           /\ Len(commands') = Len(commands) - 1 /\ Len(commands) \in Nat /\ Len(commands) >= 1
           /\ commands[1] = m
           /\ \A i \in 1..Len(commands') : i + 1 \in 1..Len(commands) /\ commands'[i] = commands[i + 1]
           /\ \A i \in 1..Len(commands') : /\ commands'[i] # m /\ commands'[i] \in composed
                                           /\ fate[commands'[i]] = "Pending" /\ ~KeptIn(region, commands'[i])
           /\ \A i, j \in 1..Len(commands') : commands'[i] = commands'[j] => i = j
<1>1. /\ commands \in Seq(Messages) /\ Len(commands) <= CommandQueueCap /\ CommandQueueCap \in Nat
      /\ SendInv
  BY MarksTypes DEF MarksIInv
<1>2. /\ commands' \in Seq(Messages) /\ Len(commands) \in Nat /\ Len(commands) >= 1
      /\ Len(commands') = Len(commands) - 1
      /\ m = commands[1] /\ m \in Messages
      /\ \A i \in 1..Len(commands') : i + 1 \in 1..Len(commands) /\ commands'[i] = commands[i + 1]
  BY <1>1, Shifted
<1>3. 1 \in 1..Len(commands) /\ \A i \in 1..Len(commands') : i + 1 # 1
  BY <1>2
<1>4. m \in composed /\ fate[m] = "Pending" /\ ~KeptIn(region, m) /\ m \notin outstanding
  BY <1>1, <1>2, <1>3 DEF SendInv
<1>5. ASSUME NEW i \in 1..Len(commands')
      PROVE  /\ commands'[i] # m /\ commands'[i] \in composed
             /\ fate[commands'[i]] = "Pending" /\ ~KeptIn(region, commands'[i])
  BY <1>1, <1>2, <1>3 DEF SendInv
<1>6. ASSUME NEW i \in 1..Len(commands'), NEW j \in 1..Len(commands'), commands'[i] = commands'[j]
      PROVE  i = j
  <2>1. commands[i + 1] = commands[j + 1] /\ i + 1 \in 1..Len(commands) /\ j + 1 \in 1..Len(commands)
    BY <1>2, <1>6
  <2>2. i + 1 = j + 1
    BY <1>1, <2>1 DEF SendInv
  <2> QED
    BY <2>2
<1>7. Len(commands') <= CommandQueueCap
  BY <1>1, <1>2
<1> QED
  BY <1>2, <1>4, <1>5, <1>6, <1>7

LEMMA SendDmCounted ==
    ASSUME MarksIInv, SendDm
    PROVE  Counted'
<1> DEFINE m == Head(commands)
           e == [msg |-> m, acked |-> FALSE]
           ev == [kind |-> "DmQueued", msg |-> m]
<1>1. MarksTypeOK /\ SendInv
  BY DEF MarksIInv
<1>2. /\ commands # <<>> /\ commands' = Tail(commands) /\ outstanding' = outstanding \cup {m}
      /\ Raise("DmQueued", m) /\ region' = Append(region, e)
      /\ bubbles' = bubbles /\ composed' = composed /\ fate' = fate /\ reboots' = reboots
  BY DEF SendDm
<1>3. regionOk' = regionOk
  BY Zenon DEF SendDm
<1>4. /\ bubbles \in Seq(Bubble) /\ region \in Seq(Entry) /\ composed \subseteq Messages
      /\ outstanding \subseteq composed /\ fate \in [Messages -> Marks] /\ reboots \in 0..MaxReboots
  BY <1>1, MarksTypes
<1>5. /\ m \in Messages /\ m \in composed /\ fate[m] = "Pending" /\ ~KeptIn(region, m)
      /\ commands' \in Seq(Messages) /\ Len(commands') <= CommandQueueCap
      /\ \A i \in 1..Len(commands') : /\ commands'[i] # m /\ commands'[i] \in composed
                                      /\ fate[commands'[i]] = "Pending" /\ ~KeptIn(region, commands'[i])
      /\ \A i, j \in 1..Len(commands') : commands'[i] = commands'[j] => i = j
  BY <1>2, CommandTaken
<1>6. e.msg = m /\ e \in Entry /\ ~e.acked
  BY <1>5, Zenon DEF Entry
<1> HIDE DEF e, m
<1>7. region' \in Seq(Entry) /\ AckedBits(region') = AckedBits(region)
  BY <1>2, <1>4, <1>6, BitsAppend
<1>8. /\ Len(region) \in Nat /\ Len(region') = Len(region) + 1 /\ region'[Len(region) + 1] = e
      /\ \A i \in 1..Len(region) : region'[i] = region[i]
      /\ \A i \in 1..Len(region') : i \in 1..Len(region) \/ i = Len(region) + 1
  BY <1>2, <1>4, <1>6, Grown
<1>9. /\ ev \in Event /\ ev.kind = "DmQueued"
      /\ events' \in Seq(Event) /\ Len(events') <= EventQueueCap /\ smooth' \in BOOLEAN
      /\ events' = events \/ events' = Append(events, ev)
  <2>1. "DmQueued" \in Kinds
    BY DEF Kinds
  <2> QED
    BY <1>1, <1>2, <1>5, <2>1, RaiseFacts
<1>10. MarksTypeOK'
  BY <1>1, <1>2, <1>3, <1>4, <1>5, <1>7, <1>9, MarksTypesNext
<1>11. \A y : KeptIn(region', y) <=> KeptIn(region, y) \/ y = m
  <2>1. \A i \in 1..Len(region) : i \in 1..Len(region')
    BY <1>8
  <2>2. Len(region) + 1 \in 1..Len(region')
    BY <1>8
  <2> QED
    BY <1>6, <1>8, <2>1, <2>2 DEF KeptIn
<1>12. SendInv'
  <2>1. \A i \in 1..Len(commands') :
           commands'[i] \in composed' /\ fate'[commands'[i]] = "Pending" /\ ~KeptIn(region', commands'[i])
    BY <1>2, <1>5, <1>11
  <2>2. \A i \in 1..Len(region') : region'[i].msg \in composed'
    BY <1>1, <1>2, <1>5, <1>6, <1>8 DEF SendInv
  <2>3. \A i, j \in 1..Len(region') : region'[i].msg = region'[j].msg => i = j
    BY <1>1, <1>5, <1>6, <1>8 DEF SendInv, KeptIn
  <2>4. \A y \in outstanding' : KeptIn(region', y) /\ fate'[y] = "Pending"
    BY <1>1, <1>2, <1>5, <1>11 DEF SendInv
  <2>5. /\ \A y \in Messages : fate'[y] = "Acked" => KeptIn(region', y)
        /\ \A y \in Messages \ composed' : fate'[y] = "Pending"
    BY <1>1, <1>2, <1>11 DEF SendInv
  <2> QED
    BY <1>5, <2>1, <2>2, <2>3, <2>4, <2>5 DEF SendInv
<1>13. CountInv'
  <2>1. AckedMessages' = AckedMessages
    BY <1>2 DEF AckedMessages
  <2>2. /\ Cardinality(AckEvents(events)) \in Nat
        /\ Cardinality(AckEvents(events')) = Cardinality(AckEvents(events))
    BY <1>1, <1>9, RaiseCount
  <2>3. Cardinality(Blue(bubbles)) \in Nat
    BY <1>4, BlueNat
  <2> QED
    BY <1>2, <1>7, <2>1, <2>2, <2>3, CountKeeps
<1> QED
  BY <1>10, <1>12, <1>13 DEF Counted

LEMMA RefusedCounted ==
    ASSUME MarksIInv, SendDmRefused
    PROVE  Counted'
<1> DEFINE m == Head(commands)
           ev == [kind |-> "DmUndelivered", msg |-> m]
<1>1. MarksTypeOK /\ SendInv
  BY DEF MarksIInv
<1>2. /\ commands # <<>> /\ commands' = Tail(commands) /\ outstanding' = outstanding
      /\ Raise("DmUndelivered", m) /\ region' = region
      /\ fate' = [fate EXCEPT ![m] = "Undelivered"]
      /\ bubbles' = bubbles /\ composed' = composed /\ reboots' = reboots
  BY DEF SendDmRefused
<1>3. regionOk' = regionOk
  BY Zenon DEF SendDmRefused
<1>4. /\ bubbles \in Seq(Bubble) /\ region \in Seq(Entry) /\ composed \subseteq Messages
      /\ outstanding \subseteq composed /\ reboots \in 0..MaxReboots
  BY <1>1, MarksTypes
<1>5. /\ m \in Messages /\ m \in composed /\ fate[m] = "Pending" /\ ~KeptIn(region, m)
      /\ commands' \in Seq(Messages) /\ Len(commands') <= CommandQueueCap
      /\ \A i \in 1..Len(commands') : /\ commands'[i] # m /\ commands'[i] \in composed
                                      /\ fate[commands'[i]] = "Pending" /\ ~KeptIn(region, commands'[i])
      /\ \A i, j \in 1..Len(commands') : commands'[i] = commands'[j] => i = j
  BY <1>2, CommandTaken
<1> HIDE DEF m
<1>6. /\ ev \in Event /\ ev.kind = "DmUndelivered"
      /\ events' \in Seq(Event) /\ Len(events') <= EventQueueCap /\ smooth' \in BOOLEAN
      /\ events' = events \/ events' = Append(events, ev)
  <2>1. "DmUndelivered" \in Kinds
    BY DEF Kinds
  <2> QED
    BY <1>1, <1>2, <1>5, <2>1, RaiseFacts
<1>7. /\ fate' \in [Messages -> Marks] /\ fate'[m] = "Undelivered"
      /\ \A x \in Messages : x # m => fate'[x] = fate[x]
      /\ AckedMessages' = AckedMessages
  <2>1. "Undelivered" \in Marks
    BY DEF Marks
  <2> QED
    BY <1>2, <1>5, <2>1, FateFacts
<1>8. MarksTypeOK'
  BY <1>1, <1>2, <1>3, <1>4, <1>5, <1>6, <1>7, MarksTypesNext
<1>9. \A y : KeptIn(region', y) <=> KeptIn(region, y)
  BY <1>2 DEF KeptIn
<1>10. SendInv'
  <2>1. \A i \in 1..Len(commands') :
           commands'[i] \in composed' /\ fate'[commands'[i]] = "Pending" /\ ~KeptIn(region', commands'[i])
    BY <1>2, <1>4, <1>5, <1>7, <1>9
  <2>2. \A y \in outstanding' : KeptIn(region', y) /\ fate'[y] = "Pending"
    BY <1>1, <1>2, <1>4, <1>5, <1>7, <1>9 DEF SendInv
  <2>3. /\ \A y \in Messages : fate'[y] = "Acked" => KeptIn(region', y)
        /\ \A y \in Messages \ composed' : fate'[y] = "Pending"
    BY <1>1, <1>2, <1>5, <1>7, <1>9 DEF SendInv
  <2>4. /\ \A i \in 1..Len(region') : region'[i].msg \in composed'
        /\ \A i, j \in 1..Len(region') : region'[i].msg = region'[j].msg => i = j
    BY <1>1, <1>2 DEF SendInv
  <2> QED
    BY <1>5, <2>1, <2>2, <2>3, <2>4 DEF SendInv
<1>11. CountInv'
  <2>1. /\ Cardinality(AckEvents(events)) \in Nat
        /\ Cardinality(AckEvents(events')) = Cardinality(AckEvents(events))
    BY <1>1, <1>6, RaiseCount
  <2>2. Cardinality(Blue(bubbles)) \in Nat
    BY <1>4, BlueNat
  <2> QED
    BY <1>2, <1>4, <1>7, <2>1, <2>2, CountKeeps
<1> QED
  BY <1>8, <1>10, <1>11 DEF Counted

\* A verdict on an outstanding send.
LEMMA VerdictTypes ==
    ASSUME MarksIInv, NEW m \in outstanding, outstanding' = outstanding \ {m},
           NEW v \in Marks, fate' = [fate EXCEPT ![m] = v],
           NEW kind \in Kinds, Raise(kind, m),
           bubbles' = bubbles, commands' = commands, composed' = composed, reboots' = reboots,
           regionOk' = regionOk, region' \in Seq(Entry), Len(region') = Len(region),
           \A i \in 1..Len(region) : region'[i].msg = region[i].msg
    PROVE  MarksTypeOK' /\ SendInv'
<1>1. MarksTypeOK /\ SendInv
  BY DEF MarksIInv
<1>2. /\ bubbles \in Seq(Bubble) /\ commands \in Seq(Messages) /\ region \in Seq(Entry)
      /\ composed \subseteq Messages /\ Len(commands) <= CommandQueueCap
      /\ outstanding \subseteq composed /\ reboots \in 0..MaxReboots
  BY <1>1, MarksTypes
<1>3. m \in Messages /\ m \in composed /\ fate[m] = "Pending" /\ KeptIn(region, m)
  BY <1>1, <1>2 DEF SendInv
<1>4. /\ fate' \in [Messages -> Marks] /\ fate'[m] = v
      /\ \A x \in Messages : x # m => fate'[x] = fate[x]
  BY <1>3, FateFacts
<1>5. events' \in Seq(Event) /\ Len(events') <= EventQueueCap /\ smooth' \in BOOLEAN
  BY <1>1, <1>3, RaiseFacts
<1>6. MarksTypeOK'
  BY <1>1, <1>2, <1>3, <1>4, <1>5, MarksTypesNext
<1>7. \A y : KeptIn(region', y) <=> KeptIn(region, y)
  BY DEF KeptIn
<1>8. \A i \in 1..Len(commands) : commands[i] # m /\ commands[i] \in Messages
  BY <1>1, <1>2, <1>3 DEF SendInv
<1>9. /\ \A i \in 1..Len(commands') : commands'[i] \in composed'
                                     /\ fate'[commands'[i]] = "Pending" /\ ~KeptIn(region', commands'[i])
      /\ \A i, j \in 1..Len(commands') : commands'[i] = commands'[j] => i = j
  BY <1>1, <1>4, <1>7, <1>8 DEF SendInv
<1>10. /\ \A i \in 1..Len(region') : region'[i].msg \in composed'
       /\ \A i, j \in 1..Len(region') : region'[i].msg = region'[j].msg => i = j
  BY <1>1 DEF SendInv
<1>11. \A y \in outstanding' : KeptIn(region', y) /\ fate'[y] = "Pending"
  BY <1>1, <1>2, <1>4, <1>7 DEF SendInv
<1>12. /\ \A y \in Messages : fate'[y] = "Acked" => KeptIn(region', y)
       /\ \A y \in Messages \ composed' : fate'[y] = "Pending"
  BY <1>1, <1>3, <1>4, <1>7 DEF SendInv
<1> QED
  BY <1>6, <1>9, <1>10, <1>11, <1>12 DEF SendInv

LEMMA GiveUpCounted ==
    ASSUME MarksIInv, NEW m \in Messages, GiveUp(m)
    PROVE  Counted'
<1> DEFINE ev == [kind |-> "DmUndelivered", msg |-> m]
<1>1. MarksTypeOK /\ SendInv
  BY DEF MarksIInv
<1>2. /\ m \in outstanding /\ outstanding' = outstanding \ {m}
      /\ fate' = [fate EXCEPT ![m] = "Undelivered"] /\ Raise("DmUndelivered", m)
      /\ bubbles' = bubbles /\ commands' = commands /\ composed' = composed
      /\ region' = region /\ reboots' = reboots
  BY DEF GiveUp
<1>3. regionOk' = regionOk
  BY Zenon DEF GiveUp
<1>4. bubbles \in Seq(Bubble) /\ region \in Seq(Entry)
  BY <1>1, MarksTypes
<1>5. "Undelivered" \in Marks /\ "DmUndelivered" \in Kinds
  BY DEF Marks, Kinds
<1>6. MarksTypeOK' /\ SendInv'
  BY <1>2, <1>3, <1>4, <1>5, VerdictTypes
<1>7. fate[m] = "Pending"
  BY <1>1, <1>2 DEF SendInv
<1>8. AckedMessages' = AckedMessages
  BY <1>2, <1>5, <1>7, FateFacts
<1>9. ev \in Event /\ ev.kind # "DmAcked" /\ (events' = events \/ events' = Append(events, ev))
  BY <1>1, <1>2, <1>5, RaiseFacts
<1>10. CountInv'
  <2>1. /\ Cardinality(AckEvents(events)) \in Nat
        /\ Cardinality(AckEvents(events')) = Cardinality(AckEvents(events))
    BY <1>1, <1>9, RaiseCount
  <2>2. Cardinality(Blue(bubbles)) \in Nat
    BY <1>4, BlueNat
  <2> QED
    BY <1>2, <1>4, <1>8, <2>1, <2>2, CountKeeps
<1> QED
  BY <1>6, <1>10 DEF Counted

LEMMA RxAckCounted ==
    ASSUME MarksIInv, NEW m \in Messages, RxAck(m)
    PROVE  Counted'
<1> DEFINE ev == [kind |-> "DmAcked", msg |-> m]
<1>1. MarksTypeOK /\ SendInv /\ CountInv
  BY DEF MarksIInv
<1>2. /\ m \in outstanding /\ outstanding' = outstanding \ {m}
      /\ fate' = [fate EXCEPT ![m] = "Acked"] /\ Raise("DmAcked", m)
      /\ bubbles' = bubbles /\ commands' = commands /\ composed' = composed
      /\ region' = FlashMark(region) /\ reboots' = reboots
  BY DEF RxAck
<1>3. regionOk' = regionOk
  BY Zenon DEF RxAck
<1>4. bubbles \in Seq(Bubble) /\ region \in Seq(Entry) /\ Len(region) \in Nat
  BY <1>1, MarksTypes
<1>5. "Acked" \in Marks /\ "DmAcked" \in Kinds
  BY DEF Marks, Kinds
<1>6. fate[m] = "Pending" /\ KeptIn(region, m)
  BY <1>1, <1>2 DEF SendInv
<1>7. /\ IsFiniteSet(AckedMessages) /\ Cardinality(AckedMessages) \in Nat
      /\ Cardinality(AckedMessages) < Len(region)
  BY <1>1, <1>4, <1>6, AckedFinite DEF SendInv
<1>8. Cardinality(AckedBits(region)) = Cardinality(AckedMessages)
  BY <1>1 DEF CountInv, FlashCountsAcks, AckedBits
<1>9. Unacked(region) # {}
  BY <1>4, <1>7, <1>8, BitsFacts
<1>10. /\ region' \in Seq(Entry) /\ Len(region') = Len(region)
       /\ \A i \in 1..Len(region) : region'[i].msg = region[i].msg
       /\ \E k : AckedBits(region') = AckedBits(region) \cup {k} /\ k \notin AckedBits(region)
  BY <1>2, <1>4, <1>9, FlashMarkFacts
<1>11. MarksTypeOK' /\ SendInv'
  BY <1>2, <1>3, <1>5, <1>10, VerdictTypes
<1>12. AckedMessages' = AckedMessages \cup {m} /\ m \notin AckedMessages
  BY <1>2, <1>5, <1>6, FateFacts
<1>13. Cardinality(AckedMessages') = Cardinality(AckedMessages) + 1
  BY <1>7, <1>12, OneMore
<1>14. Cardinality(AckedBits(region')) = Cardinality(AckedBits(region)) + 1
  <2>1. IsFiniteSet(AckedBits(region))
    BY <1>4, BitsFacts
  <2> QED
    BY <1>10, <2>1, OneMore
<1>15. FlashCountsAcks'
  <2>1. Cardinality(AckedBits(region')) = Cardinality(AckedMessages')
    BY <1>8, <1>13, <1>14
  <2> QED
    BY <2>1 DEF FlashCountsAcks, AckedBits
<1>16. ev \in Event /\ (events' = events \/ events' = Append(events, ev))
  BY <1>1, <1>2, <1>5, RaiseFacts
<1>17. Cardinality(Blue(bubbles')) + Cardinality(AckEvents(events')) <= Cardinality(AckedMessages')
  <2>1. /\ Cardinality(AckEvents(events)) \in Nat /\ Cardinality(AckEvents(events')) \in Nat
        /\ Cardinality(AckEvents(events')) <= Cardinality(AckEvents(events)) + 1
    BY <1>1, <1>16, RaiseCount
  <2>2. Cardinality(Blue(bubbles)) \in Nat /\ Cardinality(Blue(bubbles')) = Cardinality(Blue(bubbles))
    BY <1>2, <1>4, BlueNat
  <2>3. Cardinality(Blue(bubbles)) + Cardinality(AckEvents(events)) <= Cardinality(AckedMessages)
    BY <1>1 DEF CountInv
  <2> QED
    BY <1>7, <1>13, <2>1, <2>2, <2>3
<1> QED
  BY <1>11, <1>15, <1>17 DEF Counted, CountInv

LEMMA UiTakeCounted ==
    ASSUME MarksIInv, UiTake
    PROVE  Counted'
<1> DEFINE ev == Head(events)
<1>1. MarksTypeOK /\ SendInv
  BY DEF MarksIInv
<1>2. /\ events # <<>> /\ events' = Tail(events) /\ bubbles' = Handle(bubbles, ev)
      /\ commands' = commands /\ composed' = composed /\ outstanding' = outstanding
      /\ fate' = fate /\ region' = region /\ reboots' = reboots
  BY DEF UiTake
<1>3. regionOk' = regionOk /\ smooth' = smooth
  BY Zenon DEF UiTake
<1>4. /\ bubbles \in Seq(Bubble) /\ commands \in Seq(Messages) /\ events \in Seq(Event)
      /\ region \in Seq(Entry) /\ composed \subseteq Messages /\ outstanding \subseteq composed
      /\ Len(commands) <= CommandQueueCap /\ Len(events) <= EventQueueCap
      /\ fate \in [Messages -> Marks] /\ reboots \in 0..MaxReboots /\ EventQueueCap \in Nat
  BY <1>1, MarksTypes
<1>5. ev \in Event /\ events' \in Seq(Event) /\ Len(events') <= EventQueueCap
  BY <1>2, <1>4, Shifted
<1>6. /\ bubbles' \in Seq(Bubble)
      /\ \/ ev.kind = "DmAcked" /\ Cardinality(Blue(bubbles')) <= Cardinality(Blue(bubbles)) + 1
         \/ ev.kind # "DmAcked" /\ Cardinality(Blue(bubbles')) <= Cardinality(Blue(bubbles))
  BY <1>2, <1>4, <1>5, HandleMarks
<1>7. MarksTypeOK'
  <2>1. smooth' \in BOOLEAN
    BY <1>1, <1>3, Zenon DEF MarksTypeOK
  <2> QED
    BY <1>1, <1>2, <1>3, <1>4, <1>5, <1>6, <2>1, MarksTypesNext
<1>8. SendInv'
  BY <1>1, <1>2 DEF SendInv, KeptIn
<1>9. CountInv'
  <2>1. Cardinality(Blue(bubbles)) \in Nat /\ Cardinality(Blue(bubbles')) \in Nat
    BY <1>4, <1>6, BlueNat
  <2>2. Cardinality(AckEvents(events)) \in Nat /\ Cardinality(AckEvents(events')) \in Nat
    BY <1>4, <1>5, EventCount
  <2>3. Cardinality(AckEvents(events')) =
            IF ev.kind = "DmAcked" THEN Cardinality(AckEvents(events)) - 1
            ELSE Cardinality(AckEvents(events))
    BY <1>2, <1>4, EventTail
  <2>4. Cardinality(Blue(bubbles')) + Cardinality(AckEvents(events'))
            <= Cardinality(Blue(bubbles)) + Cardinality(AckEvents(events))
    BY <1>6, <2>1, <2>2, <2>3
  <2>5. AckedMessages' = AckedMessages
    BY <1>2 DEF AckedMessages
  <2> QED
    BY <1>2, <1>4, <2>1, <2>2, <2>4, <2>5, CountKeeps
<1> QED
  BY <1>7, <1>8, <1>9 DEF Counted

LEMMA RebootCounted ==
    ASSUME MarksIInv, MarksReboot
    PROVE  Counted'
<1>1. MarksTypeOK /\ SendInv /\ CountInv
  BY DEF MarksIInv
<1>2. /\ reboots < MaxReboots /\ reboots' = reboots + 1 /\ bubbles' = Restore(region)
      /\ commands' = <<>> /\ events' = <<>> /\ outstanding' = {}
      /\ composed' = composed /\ fate' = fate /\ region' = region
  BY DEF MarksReboot
<1>3. regionOk' = regionOk /\ smooth' \in BOOLEAN
  BY Zenon DEF MarksReboot
<1>4. /\ region \in Seq(Entry) /\ composed \subseteq Messages
      /\ fate \in [Messages -> Marks] /\ reboots \in 0..MaxReboots
      /\ CommandQueueCap \in Nat /\ EventQueueCap \in Nat
  BY <1>1, MarksTypes
<1>5. bubbles' \in Seq(Bubble) /\ Blue(bubbles') = AckedBits(region)
  BY <1>2, <1>4, RestoreFacts
<1>6. MarksTypeOK'
  <2>1. commands' \in Seq(Messages) /\ Len(commands') <= CommandQueueCap
    BY <1>2, <1>4
  <2>2. events' \in Seq(Event) /\ Len(events') <= EventQueueCap
    BY <1>2, <1>4
  <2>3. reboots' \in 0..MaxReboots
    BY <1>2, <1>4, DeliveryMarksAssumption
  <2> QED
    BY <1>1, <1>2, <1>3, <1>4, <1>5, <2>1, <2>2, <2>3, MarksTypesNext
<1>7. SendInv'
  BY <1>1, <1>2 DEF SendInv, KeptIn
<1>8. CountInv'
  <2>1. AckEvents(events') = {}
    BY <1>2 DEF AckEvents
  <2>2. Cardinality(AckEvents(events')) = 0
    BY <2>1, FS_EmptySet
  <2>3. Cardinality(AckedBits(region)) = Cardinality(AckedMessages)
    BY <1>1 DEF CountInv, FlashCountsAcks, AckedBits
  <2>4. AckedMessages' = AckedMessages
    BY <1>2 DEF AckedMessages
  <2>5. Cardinality(AckedBits(region)) \in Nat
    BY <1>4, BitsFacts
  <2>6. Cardinality(Blue(bubbles')) + Cardinality(AckEvents(events')) <= Cardinality(AckedMessages')
    BY <1>5, <2>2, <2>3, <2>4, <2>5
  <2>7. FlashCountsAcks'
    BY <1>2, <2>3, <2>4 DEF FlashCountsAcks, AckedBits
  <2> QED
    BY <2>6, <2>7 DEF CountInv
<1> QED
  BY <1>6, <1>7, <1>8 DEF Counted

-----------------------------------------------------------------------------
(***************************************************************************)
(* Tags, one event at a time.                                              *)
(***************************************************************************)
LEMMA TagsCompose ==
    ASSUME NEW b \in Seq(Bubble), NEW q \in Seq(Event), NEW n \in 0..Len(b), TagsOK(b, n, q),
           NEW x \in Bubble, x.tag = NoTag, x.mark = "Pending",
           \A i \in 1..Len(b) : b[i].msg # x.msg, NEW c, c = Append(b, x)
    PROVE  TagsOK(c, n, q)
<1>1. /\ Len(b) \in Nat /\ Len(c) = Len(b) + 1 /\ c[Len(b) + 1] = x
      /\ \A i \in 1..Len(b) : c[i] = b[i]
      /\ \A i \in 1..Len(c) : i \in 1..Len(b) \/ i = Len(b) + 1
  BY Grown
<1>2. \A i \in 1..n : i \in 1..Len(b)
  BY <1>1
<1>3. ASSUME NEW i \in 1..Len(c), NEW p \in 1..Len(q), q[p].kind = "DmQueued", q[p].msg = c[i].msg
      PROVE  i \in 1..Len(b)
  <2>1. PICK k \in 1..n : b[k].msg = q[p].msg
    BY <1>3 DEF TagsOK
  <2> QED
    BY <1>1, <1>2, <1>3, <2>1
<1>4. ASSUME NEW i \in 1..Len(c)
      PROVE  /\ c[i].tag \in {NoTag, c[i].msg}
             /\ i > n => c[i].tag = NoTag
             /\ c[i].tag = NoTag => c[i].mark = "Pending"
             /\ c[i].tag = NoTag /\ i <= n =>
                   \E p \in 1..Len(q) : q[p].kind = "DmQueued" /\ q[p].msg = c[i].msg
  <2>1. CASE i \in 1..Len(b)
    BY <1>1, <2>1 DEF TagsOK
  <2>2. CASE i = Len(b) + 1
    BY <1>1, <2>2
  <2> QED
    BY <1>1, <2>1, <2>2
<1>5. \A p \in 1..Len(q) : q[p].kind = "DmQueued" =>
         \E i \in 1..n : c[i].msg = q[p].msg /\ c[i].tag = NoTag
  BY <1>1, <1>2 DEF TagsOK
<1>6. ASSUME NEW i \in 1..Len(c), NEW k \in 1..Len(c), NEW p \in 1..Len(q), NEW o \in 1..Len(q),
             q[p].kind = "DmQueued", q[p].msg = c[i].msg, q[o].kind = "DmQueued", q[o].msg = c[k].msg
      PROVE  i < k <=> p < o
  <2>1. i \in 1..Len(b) /\ k \in 1..Len(b)
    BY <1>3, <1>6
  <2> QED
    BY <1>1, <1>6, <2>1 DEF TagsOK
<1> QED
  BY <1>4, <1>5, <1>6 DEF TagsOK

LEMMA TagsSend ==
    ASSUME NEW b \in Seq(Bubble), NEW q \in Seq(Event), NEW n \in Nat, n < Len(b), TagsOK(b, n, q),
           Apart(b), NEW ev \in Event, ev.kind = "DmQueued", ev.msg = b[n + 1].msg,
           NEW r, r = Append(q, ev)
    PROVE  TagsOK(b, n + 1, r)
<1>1. /\ Len(q) \in Nat /\ Len(r) = Len(q) + 1 /\ r[Len(q) + 1] = ev
      /\ \A i \in 1..Len(q) : r[i] = q[i]
      /\ \A i \in 1..Len(r) : i \in 1..Len(q) \/ i = Len(q) + 1
  BY Grown
<1>2. \A i \in 1..Len(q) : i \in 1..Len(r)
  BY <1>1
<1>3. Len(b) \in Nat /\ n + 1 \in 1..Len(b) /\ b[n + 1].tag = NoTag
  <2>1. Len(b) \in Nat /\ n + 1 \in 1..Len(b) /\ n + 1 > n
    OBVIOUS
  <2> QED
    BY <2>1 DEF TagsOK
<1>4. ASSUME NEW i \in 1..Len(b)
      PROVE  /\ i > n + 1 => b[i].tag = NoTag
             /\ b[i].tag = NoTag /\ i <= n + 1 =>
                   \E p \in 1..Len(r) : r[p].kind = "DmQueued" /\ r[p].msg = b[i].msg
  <2>1. i > n + 1 => b[i].tag = NoTag
    BY <1>3 DEF TagsOK
  <2>2. ASSUME b[i].tag = NoTag, i <= n
        PROVE  \E p \in 1..Len(r) : r[p].kind = "DmQueued" /\ r[p].msg = b[i].msg
    BY <1>1, <1>2, <2>2 DEF TagsOK
  <2>3. ASSUME i = n + 1
        PROVE  \E p \in 1..Len(r) : r[p].kind = "DmQueued" /\ r[p].msg = b[i].msg
    <3>1. Len(q) + 1 \in 1..Len(r)
      BY <1>1
    <3> QED
      BY <1>1, <2>3, <3>1
  <2>4. i <= n + 1 => i <= n \/ i = n + 1
    OBVIOUS
  <2> QED
    BY <2>1, <2>2, <2>3, <2>4
<1>5. ASSUME NEW p \in 1..Len(r), r[p].kind = "DmQueued"
      PROVE  \E i \in 1..(n + 1) : b[i].msg = r[p].msg /\ b[i].tag = NoTag
  <2>1. CASE p \in 1..Len(q)
    <3>1. PICK i \in 1..n : b[i].msg = q[p].msg /\ b[i].tag = NoTag
      BY <1>1, <1>5, <2>1 DEF TagsOK
    <3> QED
      BY <1>1, <2>1, <3>1
  <2>2. CASE p = Len(q) + 1
    BY <1>1, <1>3, <2>2
  <2> QED
    BY <1>1, <2>1, <2>2
<1>6. ASSUME NEW i \in 1..Len(b), NEW p \in 1..Len(r), r[p].kind = "DmQueued", r[p].msg = b[i].msg
      PROVE  \/ p \in 1..Len(q) /\ i <= n /\ q[p].kind = "DmQueued" /\ q[p].msg = b[i].msg
             \/ p = Len(q) + 1 /\ i = n + 1
  <2>1. CASE p \in 1..Len(q)
    <3>1. PICK k \in 1..n : b[k].msg = q[p].msg
      BY <1>1, <1>6, <2>1 DEF TagsOK
    <3>2. k \in 1..Len(b) /\ k <= n
      OBVIOUS
    <3>3. k = i
      BY <1>1, <1>6, <2>1, <3>1, <3>2 DEF Apart
    <3> QED
      BY <1>1, <1>6, <2>1, <3>2, <3>3
  <2>2. CASE p = Len(q) + 1
    BY <1>1, <1>3, <1>6, <2>2 DEF Apart
  <2> QED
    BY <1>1, <2>1, <2>2
<1>7. ASSUME NEW i \in 1..Len(b), NEW k \in 1..Len(b), NEW p \in 1..Len(r), NEW o \in 1..Len(r),
             r[p].kind = "DmQueued", r[p].msg = b[i].msg, r[o].kind = "DmQueued", r[o].msg = b[k].msg
      PROVE  i < k <=> p < o
  <2>1. \/ p \in 1..Len(q) /\ i <= n /\ q[p].kind = "DmQueued" /\ q[p].msg = b[i].msg
        \/ p = Len(q) + 1 /\ i = n + 1
    BY <1>6, <1>7
  <2>2. \/ o \in 1..Len(q) /\ k <= n /\ q[o].kind = "DmQueued" /\ q[o].msg = b[k].msg
        \/ o = Len(q) + 1 /\ k = n + 1
    BY <1>6, <1>7
  <2>3. CASE p \in 1..Len(q) /\ o \in 1..Len(q)
    <3>1. q[p].kind = "DmQueued" /\ q[p].msg = b[i].msg /\ q[o].kind = "DmQueued" /\ q[o].msg = b[k].msg
      BY <1>1, <1>7, <2>3
    <3> QED
      BY <2>3, <3>1 DEF TagsOK
  <2>4. CASE ~(p \in 1..Len(q) /\ o \in 1..Len(q))
    BY <1>1, <2>1, <2>2, <2>4
  <2> QED
    BY <2>3, <2>4
<1>8. \A i \in 1..Len(b) : b[i].tag \in {NoTag, b[i].msg} /\ (b[i].tag = NoTag => b[i].mark = "Pending")
  BY DEF TagsOK
<1> QED
  BY <1>4, <1>5, <1>7, <1>8 DEF TagsOK

LEMMA TagsRaise ==
    ASSUME NEW b, NEW n, NEW q \in Seq(Event), TagsOK(b, n, q),
           NEW ev \in Event, ev.kind # "DmQueued", NEW r, r = Append(q, ev)
    PROVE  TagsOK(b, n, r)
<1>1. /\ Len(q) \in Nat /\ Len(r) = Len(q) + 1 /\ r[Len(q) + 1] = ev
      /\ \A i \in 1..Len(q) : r[i] = q[i]
      /\ \A i \in 1..Len(r) : i \in 1..Len(q) \/ i = Len(q) + 1
  BY Grown
<1>2. \A p \in 1..Len(q) : p \in 1..Len(r)
  BY <1>1
<1>3. \A p \in 1..Len(r) : r[p].kind = "DmQueued" => p \in 1..Len(q) /\ r[p] = q[p]
  BY <1>1
<1>4. \A i \in 1..Len(b) :
          /\ b[i].tag \in {NoTag, b[i].msg}
          /\ i > n => b[i].tag = NoTag
          /\ b[i].tag = NoTag => b[i].mark = "Pending"
          /\ b[i].tag = NoTag /\ i <= n =>
                \E p \in 1..Len(r) : r[p].kind = "DmQueued" /\ r[p].msg = b[i].msg
  BY <1>1, <1>2 DEF TagsOK
<1>5. \A p \in 1..Len(r) : r[p].kind = "DmQueued" =>
          \E i \in 1..n : b[i].msg = r[p].msg /\ b[i].tag = NoTag
  BY <1>3 DEF TagsOK
<1>6. \A i, k \in 1..Len(b), p, o \in 1..Len(r) :
          (/\ r[p].kind = "DmQueued" /\ r[p].msg = b[i].msg
           /\ r[o].kind = "DmQueued" /\ r[o].msg = b[k].msg) => (i < k <=> p < o)
  BY <1>3 DEF TagsOK
<1> QED
  BY <1>4, <1>5, <1>6 DEF TagsOK

\* The oldest untagged bubble is the one DmQueued speaks of.
LEMMA TagsQueued ==
    ASSUME NEW b \in Seq(Bubble), NEW q \in Seq(Event), NEW n \in 0..Len(b), TagsOK(b, n, q),
           Apart(b), q # <<>>, Head(q).kind = "DmQueued",
           NEW c, c = TagOldestUntagged(b, Head(q).msg)
    PROVE  \E k \in 1..Len(b) : Retagged(b, c, k, Head(q).msg) /\ b[k].msg = Head(q).msg
<1> DEFINE m == Head(q).msg
           U == Pending(b) \cap Tagged(b, NoTag)
<1>1. Len(q) \in Nat /\ Len(q) >= 1 /\ Head(q) = q[1] /\ q[1] \in Event /\ 1 \in 1..Len(q)
  BY Shifted
<1>2. m \in Messages
  BY <1>1 DEF Event
<1>3. PICK i \in 1..n : b[i].msg = m /\ b[i].tag = NoTag
  BY <1>1 DEF TagsOK
<1>4. i \in 1..Len(b) /\ i \in U
  <2>1. i \in 1..Len(b)
    OBVIOUS
  <2> QED
    BY <1>3, <2>1 DEF TagsOK, Pending, Tagged
<1>5. PICK k \in U : Retagged(b, c, k, m) /\ \A y \in U : k <= y
  <2> HIDE DEF m
  <2>1. c = TagOldestUntagged(b, m)
    BY DEF m
  <2> QED
    BY <1>2, <1>4, <2>1, TagFacts
<1>6. k \in 1..Len(b) /\ b[k].tag = NoTag /\ k <= i /\ i <= n
  BY <1>4, <1>5 DEF Pending, Tagged
<1>7. PICK p \in 1..Len(q) : q[p].kind = "DmQueued" /\ q[p].msg = b[k].msg
  BY <1>6 DEF TagsOK
<1>8. i < k <=> 1 < p
  BY <1>1, <1>3, <1>4, <1>6, <1>7 DEF TagsOK
<1>9. p = 1
  BY <1>1, <1>6, <1>8
<1> QED
  BY <1>1, <1>5, <1>6, <1>7, <1>9

LEMMA TagsIntro ==
    ASSUME NEW b, NEW n, NEW q,
           \A i \in 1..Len(b) :
              /\ b[i].tag \in {NoTag, b[i].msg}
              /\ i > n => b[i].tag = NoTag
              /\ b[i].tag = NoTag => b[i].mark = "Pending"
              /\ b[i].tag = NoTag /\ i <= n =>
                    \E p \in 1..Len(q) : q[p].kind = "DmQueued" /\ q[p].msg = b[i].msg,
           \A p \in 1..Len(q) : q[p].kind = "DmQueued" =>
              \E i \in 1..n : b[i].msg = q[p].msg /\ b[i].tag = NoTag,
           \A i, k \in 1..Len(b), p, o \in 1..Len(q) :
              (/\ q[p].kind = "DmQueued" /\ q[p].msg = b[i].msg
               /\ q[o].kind = "DmQueued" /\ q[o].msg = b[k].msg) => (i < k <=> p < o)
    PROVE  TagsOK(b, n, q)
  BY Zenon DEF TagsOK

LEMMA TagsTaken ==
    ASSUME NEW b \in Seq(Bubble), NEW q \in Seq(Event), NEW n \in 0..Len(b), TagsOK(b, n, q),
           Apart(b), q # <<>>, NEW r, r = Tail(q), NEW c \in Seq(Bubble), Len(c) = Len(b),
           NEW k \in 1..Len(b), b[k].msg = Head(q).msg,
           \/ Head(q).kind = "DmQueued" /\ Retagged(b, c, k, Head(q).msg)
           \/ /\ Head(q).kind # "DmQueued" /\ b[k].tag # NoTag
              /\ \E v : Remarked(b, c, k, v)
    PROVE  TagsOK(c, n, r)
<1>1. /\ r \in Seq(Event) /\ Len(q) \in Nat /\ Len(q) >= 1 /\ Len(r) = Len(q) - 1
      /\ Head(q) = q[1] /\ q[1] \in Event
      /\ \A i \in 1..Len(r) : i + 1 \in 1..Len(q) /\ r[i] = q[i + 1]
      /\ \A i \in 1..Len(q) : i # 1 => i - 1 \in 1..Len(r) /\ r[i - 1] = q[i]
  BY Shifted
<1>2. Head(q).msg \in Messages
  BY <1>1 DEF Event
<1>3. /\ c[k].msg = b[k].msg /\ c[k].tag \in {b[k].tag, b[k].msg} /\ c[k].tag # NoTag
      /\ \A i \in 1..Len(b) : i # k => c[i] = b[i]
  BY <1>2, DeliveryMarksAssumption DEF Retagged, Remarked
<1>4. \A i \in 1..Len(b) : c[i].msg = b[i].msg
  BY <1>3
<1>5. ASSUME NEW i \in 1..Len(b)
      PROVE  /\ c[i].tag \in {NoTag, c[i].msg}
             /\ c[i].tag = NoTag => i # k /\ b[i].tag = NoTag /\ c[i] = b[i]
  BY <1>3 DEF TagsOK
<1>6. ASSUME NEW i \in 1..Len(c)
      PROVE  /\ c[i].tag \in {NoTag, c[i].msg}
             /\ i > n => c[i].tag = NoTag
             /\ c[i].tag = NoTag => c[i].mark = "Pending"
             /\ c[i].tag = NoTag /\ i <= n =>
                   \E p \in 1..Len(r) : r[p].kind = "DmQueued" /\ r[p].msg = c[i].msg
  <2>1. k <= n
    <3>1. CASE Head(q).kind = "DmQueued"
      <4>1. PICK j \in 1..n : b[j].msg = q[1].msg
        BY <1>1, <3>1 DEF TagsOK
      <4>2. j \in 1..Len(b)
        OBVIOUS
      <4>3. j = k
        BY <1>1, <4>1, <4>2 DEF Apart
      <4> QED
        BY <4>3
    <3>2. CASE Head(q).kind # "DmQueued"
      <4>1. b[k].tag # NoTag
        BY <3>2
      <4>2. ~(k > n)
        BY <4>1 DEF TagsOK
      <4> QED
        BY <4>2
    <3> QED
      BY <3>1, <3>2
  <2>2. i > n => c[i].tag = NoTag
    <3> SUFFICES ASSUME i > n PROVE c[i].tag = NoTag
      OBVIOUS
    <3>1. i # k
      BY <2>1
    <3> QED
      BY <1>3, <3>1 DEF TagsOK
  <2>3. c[i].tag = NoTag => c[i].mark = "Pending"
    BY <1>5 DEF TagsOK
  <2>4. ASSUME c[i].tag = NoTag, i <= n
        PROVE  \E p \in 1..Len(r) : r[p].kind = "DmQueued" /\ r[p].msg = c[i].msg
    <3>1. i # k /\ b[i].tag = NoTag /\ c[i] = b[i]
      BY <1>5, <2>4
    <3>2. PICK p \in 1..Len(q) : q[p].kind = "DmQueued" /\ q[p].msg = b[i].msg
      BY <2>4, <3>1 DEF TagsOK
    <3>3. p # 1
      BY <1>1, <3>1, <3>2 DEF Apart
    <3>4. p - 1 \in 1..Len(r) /\ r[p - 1] = q[p]
      BY <1>1, <3>3
    <3> QED
      BY <3>1, <3>2, <3>4
  <2> QED
    BY <1>5, <2>2, <2>3, <2>4
<1>7. ASSUME NEW p \in 1..Len(r), r[p].kind = "DmQueued"
      PROVE  \E i \in 1..n : c[i].msg = r[p].msg /\ c[i].tag = NoTag
  <2>1. p + 1 \in 1..Len(q) /\ r[p] = q[p + 1] /\ p + 1 # 1
    BY <1>1
  <2>2. PICK i \in 1..n : b[i].msg = q[p + 1].msg /\ b[i].tag = NoTag
    BY <1>7, <2>1 DEF TagsOK
  <2>3. i \in 1..Len(b)
    OBVIOUS
  <2>4. i # k
    <3> SUFFICES ASSUME i = k PROVE FALSE
      OBVIOUS
    <3>1. Head(q).kind = "DmQueued"
      BY <2>2
    <3>2. k < k <=> 1 < p + 1
      <4>1. 1 \in 1..Len(q) /\ q[1].kind = "DmQueued" /\ q[1].msg = b[k].msg
        BY <1>1, <3>1
      <4>2. q[p + 1].kind = "DmQueued" /\ q[p + 1].msg = b[k].msg
        BY <1>7, <2>1, <2>2
      <4> QED
        BY <2>1, <4>1, <4>2 DEF TagsOK
    <3> QED
      BY <3>2
  <2> QED
    BY <1>3, <2>1, <2>2, <2>3, <2>4
<1>8. ASSUME NEW i \in 1..Len(c), NEW j \in 1..Len(c), NEW p \in 1..Len(r), NEW o \in 1..Len(r),
             r[p].kind = "DmQueued", r[p].msg = c[i].msg, r[o].kind = "DmQueued", r[o].msg = c[j].msg
      PROVE  i < j <=> p < o
  <2>1. p + 1 \in 1..Len(q) /\ r[p] = q[p + 1] /\ o + 1 \in 1..Len(q) /\ r[o] = q[o + 1]
    BY <1>1
  <2>2. i < j <=> p + 1 < o + 1
    BY <1>4, <1>8, <2>1 DEF TagsOK
  <2> QED
    BY <2>2
<1>9. \A i, j \in 1..Len(c), p, o \in 1..Len(r) :
          (/\ r[p].kind = "DmQueued" /\ r[p].msg = c[i].msg
           /\ r[o].kind = "DmQueued" /\ r[o].msg = c[j].msg) => (i < j <=> p < o)
  BY <1>8
<1>10. \A p \in 1..Len(r) : r[p].kind = "DmQueued" =>
          \E i \in 1..n : c[i].msg = r[p].msg /\ c[i].tag = NoTag
  BY <1>7
<1>11. \A i \in 1..Len(c) :
          /\ c[i].tag \in {NoTag, c[i].msg}
          /\ i > n => c[i].tag = NoTag
          /\ c[i].tag = NoTag => c[i].mark = "Pending"
          /\ c[i].tag = NoTag /\ i <= n =>
                \E p \in 1..Len(r) : r[p].kind = "DmQueued" /\ r[p].msg = c[i].msg
  BY <1>6
<1> QED
  BY <1>9, <1>10, <1>11, TagsIntro, Zenon

-----------------------------------------------------------------------------
(***************************************************************************)
(* Verdicts, one event at a time.                                          *)
(***************************************************************************)
LEMMA VerdictsIntro ==
    ASSUME NEW b, NEW n, NEW q, NEW ft,
           \A i \in 1..Len(b) :
              \/ b[i].mark = ft[b[i].msg]
              \/ \E p \in 1..Len(q) : Verdict(q[p]) /\ q[p].msg = b[i].msg,
           \A p \in 1..Len(q) : Verdict(q[p]) =>
              /\ ft[q[p].msg] = VerdictMark(q[p])
              /\ \E i \in 1..n : b[i].msg = q[p].msg
              /\ \A o \in 1..Len(q) : q[o].msg = q[p].msg /\ o # p => q[o].kind = "DmQueued" /\ o < p
    PROVE  VerdictsOK(b, n, q, ft)
  BY Zenon DEF VerdictsOK

LEMMA VerdictsCompose ==
    ASSUME NEW b \in Seq(Bubble), NEW q \in Seq(Event), NEW n \in 0..Len(b), NEW ft,
           VerdictsOK(b, n, q, ft), NEW x \in Bubble, x.mark = ft[x.msg], NEW c, c = Append(b, x)
    PROVE  VerdictsOK(c, n, q, ft)
<1>1. /\ Len(b) \in Nat /\ Len(c) = Len(b) + 1 /\ c[Len(b) + 1] = x
      /\ \A i \in 1..Len(b) : c[i] = b[i]
      /\ \A i \in 1..Len(c) : i \in 1..Len(b) \/ i = Len(b) + 1
  BY Grown
<1>2. \A i \in 1..n : i \in 1..Len(b)
  BY <1>1
<1>3. \A i \in 1..Len(c) :
          \/ c[i].mark = ft[c[i].msg]
          \/ \E p \in 1..Len(q) : Verdict(q[p]) /\ q[p].msg = c[i].msg
  BY <1>1 DEF VerdictsOK
<1>4. \A p \in 1..Len(q) : Verdict(q[p]) =>
          /\ ft[q[p].msg] = VerdictMark(q[p])
          /\ \E i \in 1..n : c[i].msg = q[p].msg
          /\ \A o \in 1..Len(q) : q[o].msg = q[p].msg /\ o # p => q[o].kind = "DmQueued" /\ o < p
  BY <1>1, <1>2 DEF VerdictsOK
<1> QED
  BY <1>3, <1>4, VerdictsIntro, Zenon

LEMMA VerdictsSend ==
    ASSUME NEW b \in Seq(Bubble), NEW q \in Seq(Event), NEW n \in Nat, n < Len(b), NEW ft,
           VerdictsOK(b, n, q, ft), Apart(b), NEW ev \in Event, ev.kind = "DmQueued",
           ev.msg = b[n + 1].msg, NEW r, r = Append(q, ev)
    PROVE  VerdictsOK(b, n + 1, r, ft)
<1>1. /\ Len(q) \in Nat /\ Len(r) = Len(q) + 1 /\ r[Len(q) + 1] = ev
      /\ \A i \in 1..Len(q) : r[i] = q[i]
      /\ \A i \in 1..Len(r) : i \in 1..Len(q) \/ i = Len(q) + 1
  BY Grown
<1>2. \A p \in 1..Len(q) : p \in 1..Len(r)
  BY <1>1
<1>3. \A p \in 1..Len(r) : Verdict(r[p]) => p \in 1..Len(q) /\ r[p] = q[p]
  BY <1>1 DEF Verdict
<1>4. Len(b) \in Nat /\ \A i \in 1..n : i \in 1..Len(b) /\ i \in 1..(n + 1) /\ i # n + 1
  OBVIOUS
<1>5. n + 1 \in 1..Len(b)
  BY <1>4
<1>6. \A i \in 1..Len(b) :
          \/ b[i].mark = ft[b[i].msg]
          \/ \E p \in 1..Len(r) : Verdict(r[p]) /\ r[p].msg = b[i].msg
  BY <1>1, <1>2 DEF VerdictsOK
<1>7. ASSUME NEW p \in 1..Len(r), Verdict(r[p])
      PROVE  /\ ft[r[p].msg] = VerdictMark(r[p])
             /\ \E i \in 1..(n + 1) : b[i].msg = r[p].msg
             /\ \A o \in 1..Len(r) : r[o].msg = r[p].msg /\ o # p => r[o].kind = "DmQueued" /\ o < p
  <2>1. p \in 1..Len(q) /\ r[p] = q[p] /\ Verdict(q[p])
    BY <1>3, <1>7
  <2>2. ft[r[p].msg] = VerdictMark(r[p])
    BY <2>1 DEF VerdictsOK
  <2>3. PICK i \in 1..n : b[i].msg = q[p].msg
    BY <2>1 DEF VerdictsOK
  <2>4. r[Len(q) + 1].msg # r[p].msg
    BY <1>1, <1>4, <1>5, <2>1, <2>3 DEF Apart
  <2>5. \A o \in 1..Len(q) : q[o].msg = q[p].msg /\ o # p => q[o].kind = "DmQueued" /\ o < p
    BY <2>1 DEF VerdictsOK
  <2>6. \A o \in 1..Len(r) : r[o].msg = r[p].msg /\ o # p => r[o].kind = "DmQueued" /\ o < p
    BY <1>1, <2>1, <2>4, <2>5
  <2> QED
    BY <1>4, <2>1, <2>2, <2>3, <2>6
<1>8. \A p \in 1..Len(r) : Verdict(r[p]) =>
          /\ ft[r[p].msg] = VerdictMark(r[p])
          /\ \E i \in 1..(n + 1) : b[i].msg = r[p].msg
          /\ \A o \in 1..Len(r) : r[o].msg = r[p].msg /\ o # p => r[o].kind = "DmQueued" /\ o < p
  BY <1>7
<1> QED
  BY <1>6, <1>8, VerdictsIntro, Zenon

\* A verdict for a message whose bubble is tagged, or will be before the verdict comes.
LEMMA VerdictsRaise ==
    ASSUME NEW b \in Seq(Bubble), NEW q \in Seq(Event), NEW n \in 0..Len(b), NEW ft,
           VerdictsOK(b, n, q, ft), NEW ev \in Event, Verdict(ev), ft[ev.msg] = "Pending",
           \E i \in 1..n : b[i].msg = ev.msg,
           NEW gt, gt[ev.msg] = VerdictMark(ev), \A m \in Messages : m # ev.msg => gt[m] = ft[m],
           NEW r, r = Append(q, ev)
    PROVE  VerdictsOK(b, n, r, gt)
<1>1. /\ Len(q) \in Nat /\ Len(r) = Len(q) + 1 /\ r[Len(q) + 1] = ev
      /\ \A i \in 1..Len(q) : r[i] = q[i]
      /\ \A i \in 1..Len(r) : i \in 1..Len(q) \/ i = Len(q) + 1
  BY Grown
<1>2. Len(q) + 1 \in 1..Len(r) /\ \A p \in 1..Len(q) : p \in 1..Len(r) /\ p < Len(q) + 1
  BY <1>1
<1>3. \A p \in 1..Len(q) : q[p] \in Event /\ q[p].msg \in Messages /\ (q[p].kind = "DmQueued" \/ Verdict(q[p]))
  <2>1. \A p \in 1..Len(q) : q[p] \in Event
    OBVIOUS
  <2> QED
    BY <2>1 DEF Event, Verdict
<1>4. \A p \in 1..Len(q) : Verdict(q[p]) => q[p].msg # ev.msg
  <2>1. \A p \in 1..Len(q) : Verdict(q[p]) => ft[q[p].msg] = VerdictMark(q[p])
    BY DEF VerdictsOK
  <2>2. \A x : VerdictMark(x) # "Pending"
    BY DEF VerdictMark
  <2> QED
    BY <2>1, <2>2
<1>5. ASSUME NEW i \in 1..Len(b)
      PROVE  \/ b[i].mark = gt[b[i].msg]
             \/ \E p \in 1..Len(r) : Verdict(r[p]) /\ r[p].msg = b[i].msg
  <2>1. b[i].msg \in Messages
    BY BubbleFacts
  <2>2. CASE b[i].msg = ev.msg
    BY <1>1, <1>2, <2>2
  <2>3. CASE b[i].msg # ev.msg
    BY <1>1, <1>2, <2>1, <2>3 DEF VerdictsOK
  <2> QED
    BY <2>2, <2>3
<1>6. ASSUME NEW p \in 1..Len(r), Verdict(r[p])
      PROVE  /\ gt[r[p].msg] = VerdictMark(r[p])
             /\ \E i \in 1..n : b[i].msg = r[p].msg
             /\ \A o \in 1..Len(r) : r[o].msg = r[p].msg /\ o # p => r[o].kind = "DmQueued" /\ o < p
  <2>1. CASE p \in 1..Len(q)
    <3>1. r[p] = q[p] /\ Verdict(q[p]) /\ q[p].msg # ev.msg /\ q[p].msg \in Messages
      BY <1>1, <1>3, <1>4, <1>6, <2>1
    <3>2. /\ ft[q[p].msg] = VerdictMark(q[p])
          /\ \E i \in 1..n : b[i].msg = q[p].msg
          /\ \A o \in 1..Len(q) : q[o].msg = q[p].msg /\ o # p => q[o].kind = "DmQueued" /\ o < p
      BY <2>1, <3>1 DEF VerdictsOK
    <3>3. gt[q[p].msg] = VerdictMark(q[p])
      BY <3>1, <3>2
    <3> QED
      BY <1>1, <3>1, <3>2, <3>3
  <2>2. CASE p = Len(q) + 1
    BY <1>1, <1>2, <1>3, <1>4, <2>2
  <2> QED
    BY <1>1, <2>1, <2>2
<1>7. \A i \in 1..Len(b) : \/ b[i].mark = gt[b[i].msg]
                           \/ \E p \in 1..Len(r) : Verdict(r[p]) /\ r[p].msg = b[i].msg
  BY <1>5
<1>8. \A p \in 1..Len(r) : Verdict(r[p]) =>
          /\ gt[r[p].msg] = VerdictMark(r[p])
          /\ \E i \in 1..n : b[i].msg = r[p].msg
          /\ \A o \in 1..Len(r) : r[o].msg = r[p].msg /\ o # p => r[o].kind = "DmQueued" /\ o < p
  BY <1>6
<1> QED
  BY <1>7, <1>8, VerdictsIntro, Zenon

\* The head of the queue is taken; k is the bubble it was for.
LEMMA VerdictsTaken ==
    ASSUME NEW b \in Seq(Bubble), NEW q \in Seq(Event), NEW n \in 0..Len(b), NEW ft,
           VerdictsOK(b, n, q, ft), Apart(b), q # <<>>, NEW r, r = Tail(q),
           NEW c \in Seq(Bubble), Len(c) = Len(b),
           NEW k \in 1..Len(b), b[k].msg = Head(q).msg,
           \/ Head(q).kind = "DmQueued" /\ Retagged(b, c, k, Head(q).msg)
           \/ Verdict(Head(q)) /\ Remarked(b, c, k, VerdictMark(Head(q)))
    PROVE  VerdictsOK(c, n, r, ft)
<1>1. /\ r \in Seq(Event) /\ Len(q) \in Nat /\ Len(q) >= 1 /\ Len(r) = Len(q) - 1
      /\ Head(q) = q[1] /\ q[1] \in Event /\ 1 \in 1..Len(q)
      /\ \A i \in 1..Len(r) : i + 1 \in 1..Len(q) /\ r[i] = q[i + 1]
      /\ \A i \in 1..Len(q) : i # 1 => i - 1 \in 1..Len(r) /\ r[i - 1] = q[i]
  BY Shifted
<1>2. /\ \A i \in 1..Len(b) : c[i].msg = b[i].msg
      /\ \A i \in 1..Len(b) : i # k => c[i] = b[i]
      /\ Head(q).kind = "DmQueued" => c[k].mark = b[k].mark
      /\ Verdict(Head(q)) => c[k].mark = VerdictMark(Head(q))
  BY DEF Retagged, Remarked, Verdict
<1>3. ASSUME NEW i \in 1..Len(c)
      PROVE  \/ c[i].mark = ft[c[i].msg]
             \/ \E p \in 1..Len(r) : Verdict(r[p]) /\ r[p].msg = c[i].msg
  <2>0. i \in 1..Len(b)
    OBVIOUS
  <2>1. CASE i = k /\ Verdict(Head(q))
    <3>1. ft[q[1].msg] = VerdictMark(q[1])
      BY <1>1, <2>1 DEF VerdictsOK
    <3> QED
      BY <1>1, <1>2, <2>1, <3>1
  <2>2. CASE i # k \/ Head(q).kind = "DmQueued"
    <3>1. c[i].mark = b[i].mark /\ c[i].msg = b[i].msg
      BY <1>2, <2>0, <2>2
    <3>2. SUFFICES ASSUME b[i].mark # ft[b[i].msg]
                   PROVE  \E p \in 1..Len(r) : Verdict(r[p]) /\ r[p].msg = b[i].msg
      BY <3>1
    <3>3. PICK p \in 1..Len(q) : Verdict(q[p]) /\ q[p].msg = b[i].msg
      BY <2>0, <3>2 DEF VerdictsOK
    <3>4. p # 1
      BY <1>1, <2>0, <2>2, <3>3 DEF Apart, Verdict
    <3>5. p - 1 \in 1..Len(r) /\ r[p - 1] = q[p]
      BY <1>1, <3>4
    <3> QED
      BY <3>3, <3>5
  <2>3. Head(q).kind = "DmQueued" \/ Verdict(Head(q))
    OBVIOUS
  <2> QED
    BY <2>1, <2>2, <2>3
<1>4. ASSUME NEW p \in 1..Len(r), Verdict(r[p])
      PROVE  /\ ft[r[p].msg] = VerdictMark(r[p])
             /\ \E i \in 1..n : c[i].msg = r[p].msg
             /\ \A o \in 1..Len(r) : r[o].msg = r[p].msg /\ o # p => r[o].kind = "DmQueued" /\ o < p
  <2>1. p + 1 \in 1..Len(q) /\ r[p] = q[p + 1]
    BY <1>1
  <2>2. /\ ft[q[p + 1].msg] = VerdictMark(q[p + 1])
        /\ \E i \in 1..n : b[i].msg = q[p + 1].msg
        /\ \A o \in 1..Len(q) : q[o].msg = q[p + 1].msg /\ o # p + 1 => q[o].kind = "DmQueued" /\ o < p + 1
    BY <1>4, <2>1 DEF VerdictsOK
  <2>3. \A i \in 1..n : i \in 1..Len(b)
    OBVIOUS
  <2>4. ASSUME NEW o \in 1..Len(r), r[o].msg = r[p].msg, o # p
        PROVE  r[o].kind = "DmQueued" /\ o < p
    <3>1. o + 1 \in 1..Len(q) /\ r[o] = q[o + 1] /\ o + 1 # p + 1
      BY <1>1, <2>4
    <3>2. q[o + 1].kind = "DmQueued" /\ o + 1 < p + 1
      BY <2>1, <2>2, <2>4, <3>1
    <3> QED
      BY <3>1, <3>2
  <2>5. \E i \in 1..n : c[i].msg = r[p].msg
    BY <1>2, <2>1, <2>2, <2>3
  <2> QED
    BY <2>1, <2>2, <2>4, <2>5
<1>5. \A i \in 1..Len(c) : \/ c[i].mark = ft[c[i].msg]
                           \/ \E p \in 1..Len(r) : Verdict(r[p]) /\ r[p].msg = c[i].msg
  BY <1>3
<1>6. \A p \in 1..Len(r) : Verdict(r[p]) =>
          /\ ft[r[p].msg] = VerdictMark(r[p])
          /\ \E i \in 1..n : c[i].msg = r[p].msg
          /\ \A o \in 1..Len(r) : r[o].msg = r[p].msg /\ o # p => r[o].kind = "DmQueued" /\ o < p
  BY <1>4
<1> QED
  BY <1>5, <1>6, VerdictsIntro, Zenon

\* A verdict finds its message's bubble tagged.
LEMMA VerdictFinds ==
    ASSUME NEW b \in Seq(Bubble), NEW q \in Seq(Event), NEW n \in 0..Len(b), NEW ft,
           TagsOK(b, n, q), VerdictsOK(b, n, q, ft), q # <<>>, Verdict(Head(q)),
           NEW c, c = Mark(b, Head(q).msg, VerdictMark(Head(q)))
    PROVE  \E k \in 1..Len(b) : /\ Remarked(b, c, k, VerdictMark(Head(q)))
                                /\ b[k].msg = Head(q).msg /\ b[k].tag # NoTag
<1> DEFINE m == Head(q).msg
<1>1. Len(q) \in Nat /\ Head(q) = q[1] /\ q[1] \in Event /\ 1 \in 1..Len(q)
  BY Shifted
<1>2. m \in Messages /\ m # NoTag /\ VerdictMark(Head(q)) \in Marks
  BY <1>1, DeliveryMarksAssumption DEF Event, VerdictMark, Marks
<1>3. PICK i \in 1..n : b[i].msg = m
  BY <1>1 DEF VerdictsOK
<1>4. i \in 1..Len(b) /\ i <= n
  OBVIOUS
<1>5. b[i].tag # NoTag
  <2> SUFFICES ASSUME b[i].tag = NoTag PROVE FALSE
    OBVIOUS
  <2>1. PICK p \in 1..Len(q) : q[p].kind = "DmQueued" /\ q[p].msg = b[i].msg
    BY <1>4 DEF TagsOK
  <2>2. p # 1
    BY <1>1, <2>1 DEF Verdict
  <2>3. p < 1
    BY <1>1, <1>3, <2>1, <2>2 DEF VerdictsOK
  <2> QED
    BY <2>3
<1>6. i \in Tagged(b, m)
  BY <1>3, <1>4, <1>5 DEF TagsOK, Tagged
<1>7. \A k \in Tagged(b, m) : k \in 1..Len(b) /\ b[k].msg = m /\ b[k].tag # NoTag
  BY <1>2 DEF TagsOK, Tagged
<1> HIDE DEF m
<1>8. c = Mark(b, m, VerdictMark(Head(q)))
  BY DEF m
<1>9. PICK k \in 1..Len(b) : Remarked(b, c, k, VerdictMark(Head(q))) /\ k \in Tagged(b, m)
  BY <1>2, <1>6, <1>8, MarkFacts
<1> QED
  BY <1>7, <1>9 DEF m

-----------------------------------------------------------------------------
(***************************************************************************)
(* Counting the bubbles that wait for a mark.                              *)
(***************************************************************************)
LEMMA PendingCount ==
    ASSUME NEW b \in Seq(Bubble)
    PROVE  /\ Pending(b) \in SUBSET (1..Len(b)) /\ IsFiniteSet(Pending(b))
           /\ Cardinality(Pending(b)) \in Nat /\ Len(b) \in Nat
<1>1. Pending(b) \in SUBSET (1..Len(b)) /\ Len(b) \in Nat
  BY DEF Pending
<1> QED
  BY <1>1, Positions

LEMMA PendingAppend ==
    ASSUME NEW b \in Seq(Bubble), NEW x \in Bubble, x.mark = "Pending", NEW c, c = Append(b, x)
    PROVE  Cardinality(Pending(c)) = Cardinality(Pending(b)) + 1
<1>1. /\ Len(b) \in Nat /\ Len(c) = Len(b) + 1 /\ c[Len(b) + 1] = x
      /\ \A i \in 1..Len(b) : c[i] = b[i]
      /\ \A i \in 1..Len(c) : i \in 1..Len(b) \/ i = Len(b) + 1
  BY Grown
<1>2. Len(b) + 1 \in 1..Len(c) /\ Len(b) + 1 \notin 1..Len(b) /\ \A i \in 1..Len(b) : i \in 1..Len(c)
  BY <1>1
<1>3. Pending(c) = Pending(b) \cup {Len(b) + 1} /\ Len(b) + 1 \notin Pending(b)
  BY <1>1, <1>2 DEF Pending
<1>4. IsFiniteSet(Pending(b))
  BY PendingCount
<1> QED
  BY <1>3, <1>4, OneMore

LEMMA PendingRemark ==
    ASSUME NEW b \in Seq(Bubble), NEW c \in Seq(Bubble), Len(c) = Len(b), NEW k \in Pending(b), NEW v,
           v # "Pending", Remarked(b, c, k, v)
    PROVE  Cardinality(Pending(c)) = Cardinality(Pending(b)) - 1
<1>1. Pending(c) = Pending(b) \ {k}
  BY DEF Pending, Remarked
<1>2. IsFiniteSet(Pending(b))
  BY PendingCount
<1> QED
  BY <1>1, <1>2, FS_RemoveElement

-----------------------------------------------------------------------------
(***************************************************************************)
(* While nothing was dropped, one action at a time.                        *)
(***************************************************************************)
Smoothly ==
    /\ CommandInv
    /\ regionOk => TagInv /\ VerdictInv
    /\ ~regionOk => RefusedInv

LEMMA SmoothFacts ==
    ASSUME MarksIInv, smooth
    PROVE  /\ MarksTypeOK /\ SendInv /\ CommandInv
           /\ regionOk => TagInv /\ VerdictInv
           /\ ~regionOk => RefusedInv
  BY Zenon DEF MarksIInv, SmoothInv

LEMMA TakenFacts ==
    ASSUME MarksTypeOK, CommandInv
    PROVE  /\ Len(bubbles) \in Nat /\ Len(commands) \in Nat /\ Taken \in Nat /\ Taken \in 0..Len(bubbles)
           /\ Taken + Len(commands) = Len(bubbles)
<1>1. bubbles \in Seq(Bubble) /\ commands \in Seq(Messages)
  BY MarksTypes
<1>2. Len(commands) <= Len(bubbles)
  BY DEF CommandInv
<1> QED
  BY <1>1, <1>2 DEF Taken

LEMMA ComposeSmooth ==
    ASSUME MarksIInv, NEW m \in Messages, Compose(m), smooth'
    PROVE  Smoothly'
<1> DEFINE x == [msg |-> m, mark |-> "Pending", tag |-> NoTag]
<1>1. smooth /\ Len(commands) < CommandQueueCap
  BY Zenon DEF Compose
<1>2. /\ m \notin composed /\ composed' = composed \cup {m} /\ bubbles' = Append(bubbles, x)
      /\ commands' = Offer(commands, CommandQueueCap, m)
      /\ events' = events /\ outstanding' = outstanding /\ fate' = fate
  BY DEF Compose
<1>3. regionOk' = regionOk
  BY Zenon DEF Compose
<1>4. MarksTypeOK /\ SendInv /\ CommandInv
  BY <1>1, SmoothFacts
<1>5. /\ bubbles \in Seq(Bubble) /\ commands \in Seq(Messages) /\ events \in Seq(Event)
      /\ Len(commands) <= CommandQueueCap /\ CommandQueueCap \in Nat /\ outstanding \subseteq composed
  BY <1>4, MarksTypes
<1>6. x \in Bubble /\ x.msg = m /\ x.mark = "Pending" /\ x.tag = NoTag
  BY DEF Bubble, Marks
<1> HIDE DEF x
<1>7. commands' = Append(commands, m)
  BY <1>1, <1>2, <1>5, OfferFacts
<1>8. /\ Len(bubbles) \in Nat /\ Len(bubbles') = Len(bubbles) + 1 /\ bubbles'[Len(bubbles) + 1] = x
      /\ \A i \in 1..Len(bubbles) : bubbles'[i] = bubbles[i]
      /\ \A i \in 1..Len(bubbles') : i \in 1..Len(bubbles) \/ i = Len(bubbles) + 1
  BY <1>2, <1>5, <1>6, Grown
<1>9. /\ Len(commands) \in Nat /\ Len(commands') = Len(commands) + 1 /\ commands'[Len(commands) + 1] = m
      /\ \A i \in 1..Len(commands) : commands'[i] = commands[i]
      /\ \A i \in 1..Len(commands') : i \in 1..Len(commands) \/ i = Len(commands) + 1
  BY <1>5, <1>7, Grown
<1>10. Taken \in 0..Len(bubbles) /\ Taken + Len(commands) = Len(bubbles) /\ Taken \in Nat
  BY <1>4, TakenFacts
<1>11. Taken' = Taken
  BY <1>8, <1>9 DEF Taken
<1>12. \A i \in 1..Len(bubbles) : bubbles[i].msg \in composed /\ bubbles[i].msg # m
  BY <1>2, <1>4 DEF CommandInv
<1>13. CommandInv'
  <2>1. Len(commands') <= Len(bubbles')
    BY <1>8, <1>9, <1>10
  <2>2. ASSUME NEW j \in 1..Len(commands') PROVE commands'[j] = bubbles'[Taken + j].msg
    <3>1. CASE j \in 1..Len(commands)
      <4>1. Taken + j \in 1..Len(bubbles)
        BY <1>9, <1>10, <3>1
      <4>2. commands[j] = bubbles[Taken + j].msg
        BY <1>4, <3>1 DEF CommandInv
      <4> QED
        BY <1>8, <1>9, <3>1, <4>1, <4>2
    <3>2. CASE j = Len(commands) + 1
      <4>1. Taken + j = Len(bubbles) + 1
        BY <1>8, <1>9, <1>10, <3>2
      <4> QED
        BY <1>6, <1>8, <1>9, <3>2, <4>1
    <3> QED
      BY <1>9, <3>1, <3>2
  <2>3. \A i \in 1..Len(bubbles') : bubbles'[i].msg \in composed'
    BY <1>2, <1>6, <1>8, <1>12
  <2>4. Apart(bubbles')
    <3>1. ASSUME NEW i \in 1..Len(bubbles'), NEW j \in 1..Len(bubbles'), bubbles'[i].msg = bubbles'[j].msg
          PROVE  i = j
      <4>1. CASE i \in 1..Len(bubbles) /\ j \in 1..Len(bubbles)
        BY <1>4, <1>8, <3>1, <4>1 DEF CommandInv, Apart
      <4>2. CASE i = Len(bubbles) + 1 \/ j = Len(bubbles) + 1
        BY <1>6, <1>8, <1>12, <3>1, <4>2
      <4> QED
        BY <1>8, <4>1, <4>2
    <3> QED
      BY <3>1 DEF Apart
  <2>5. \A y \in outstanding' : \E i \in 1..Taken' : bubbles'[i].msg = y
    <3>1. \A i \in 1..Taken : i \in 1..Len(bubbles)
      BY <1>8, <1>10
    <3> QED
      BY <1>2, <1>4, <1>8, <1>11, <3>1 DEF CommandInv
  <2> QED
    BY <1>11, <2>1, <2>2, <2>3, <2>4, <2>5 DEF CommandInv
<1>14. ASSUME regionOk PROVE TagInv' /\ VerdictInv'
  <2>1. TagInv /\ VerdictInv
    BY <1>1, <1>14, SmoothFacts
  <2>2. TagsOK(bubbles, Taken, events) /\ VerdictsOK(bubbles, Taken, events, fate)
    BY <2>1 DEF TagInv, VerdictInv
  <2>3. fate[m] = "Pending"
    BY <1>2, <1>4 DEF SendInv
  <2>4. TagsOK(bubbles', Taken, events)
    BY <1>2, <1>5, <1>6, <1>10, <1>12, <2>2, TagsCompose
  <2>5. VerdictsOK(bubbles', Taken, events, fate)
    BY <1>2, <1>5, <1>6, <1>10, <2>2, <2>3, VerdictsCompose
  <2> QED
    BY <1>2, <1>11, <2>4, <2>5 DEF TagInv, VerdictInv
<1>15. ASSUME ~regionOk PROVE RefusedInv'
  <2>1. RefusedInv
    BY <1>1, <1>15, SmoothFacts
  <2>2. \A i \in 1..Len(bubbles') :
          /\ bubbles'[i].tag = NoTag /\ bubbles'[i].mark # "Acked"
          /\ i <= Taken => fate[bubbles'[i].msg] = "Undelivered"
    BY <1>6, <1>8, <1>10, <2>1 DEF RefusedInv
  <2>3. Cardinality(Pending(bubbles')) = Cardinality(Pending(bubbles)) + 1
    BY <1>2, <1>5, <1>6, PendingAppend
  <2>4. Cardinality(Pending(bubbles')) = Len(commands') + Len(events')
    BY <1>2, <1>5, <1>9, <2>1, <2>3 DEF RefusedInv
  <2> QED
    BY <1>2, <1>11, <2>1, <2>2, <2>4 DEF RefusedInv
<1> QED
  BY <1>3, <1>13, <1>14, <1>15, Zenon DEF Smoothly

\* The oldest command is the first bubble's not taken yet.
LEMMA TakeCommand ==
    ASSUME MarksIInv, smooth, commands # <<>>, commands' = Tail(commands), bubbles' = bubbles,
           composed' = composed
    PROVE  /\ Taken' = Taken + 1 /\ Taken \in Nat /\ Taken < Len(bubbles)
           /\ bubbles[Taken + 1].msg = Head(commands)
           /\ Len(commands') = Len(commands) - 1
           /\ (\A y \in outstanding' : \E i \in 1..(Taken + 1) : bubbles[i].msg = y) => CommandInv'
<1>1. MarksTypeOK /\ CommandInv
  BY SmoothFacts
<1>2. bubbles \in Seq(Bubble) /\ commands \in Seq(Messages)
  BY <1>1, MarksTypes
<1>3. /\ Len(commands) \in Nat /\ Len(commands) >= 1 /\ Len(commands') = Len(commands) - 1
      /\ Head(commands) = commands[1] /\ 1 \in 1..Len(commands)
      /\ \A i \in 1..Len(commands') : i + 1 \in 1..Len(commands) /\ commands'[i] = commands[i + 1]
  BY <1>2, Shifted
<1>4. Len(bubbles) \in Nat /\ Taken \in Nat /\ Taken + Len(commands) = Len(bubbles)
  BY <1>1, TakenFacts
<1>5. Taken' = Taken + 1
  BY <1>3, <1>4 DEF Taken
<1>6. bubbles[Taken + 1].msg = Head(commands)
  BY <1>1, <1>3 DEF CommandInv
<1>7. ASSUME \A y \in outstanding' : \E i \in 1..(Taken + 1) : bubbles[i].msg = y
      PROVE  CommandInv'
  <2>1. Len(commands') <= Len(bubbles')
    BY <1>3, <1>4
  <2>2. ASSUME NEW j \in 1..Len(commands') PROVE commands'[j] = bubbles'[Taken' + j].msg
    <3>1. j + 1 \in 1..Len(commands) /\ commands'[j] = commands[j + 1]
      BY <1>3
    <3>2. commands[j + 1] = bubbles[Taken + (j + 1)].msg
      BY <1>1, <3>1 DEF CommandInv
    <3>3. Taken + (j + 1) = Taken' + j
      BY <1>3, <1>4, <1>5
    <3> QED
      BY <3>1, <3>2, <3>3
  <2>3. (\A i \in 1..Len(bubbles') : bubbles'[i].msg \in composed') /\ Apart(bubbles')
    BY <1>1 DEF CommandInv
  <2>4. \A y \in outstanding' : \E i \in 1..Taken' : bubbles'[i].msg = y
    BY <1>5, <1>7
  <2> QED
    BY <2>1, <2>2, <2>3, <2>4 DEF CommandInv
<1> QED
  BY <1>3, <1>4, <1>5, <1>6, <1>7

LEMMA SendDmSmooth ==
    ASSUME MarksIInv, SendDm, smooth'
    PROVE  Smoothly'
<1> DEFINE m == Head(commands)
           ev == [kind |-> "DmQueued", msg |-> m]
<1>1. /\ commands # <<>> /\ commands' = Tail(commands) /\ outstanding' = outstanding \cup {m}
      /\ Raise("DmQueued", m) /\ bubbles' = bubbles /\ composed' = composed /\ fate' = fate
  BY DEF SendDm
<1>2. regionOk /\ regionOk'
  BY Zenon DEF SendDm
<1>3. MarksTypeOK
  BY DEF MarksIInv
<1>4. bubbles \in Seq(Bubble) /\ commands \in Seq(Messages) /\ events \in Seq(Event)
  BY <1>3, MarksTypes
<1>5. m \in Messages
  BY <1>1, <1>4
<1> HIDE DEF m
<1>6. "DmQueued" \in Kinds
  BY DEF Kinds
<1>7. ev \in Event /\ ev.kind = "DmQueued" /\ ev.msg = m /\ smooth /\ events' = Append(events, ev)
  BY <1>1, <1>3, <1>5, <1>6, RaiseFacts
<1> HIDE DEF ev
<1>8. CommandInv /\ TagInv /\ VerdictInv
  BY <1>2, <1>7, SmoothFacts
<1>9. /\ Taken' = Taken + 1 /\ Taken \in Nat /\ Taken < Len(bubbles) /\ bubbles[Taken + 1].msg = m
      /\ (\A y \in outstanding' : \E i \in 1..(Taken + 1) : bubbles[i].msg = y) => CommandInv'
  BY <1>1, <1>7, TakeCommand DEF m
<1>10. ASSUME NEW y \in outstanding' PROVE \E i \in 1..(Taken + 1) : bubbles[i].msg = y
  <2>1. CASE y = m
    BY <1>9, <2>1
  <2>2. CASE y \in outstanding
    <3>1. PICK i \in 1..Taken : bubbles[i].msg = y
      BY <1>8, <2>2 DEF CommandInv
    <3>2. i \in 1..(Taken + 1)
      BY <1>9
    <3> QED
      BY <3>1, <3>2
  <2> QED
    BY <1>1, <2>1, <2>2
<1>11. CommandInv'
  BY <1>9, <1>10
<1>12. Apart(bubbles)
  BY <1>8 DEF CommandInv
<1>13. TagsOK(bubbles, Taken + 1, events')
  BY <1>4, <1>7, <1>8, <1>9, <1>12, TagsSend DEF TagInv
<1>14. VerdictsOK(bubbles, Taken + 1, events', fate)
  BY <1>4, <1>7, <1>8, <1>9, <1>12, VerdictsSend DEF VerdictInv
<1>15. TagInv' /\ VerdictInv'
  BY <1>1, <1>9, <1>13, <1>14 DEF TagInv, VerdictInv
<1> QED
  BY <1>2, <1>11, <1>15, Zenon DEF Smoothly

LEMMA RefusedSmooth ==
    ASSUME MarksIInv, SendDmRefused, smooth'
    PROVE  Smoothly'
<1> DEFINE m == Head(commands)
           ev == [kind |-> "DmUndelivered", msg |-> m]
<1>1. /\ commands # <<>> /\ commands' = Tail(commands) /\ outstanding' = outstanding
      /\ Raise("DmUndelivered", m) /\ bubbles' = bubbles /\ composed' = composed
      /\ fate' = [fate EXCEPT ![m] = "Undelivered"]
  BY DEF SendDmRefused
<1>2. ~regionOk /\ ~regionOk'
  BY Zenon DEF SendDmRefused
<1>3. MarksTypeOK
  BY DEF MarksIInv
<1>4. /\ bubbles \in Seq(Bubble) /\ commands \in Seq(Messages) /\ events \in Seq(Event)
      /\ fate \in [Messages -> Marks]
  BY <1>3, MarksTypes
<1>5. m \in Messages
  BY <1>1, <1>4
<1> HIDE DEF m
<1>6. "DmUndelivered" \in Kinds
  BY DEF Kinds
<1>7. ev \in Event /\ ev.kind = "DmUndelivered" /\ smooth /\ events' = Append(events, ev)
  BY <1>1, <1>3, <1>5, <1>6, RaiseFacts
<1> HIDE DEF ev
<1>8. CommandInv /\ RefusedInv
  BY <1>2, <1>7, SmoothFacts
<1>9. /\ Taken' = Taken + 1 /\ Taken \in Nat /\ Taken < Len(bubbles) /\ bubbles[Taken + 1].msg = m
      /\ Len(commands') = Len(commands) - 1
      /\ (\A y \in outstanding' : \E i \in 1..(Taken + 1) : bubbles[i].msg = y) => CommandInv'
  BY <1>1, <1>7, TakeCommand DEF m
<1>10. CommandInv' /\ outstanding' = {}
  BY <1>1, <1>8, <1>9 DEF RefusedInv
<1>11. /\ Len(events) \in Nat /\ Len(events') = Len(events) + 1 /\ events'[Len(events) + 1] = ev
       /\ \A i \in 1..Len(events) : events'[i] = events[i]
       /\ \A i \in 1..Len(events') : i \in 1..Len(events) \/ i = Len(events) + 1
  BY <1>4, <1>7, Grown
<1>12. \A p \in 1..Len(events') : events'[p].kind = "DmUndelivered"
  BY <1>7, <1>8, <1>11 DEF RefusedInv
<1>13. ASSUME NEW i \in 1..Len(bubbles), i <= Taken + 1
       PROVE  fate'[bubbles[i].msg] = "Undelivered"
  <2>1. bubbles[i].msg \in Messages
    BY <1>4, BubbleFacts
  <2>2. i <= Taken \/ i = Taken + 1
    BY <1>9, <1>13
  <2>3. fate[bubbles[i].msg] = "Undelivered" \/ bubbles[i].msg = m
    BY <1>8, <1>9, <2>2 DEF RefusedInv
  <2> QED
    BY <1>1, <1>4, <2>1, <2>3
<1>14. Cardinality(Pending(bubbles)) = Len(commands') + Len(events')
  <2>1. Len(commands) \in Nat
    BY <1>4
  <2> QED
    BY <1>8, <1>9, <1>11, <2>1 DEF RefusedInv
<1>15. \A i \in 1..Len(bubbles) : bubbles[i].tag = NoTag /\ bubbles[i].mark # "Acked"
  BY <1>8 DEF RefusedInv
<1>16. RefusedInv'
  BY <1>1, <1>9, <1>10, <1>12, <1>13, <1>14, <1>15 DEF RefusedInv
<1> QED
  BY <1>2, <1>10, <1>16, Zenon DEF Smoothly

\* An ACK or a give-up.
LEMMA VerdictSmooth ==
    ASSUME MarksIInv, smooth', NEW m \in outstanding, outstanding' = outstanding \ {m},
           NEW kind \in {"DmAcked", "DmUndelivered"}, Raise(kind, m),
           NEW v, v = IF kind = "DmAcked" THEN "Acked" ELSE "Undelivered",
           fate' = [fate EXCEPT ![m] = v], regionOk' = regionOk,
           bubbles' = bubbles, commands' = commands, composed' = composed
    PROVE  Smoothly'
<1> DEFINE ev == [kind |-> kind, msg |-> m]
<1>1. MarksTypeOK /\ SendInv
  BY DEF MarksIInv
<1>2. /\ bubbles \in Seq(Bubble) /\ commands \in Seq(Messages) /\ events \in Seq(Event)
      /\ fate \in [Messages -> Marks] /\ m \in Messages
  BY <1>1, MarksTypes
<1>3. kind \in Kinds /\ v \in Marks
  BY DEF Kinds, Marks
<1>4. ev \in Event /\ ev.kind = kind /\ ev.msg = m /\ smooth /\ events' = Append(events, ev)
  BY <1>1, <1>2, <1>3, RaiseFacts
<1> HIDE DEF ev
<1>5. CommandInv /\ (regionOk => TagInv /\ VerdictInv) /\ (~regionOk => RefusedInv)
  BY <1>4, SmoothFacts, Zenon
<1>6. regionOk
  <2>1. ASSUME RefusedInv PROVE FALSE
    BY <2>1 DEF RefusedInv
  <2> QED
    BY <1>5, <2>1, Zenon
<1>7. TagInv /\ VerdictInv
  BY <1>5, <1>6, Zenon
<1>8. CommandInv' /\ Taken' = Taken
  BY <1>5 DEF CommandInv, Taken
<1>9. Taken \in 0..Len(bubbles)
  BY <1>1, <1>5, TakenFacts
<1>10. \E i \in 1..Taken : bubbles[i].msg = m
  BY <1>5 DEF CommandInv
<1>11. fate[m] = "Pending"
  BY <1>1 DEF SendInv
<1>12. fate'[m] = v /\ \A x \in Messages : x # m => fate'[x] = fate[x]
  BY <1>2
<1>13. Verdict(ev) /\ VerdictMark(ev) = v
  BY <1>4 DEF Verdict, VerdictMark
<1>14. TagsOK(bubbles, Taken, events')
  BY <1>2, <1>4, <1>7, TagsRaise DEF TagInv
<1>15. VerdictsOK(bubbles, Taken, events', fate')
  BY <1>2, <1>4, <1>7, <1>9, <1>10, <1>11, <1>12, <1>13, VerdictsRaise DEF VerdictInv
<1>16. TagInv' /\ VerdictInv'
  BY <1>8, <1>14, <1>15 DEF TagInv, VerdictInv
<1> QED
  BY <1>6, <1>8, <1>16, Zenon DEF Smoothly

LEMMA RxAckSmooth ==
    ASSUME MarksIInv, NEW m \in Messages, RxAck(m), smooth'
    PROVE  Smoothly'
<1>1. /\ m \in outstanding /\ outstanding' = outstanding \ {m} /\ Raise("DmAcked", m)
      /\ fate' = [fate EXCEPT ![m] = "Acked"]
      /\ bubbles' = bubbles /\ commands' = commands /\ composed' = composed
  BY DEF RxAck
<1>2. regionOk' = regionOk
  BY Zenon DEF RxAck
<1> QED
  BY <1>1, <1>2, VerdictSmooth

LEMMA GiveUpSmooth ==
    ASSUME MarksIInv, NEW m \in Messages, GiveUp(m), smooth'
    PROVE  Smoothly'
<1>1. /\ m \in outstanding /\ outstanding' = outstanding \ {m} /\ Raise("DmUndelivered", m)
      /\ fate' = [fate EXCEPT ![m] = "Undelivered"]
      /\ bubbles' = bubbles /\ commands' = commands /\ composed' = composed
  BY DEF GiveUp
<1>2. regionOk' = regionOk
  BY Zenon DEF GiveUp
<1> QED
  BY <1>1, <1>2, VerdictSmooth

\* The event taken changes no message and no command.
LEMMA CommandKept ==
    ASSUME MarksIInv, smooth, bubbles' \in Seq(Bubble), Len(bubbles') = Len(bubbles),
           \A i \in 1..Len(bubbles) : bubbles'[i].msg = bubbles[i].msg,
           commands' = commands, composed' = composed, outstanding' = outstanding
    PROVE  CommandInv' /\ Taken' = Taken
<1>1. MarksTypeOK /\ CommandInv
  BY SmoothFacts
<1>2. /\ Len(bubbles) \in Nat /\ Len(commands) \in Nat /\ Taken \in Nat
      /\ Taken \in 0..Len(bubbles) /\ Taken + Len(commands) = Len(bubbles)
  BY <1>1, TakenFacts
<1>3. Taken' = Taken
  BY DEF Taken
<1>4. \A j \in 1..Len(commands) : Taken + j \in 1..Len(bubbles)
  BY <1>2
<1>5. \A i \in 1..Taken : i \in 1..Len(bubbles)
  BY <1>2
<1>6. Len(commands') <= Len(bubbles') /\ \A j \in 1..Len(commands') : commands'[j] = bubbles'[Taken' + j].msg
  BY <1>1, <1>3, <1>4 DEF CommandInv
<1>7. \A i \in 1..Len(bubbles') : bubbles'[i].msg \in composed'
  BY <1>1 DEF CommandInv
<1>8. Apart(bubbles')
  BY <1>1 DEF CommandInv, Apart
<1>9. \A y \in outstanding' : \E i \in 1..Taken' : bubbles'[i].msg = y
  BY <1>1, <1>3, <1>5 DEF CommandInv
<1> QED
  BY <1>3, <1>6, <1>7, <1>8, <1>9 DEF CommandInv

LEMMA HandleVerdict ==
    ASSUME NEW b, NEW ev \in Event, Verdict(ev)
    PROVE  Handle(b, ev) = Mark(b, ev.msg, VerdictMark(ev)) /\ VerdictMark(ev) \in Marks
  BY DEF Handle, Verdict, VerdictMark, Marks

LEMMA UiTakeSmooth ==
    ASSUME MarksIInv, UiTake, smooth'
    PROVE  Smoothly'
<1> DEFINE ev == Head(events)
<1>1. /\ events # <<>> /\ events' = Tail(events) /\ bubbles' = Handle(bubbles, ev)
      /\ commands' = commands /\ composed' = composed /\ outstanding' = outstanding /\ fate' = fate
  BY DEF UiTake
<1>2. regionOk' = regionOk /\ smooth
  BY Zenon DEF UiTake
<1>3. MarksTypeOK /\ CommandInv
  BY <1>2, SmoothFacts
<1>4. bubbles \in Seq(Bubble) /\ commands \in Seq(Messages) /\ events \in Seq(Event)
  BY <1>3, MarksTypes
<1>5. /\ Len(events) \in Nat /\ Len(events) >= 1 /\ Len(events') = Len(events) - 1
      /\ ev = events[1] /\ ev \in Event /\ 1 \in 1..Len(events)
      /\ \A i \in 1..Len(events') : i + 1 \in 1..Len(events) /\ events'[i] = events[i + 1]
  BY <1>1, <1>4, Shifted
<1>6. ev.msg \in Messages /\ ev.msg # NoTag /\ (ev.kind = "DmQueued" \/ Verdict(ev))
  BY <1>5, DeliveryMarksAssumption DEF Event, Verdict
<1>7. /\ bubbles' \in Seq(Bubble) /\ Len(bubbles') = Len(bubbles)
      /\ \A i \in 1..Len(bubbles) : bubbles'[i].msg = bubbles[i].msg
  BY <1>1, <1>4, <1>5, HandleMarks
<1>8. CommandInv' /\ Taken' = Taken
  BY <1>1, <1>2, <1>7, CommandKept
<1>9. Taken \in 0..Len(bubbles) /\ Apart(bubbles)
  BY <1>3, TakenFacts DEF CommandInv
<1>10. ASSUME regionOk PROVE TagInv' /\ VerdictInv'
  <2>1. TagInv /\ VerdictInv
    BY <1>2, <1>10, SmoothFacts
  <2>2. TagsOK(bubbles, Taken, events) /\ VerdictsOK(bubbles, Taken, events, fate)
    BY <2>1 DEF TagInv, VerdictInv
  <2>3. CASE ev.kind = "DmQueued"
    <3>1. bubbles' = TagOldestUntagged(bubbles, ev.msg)
      BY <1>1, <2>3 DEF Handle
    <3>2. PICK k \in 1..Len(bubbles) : Retagged(bubbles, bubbles', k, ev.msg) /\ bubbles[k].msg = ev.msg
      BY <1>1, <1>4, <1>9, <2>2, <2>3, <3>1, TagsQueued
    <3>3. TagsOK(bubbles', Taken, events')
      BY <1>1, <1>4, <1>7, <1>9, <2>2, <2>3, <3>2, TagsTaken
    <3>4. VerdictsOK(bubbles', Taken, events', fate)
      BY <1>1, <1>4, <1>7, <1>9, <2>2, <2>3, <3>2, VerdictsTaken
    <3> QED
      BY <1>1, <1>8, <3>3, <3>4 DEF TagInv, VerdictInv
  <2>4. CASE Verdict(ev)
    <3>1. bubbles' = Mark(bubbles, ev.msg, VerdictMark(ev))
      BY <1>1, <1>5, <2>4, HandleVerdict
    <3>2. PICK k \in 1..Len(bubbles) : /\ Remarked(bubbles, bubbles', k, VerdictMark(ev))
                                       /\ bubbles[k].msg = ev.msg /\ bubbles[k].tag # NoTag
      BY <1>1, <1>4, <1>9, <2>2, <2>4, <3>1, VerdictFinds
    <3>3. ev.kind # "DmQueued"
      BY <2>4 DEF Verdict
    <3>4. TagsOK(bubbles', Taken, events')
      BY <1>1, <1>4, <1>7, <1>9, <2>2, <3>2, <3>3, TagsTaken
    <3>5. VerdictsOK(bubbles', Taken, events', fate)
      BY <1>1, <1>4, <1>7, <1>9, <2>2, <2>4, <3>2, VerdictsTaken
    <3> QED
      BY <1>1, <1>8, <3>4, <3>5 DEF TagInv, VerdictInv
  <2> QED
    BY <1>6, <2>3, <2>4
<1>11. ASSUME ~regionOk PROVE RefusedInv'
  <2>1. RefusedInv
    BY <1>2, <1>11, SmoothFacts
  <2>2. ev.kind = "DmUndelivered"
    BY <1>5, <2>1 DEF RefusedInv
  <2>3. bubbles' = Mark(bubbles, ev.msg, "Undelivered")
    BY <1>1, <2>2 DEF Handle
  <2>4. Tagged(bubbles, ev.msg) = {}
    BY <1>6, <2>1 DEF RefusedInv, Tagged
  <2>5. Cardinality(Pending(bubbles)) = Len(commands) + Len(events)
    BY <2>1 DEF RefusedInv
  <2>6. Pending(bubbles) # {}
    <3>1. Len(commands) \in Nat
      BY <1>4
    <3>2. Cardinality(Pending(bubbles)) # 0
      BY <1>5, <2>5, <3>1
    <3>3. Cardinality({}) = 0
      BY FS_EmptySet
    <3> QED
      BY <3>2, <3>3
  <2>7. "Undelivered" \in Marks
    BY DEF Marks
  <2> HIDE DEF ev
  <2>8. PICK k \in 1..Len(bubbles) : k \in Pending(bubbles) /\ Remarked(bubbles, bubbles', k, "Undelivered")
    BY <1>4, <1>6, <2>3, <2>4, <2>6, <2>7, MarkFacts
  <2>9. Cardinality(Pending(bubbles')) = Cardinality(Pending(bubbles)) - 1
    BY <1>4, <1>7, <2>8, PendingRemark
  <2>10. Cardinality(Pending(bubbles')) = Len(commands') + Len(events')
    <3>1. Len(commands) \in Nat
      BY <1>4
    <3> QED
      BY <1>1, <1>5, <2>5, <2>9, <3>1
  <2>11. \A i \in 1..Len(bubbles') :
          /\ bubbles'[i].tag = NoTag /\ bubbles'[i].mark # "Acked"
          /\ i <= Taken => fate[bubbles'[i].msg] = "Undelivered"
    BY <1>7, <2>1, <2>8 DEF RefusedInv, Remarked
  <2>12. \A p \in 1..Len(events') : events'[p].kind = "DmUndelivered"
    BY <1>5, <2>1 DEF RefusedInv
  <2>13. outstanding' = {}
    BY <1>1, <2>1 DEF RefusedInv
  <2> QED
    BY <1>1, <1>8, <2>10, <2>11, <2>12, <2>13 DEF RefusedInv
<1> QED
  BY <1>2, <1>8, <1>10, <1>11, Zenon DEF Smoothly

-----------------------------------------------------------------------------
LEMMA MarksStep ==
    ASSUME Counted', smooth' => Smoothly'
    PROVE  MarksIInv'
  BY Zenon DEF MarksIInv, Counted, SmoothInv, Smoothly

LEMMA MarksInitIInv ==
    ASSUME MarksInit
    PROVE  MarksIInv
<1>1. /\ bubbles = <<>> /\ commands = <<>> /\ events = <<>> /\ composed = {} /\ outstanding = {}
      /\ fate = [m \in Messages |-> "Pending"] /\ region = <<>> /\ reboots = 0
  BY DEF MarksInit
<1>2. regionOk \in BOOLEAN /\ smooth \in BOOLEAN
  BY Zenon DEF MarksInit
<1>3. MarksTypeOK
  <2>1. /\ bubbles \in Seq(Bubble) /\ commands \in Seq(Messages) /\ events \in Seq(Event)
        /\ Len(commands) <= CommandQueueCap /\ Len(events) <= EventQueueCap
        /\ composed \subseteq Messages /\ outstanding \subseteq composed /\ reboots \in 0..MaxReboots
    BY <1>1, DeliveryMarksAssumption
  <2>2. region \in Seq([msg : Messages, acked : BOOLEAN])
    BY <1>1
  <2>3. fate \in [Messages -> Marks]
    BY <1>1 DEF Marks
  <2> QED
    BY <1>2, <2>1, <2>2, <2>3, Zenon DEF MarksTypeOK
<1>4. SendInv
  BY <1>1 DEF SendInv, KeptIn
<1>5. CountInv
  <2>1. Blue(bubbles) = {} /\ AckEvents(events) = {} /\ AckedMessages = {}
    BY <1>1 DEF Blue, AckEvents, AckedMessages
  <2>2. (1..Len(region)) \ Unacked(region) = {}
    BY <1>1
  <2>3. Cardinality({}) = 0
    BY FS_EmptySet
  <2>4. Cardinality(Blue(bubbles)) = 0 /\ Cardinality(AckEvents(events)) = 0 /\ Cardinality(AckedMessages) = 0
    BY <2>1, <2>3
  <2>5. FlashCountsAcks
    BY <2>2, <2>3, <2>4 DEF FlashCountsAcks
  <2> QED
    BY <2>4, <2>5 DEF CountInv
<1>6. CommandInv
  BY <1>1 DEF CommandInv, Apart, Taken
<1>7. TagInv /\ VerdictInv
  BY <1>1 DEF TagInv, VerdictInv, TagsOK, VerdictsOK
<1>8. RefusedInv
  <2>1. Pending(bubbles) = {}
    BY <1>1 DEF Pending
  <2> QED
    BY <1>1, <2>1, FS_EmptySet DEF RefusedInv
<1> QED
  BY <1>3, <1>4, <1>5, <1>6, <1>7, <1>8, Zenon DEF MarksIInv, SmoothInv

LEMMA MarksNextIInv ==
    ASSUME MarksIInv, [MarksNext]_marksVars
    PROVE  MarksIInv'
<1>1. CASE \E m \in Messages : Compose(m)
  <2>1. PICK m \in Messages : Compose(m)
    BY <1>1
  <2> QED
    BY <2>1, ComposeCounted, ComposeSmooth, MarksStep
<1>2. CASE \E m \in Messages : RxAck(m)
  <2>1. PICK m \in Messages : RxAck(m)
    BY <1>2
  <2> QED
    BY <2>1, RxAckCounted, RxAckSmooth, MarksStep
<1>3. CASE \E m \in Messages : GiveUp(m)
  <2>1. PICK m \in Messages : GiveUp(m)
    BY <1>3
  <2> QED
    BY <2>1, GiveUpCounted, GiveUpSmooth, MarksStep
<1>4. CASE SendDm
  BY <1>4, SendDmCounted, SendDmSmooth, MarksStep
<1>5. CASE SendDmRefused
  BY <1>5, RefusedCounted, RefusedSmooth, MarksStep
<1>6. CASE UiTake
  BY <1>6, UiTakeCounted, UiTakeSmooth, MarksStep
<1>7. CASE MarksReboot
  <2>1. ~smooth'
    BY <1>7, Zenon DEF MarksReboot
  <2> QED
    BY <1>7, <2>1, RebootCounted, MarksStep
<1>8. CASE UNCHANGED marksVars
  <2>1. /\ bubbles' = bubbles /\ commands' = commands /\ events' = events /\ composed' = composed
        /\ outstanding' = outstanding /\ fate' = fate /\ region' = region /\ reboots' = reboots
        /\ regionOk' = regionOk /\ smooth' = smooth
    BY <1>8, Zenon DEF marksVars
  <2>2. MarksTypeOK'
    BY <2>1, Zenon DEF MarksIInv, MarksTypeOK
  <2>3. SendInv'
    BY <2>1 DEF MarksIInv, SendInv, KeptIn
  <2>4. CountInv'
    BY <2>1, Zenon DEF MarksIInv, CountInv, Blue, AckEvents, FlashCountsAcks, Unacked, AckedMessages
  <2>5. SmoothInv'
    <3>1. /\ CommandInv' <=> CommandInv
          /\ TagInv' <=> TagInv
          /\ VerdictInv' <=> VerdictInv
      BY <2>1 DEF CommandInv, Taken, TagInv, VerdictInv
    <3>2. RefusedInv' <=> RefusedInv
      BY <2>1, Zenon DEF RefusedInv, Taken, Pending
    <3> QED
      BY <2>1, <3>1, <3>2, Zenon DEF MarksIInv, SmoothInv
  <2> QED
    BY <2>2, <2>3, <2>4, <2>5, Zenon DEF MarksIInv
<1> QED
  BY <1>1, <1>2, <1>3, <1>4, <1>5, <1>6, <1>7, <1>8, Zenon DEF MarksNext

(***************************************************************************)
(* The inductive invariant holds, for any messages and any queue bounds.   *)
(***************************************************************************)
LEMMA MarksIInvHolds == MarksSpec => []MarksIInv
<1>1. MarksInit => MarksIInv
  BY MarksInitIInv
<1>2. MarksIInv /\ [MarksNext]_marksVars => MarksIInv'
  BY MarksNextIInv
<1> QED
  BY <1>1, <1>2, PTL DEF MarksSpec

(***************************************************************************)
(* The conversation never shows more blue checks than ACKs were received   *)
(* and flash holds exactly one ack bit per ACK, for any number of messages *)
(* and reboots and any queue bounds (UiRuntime's event handler,            *)
(* mark_last_ours_acked).                                                  *)
(***************************************************************************)
THEOREM MarksHold == MarksSpec => []MarksInv
<1>1. ASSUME MarksIInv PROVE MarksInv
  <2>1. MarksTypeOK /\ CountInv
    BY <1>1 DEF MarksIInv
  <2>2. bubbles \in Seq(Bubble) /\ events \in Seq(Event) /\ region \in Seq(Entry)
    BY <2>1, MarksTypes
  <2>3. Cardinality(Blue(bubbles)) \in Nat /\ Cardinality(AckEvents(events)) \in Nat
    BY <2>2, BlueNat, EventCount
  <2>4. Cardinality(AckedBits(region)) \in Nat /\ Cardinality(AckedBits(region)) = Cardinality(AckedMessages)
    BY <2>1, <2>2, BitsFacts DEF CountInv, FlashCountsAcks, AckedBits
  <2>5. Cardinality(Blue(bubbles)) <= Cardinality(AckedMessages)
    BY <2>1, <2>3, <2>4 DEF CountInv
  <2>6. NoExtraAcks
    BY <2>5 DEF NoExtraAcks, Blue
  <2> QED
    BY <2>1, <2>6 DEF MarksInv, CountInv
<1> QED
  BY <1>1, MarksIInvHolds, PTL

(***************************************************************************)
(* Once the queues are drained every bubble shows what became of its own   *)
(* message, for any number of messages, any interleaving of sends, ACKs,   *)
(* give-ups and the two queues (tag_oldest_untagged_outbound,              *)
(* mark_delivery_by_ack_hash), as long as nothing was dropped.             *)
(***************************************************************************)
THEOREM QuietHolds == MarksSpec => []QuietAgrees
<1>1. ASSUME MarksIInv PROVE QuietAgrees
  <2>1. SUFFICES ASSUME smooth, commands = <<>>, events = <<>>, NEW i \in 1..Len(bubbles)
                 PROVE  bubbles[i].mark = fate[bubbles[i].msg]
    BY Zenon DEF QuietAgrees
  <2>2. /\ MarksTypeOK /\ CommandInv /\ (regionOk => TagInv /\ VerdictInv) /\ (~regionOk => RefusedInv)
    BY <1>1, <2>1, SmoothFacts, Zenon
  <2>3. bubbles \in Seq(Bubble) /\ Len(commands) = 0 /\ Len(events) = 0
    BY <2>1, <2>2, MarksTypes
  <2>4. CASE regionOk
    <3>1. VerdictInv
      BY <2>2, <2>4, Zenon
    <3> QED
      BY <2>1, <2>3, <3>1 DEF VerdictInv, VerdictsOK
  <2>5. CASE ~regionOk
    <3>1. RefusedInv
      BY <2>2, <2>5, Zenon
    <3>2. Cardinality(Pending(bubbles)) = 0
      BY <2>3, <3>1 DEF RefusedInv
    <3>3. Pending(bubbles) = {}
      BY <2>3, <3>2, PendingCount, FS_EmptySet
    <3>4. i <= Taken
      BY <2>3 DEF Taken
    <3>5. bubbles[i].mark \in Marks /\ bubbles[i].mark # "Pending" /\ bubbles[i].mark # "Acked"
      BY <2>3, <3>1, <3>3, BubbleFacts DEF Pending, RefusedInv
    <3> QED
      BY <3>1, <3>4, <3>5 DEF RefusedInv, Marks
  <2> QED
    BY <2>4, <2>5
<1> QED
  BY <1>1, MarksIInvHolds, PTL

=============================================================================
