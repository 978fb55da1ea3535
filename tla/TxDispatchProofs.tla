-------------------------- MODULE TxDispatchProofs --------------------------
(***************************************************************************)
(* TxDispatch is type correct and keeps its table and its verdicts in step *)
(* for every number of sends, slots and retries.                           *)
(***************************************************************************)
EXTENDS TxDispatch, TLAPS

Tags == Sends \cup {NoTag}

(***************************************************************************)
(* Lemmas about the operators.                                             *)
(***************************************************************************)

\* TxQueue::enqueue never outgrows its slots and keeps the frames' tags.
LEMMA EnqueueType ==
    ASSUME NEW q \in Seq(Tags), Len(q) <= TxQueueSlots, NEW t \in Tags
    PROVE  Enqueue(q, t) \in Seq(Tags) /\ Len(Enqueue(q, t)) <= TxQueueSlots
<1>1. CASE Full(q)
  <2>1. q # <<>> /\ Len(q) = TxQueueSlots
    BY <1>1, TxDispatchAssumption DEF Full
  <2>2. Tail(q) \in Seq(Tags) /\ Len(Tail(q)) = Len(q) - 1
    BY <2>1
  <2>3. Len(Tail(q)) \in Nat
    BY <2>2
  <2> QED
    BY <1>1, <2>1, <2>2, <2>3, TxDispatchAssumption DEF Enqueue
<1>2. CASE ~Full(q)
  BY <1>2, TxDispatchAssumption DEF Enqueue, Full
<1> QED
  BY <1>1, <1>2

\* What enqueue drops is the tag of a queued frame.
LEMMA DroppedType ==
    ASSUME NEW q \in Seq(Tags)
    PROVE  Dropped(q) \subseteq Tags
<1>1. CASE Full(q)
  <2>1. q # <<>>
    BY <1>1, TxDispatchAssumption DEF Full
  <2> QED
    BY <1>1, <2>1 DEF Dropped
<1>2. CASE ~Full(q)
  BY <1>2 DEF Dropped
<1> QED
  BY <1>1, <1>2

\* Resolving an entry leaves a table.
LEMMA ResolveType ==
    ASSUME NEW table \in [Slots -> Entry \cup {NoSend}], NEW tags
    PROVE  Resolve(table, tags) \in [Slots -> Entry \cup {NoSend}]
BY DEF Resolve

\* Raising an event leaves a verdict for every send.
LEMMA RaiseType ==
    ASSUME NEW vd \in [Sends -> Verdicts], NEW table, NEW tags, NEW v \in Verdicts
    PROVE  Raise(vd, table, tags, v) \in [Sends -> Verdicts]
BY DEF Raise

\* The sweep's update of a retried entry is an entry for the same send.
LEMMA RetriedEntry ==
    ASSUME NEW e \in Entry, e.attempts < MaxSendRetries
    PROVE  LET f == [e EXCEPT !.attempts = @ + 1,
                              !.deadline = RetryBackoff(e.attempts + 1)]
           IN  f \in Entry /\ f # NoSend /\ f.send = e.send
                           /\ f.attempts = e.attempts + 1
<1>1. e.attempts + 1 \in 0..MaxSendRetries
  BY TxDispatchAssumption DEF Entry
<1>2. RetryBackoff(e.attempts + 1) \in Nat
  BY <1>1, TxDispatchAssumption DEF RetryBackoff
<1> QED
  BY <1>1, <1>2, NoSendAssumption DEF Entry

\* A tick's update of an entry is an entry for the same send.
LEMMA AgedEntry ==
    ASSUME NEW e \in Entry
    PROVE  LET f == [e EXCEPT !.age = @ + 1, !.deadline = Sooner(@)]
           IN  f \in Entry /\ f # NoSend /\ f.send = e.send
                           /\ f.attempts = e.attempts
<1>1. e.age + 1 \in Nat /\ Sooner(e.deadline) \in Nat
  BY DEF Entry, Sooner
<1> QED
  BY <1>1, NoSendAssumption DEF Entry

-----------------------------------------------------------------------------
\* The initial state is well typed.
LEMMA InitType == Init => TypeOK
BY TxDispatchAssumption DEF Init, TypeOK, Phases, Slots, Verdicts

\* Queueing an untracked frame keeps the queue, the table and the verdicts typed.
LEMMA UntrackedType ==
    ASSUME TypeOK, EnqueueUntracked
    PROVE  /\ txq' \in Seq(Tags) /\ Len(txq') <= TxQueueSlots
           /\ outstanding' \in [Slots -> Entry \cup {NoSend}]
           /\ verdict' \in [Sends -> Verdicts]
<1>1. NoTag \in Tags /\ "evicted" \in Verdicts
  BY DEF Tags, Verdicts
<1>2. txq \in Seq(Tags) /\ Len(txq) <= TxQueueSlots
  BY DEF TypeOK, Tags
<1> QED
  BY <1>1, <1>2, EnqueueType, ResolveType, RaiseType DEF EnqueueUntracked, TypeOK

\* The sweep's visit of one slot keeps every variable typed.
LEMMA SweepType ==
    ASSUME TypeOK, SweepSkip \/ SweepRetry \/ SweepGiveUp
    PROVE  TypeOK'
<1>1. NextSlot => slot' \in Slots /\ phase' \in Phases
  BY TxDispatchAssumption DEF NextSlot, TypeOK, Slots, Phases
<1>2. CASE SweepSkip
  BY <1>1, <1>2 DEF SweepSkip, TypeOK
<1>3. CASE SweepRetry
  <2> DEFINE e == outstanding[slot]
             f == [e EXCEPT !.attempts = @ + 1,
                            !.deadline = RetryBackoff(e.attempts + 1)]
  <2>1. e \in Entry /\ e.attempts < MaxSendRetries
    BY <1>3 DEF SweepRetry, Matured, MayRetry, TypeOK
  <2>3. f \in Entry
    BY <2>1, RetriedEntry
  <2>4. outstanding' \in [Slots -> Entry \cup {NoSend}]
    BY <1>3, <2>3 DEF SweepRetry, TypeOK
  <2>5. e.send \in Sends /\ e.send \in Tags
    BY <2>1 DEF Entry, Tags
  <2>6. txq \in Seq(Tags) /\ Len(txq) <= TxQueueSlots /\ evictions \in Seq(Tags)
    BY DEF TypeOK, Tags
  <2>7. txq' \in Seq(Tags) /\ Len(txq') <= TxQueueSlots
    BY <1>3, <2>5, <2>6, EnqueueType DEF SweepRetry
  <2>8. evictions' \in Seq(Tags)
    <3>1. CASE Full(txq)
      <4>1. Head(txq) \in Tags
        BY <3>1, <2>6, TxDispatchAssumption DEF Full
      <4> QED
        BY <1>3, <3>1, <4>1, <2>6 DEF SweepRetry
    <3>2. CASE ~Full(txq)
      BY <1>3, <3>2, <2>6 DEF SweepRetry
    <3> QED
      BY <3>1, <3>2
  <2>9. enqueued' \in [Sends -> Nat]
    BY <1>3, <2>5 DEF SweepRetry, TypeOK
  <2> QED
    BY <1>1, <1>3, <2>4, <2>7, <2>8, <2>9 DEF SweepRetry, TypeOK, Tags
<1>4. CASE SweepGiveUp
  BY <1>1, <1>4 DEF SweepGiveUp, TypeOK, Matured, Entry, Verdicts
<1> QED
  BY <1>2, <1>3, <1>4

\* Resolving the sweep's evictions keeps every variable typed.
LEMMA ResolveStepType ==
    ASSUME TypeOK, ResolveEviction \/ ResolveDone
    PROVE  TypeOK'
<1>1. CASE ResolveEviction
  <2>1. "evicted" \in Verdicts
    BY DEF Verdicts
  <2>2. evictions' \in Seq(Sends \cup {NoTag})
    BY <1>1 DEF ResolveEviction, TypeOK
  <2>3. /\ verdict' \in [Sends -> Verdicts]
        /\ outstanding' \in [Slots -> Entry \cup {NoSend}]
    BY <1>1, <2>1, RaiseType, ResolveType DEF ResolveEviction, TypeOK
  <2> QED
    BY <1>1, <2>2, <2>3 DEF ResolveEviction, TypeOK
<1>2. CASE ResolveDone
  BY <1>2 DEF ResolveDone, TypeOK, Phases
<1> QED
  BY <1>1, <1>2

\* The room scheduler keeps every variable typed.
LEMMA SchedType == ASSUME TypeOK, Sched PROVE TypeOK'
<1>1. CASE EnqueueUntracked
  BY <1>1, UntrackedType DEF Sched, TypeOK, Phases, Tags
<1>2. CASE UNCHANGED <<txq, verdict, outstanding>>
  BY <1>2 DEF Sched, TypeOK, Phases
<1> QED
  BY <1>1, <1>2 DEF Sched

\* The CAD + TX block keeps every variable typed.
LEMMA CadTxType == ASSUME TypeOK, CadTx PROVE TypeOK'
<1>1. CASE TxSkip
  BY <1>1 DEF TxSkip, TypeOK, Phases
<1>2. CASE TxDefer
  BY <1>2, TxDispatchAssumption DEF TxDefer, TypeOK, Phases
<1>3. CASE CadError
  BY <1>3, TxDispatchAssumption DEF CadError, TypeOK, Phases
<1>4. CASE Transmit
  <2>1. txq # <<>> /\ txq \in Seq(Sends \cup {NoTag}) /\ Len(txq) <= TxQueueSlots
    BY <1>4 DEF Transmit, TxGate, TypeOK
  <2>2. txq' \in Seq(Sends \cup {NoTag}) /\ Len(txq') <= TxQueueSlots
    BY <1>4, <2>1, TxDispatchAssumption DEF Transmit
  <2>3. onAir' \in [Sends -> Nat]
    BY <1>4 DEF Transmit, TypeOK
  <2> QED
    BY <1>4, <2>2, <2>3, TxDispatchAssumption DEF Transmit, TypeOK, Phases
<1> QED
  BY <1>1, <1>2, <1>3, <1>4 DEF CadTx

\* The RX poll keeps every variable typed.
LEMMA RxPollType == ASSUME TypeOK, RxPoll PROVE TypeOK'
<1>1. ASSUME NEW s \in Sends, RxAck(s) PROVE TypeOK'
  <2>1. "acked" \in Verdicts
    BY DEF Verdicts
  <2> QED
    BY <1>1, <2>1, RaiseType, ResolveType DEF RxAck, TypeOK, Phases
<1>2. CASE RxReply
  BY <1>2, UntrackedType DEF RxReply, TypeOK, Phases, Tags
<1>3. CASE RxPermission
  BY <1>3 DEF RxPermission, TypeOK, Phases
<1>4. CASE RxNothing
  BY <1>4 DEF RxNothing, TypeOK, Phases
<1> QED
  BY <1>1, <1>2, <1>3, <1>4 DEF RxPoll

\* The UI command drain keeps every variable typed.
LEMMA UiCommandType == ASSUME TypeOK, UiCommand PROVE TypeOK'
<1>1. ASSUME NEW s \in Sends, CmdSend(s) PROVE TypeOK'
  <2>1. s \in Tags /\ "evicted" \in Verdicts /\ NewEntry(s) \in Entry
    BY TxDispatchAssumption DEF Tags, Verdicts, NewEntry, Entry
  <2> DEFINE table == Resolve(outstanding, Dropped(txq))
             vd    == Raise(verdict, outstanding, Dropped(txq), "evicted")
  <2>2. table \in [Slots -> Entry \cup {NoSend}] /\ vd \in [Sends -> Verdicts]
    BY <2>1, ResolveType, RaiseType DEF TypeOK
  <2>3. PICK i \in Slots :
          /\ outstanding' = [table EXCEPT ![i] = NewEntry(s)]
          /\ verdict' = [t \in Sends |-> IF t = s THEN "pending"
                                         ELSE IF Tracks(table, i, t) THEN "undelivered"
                                         ELSE vd[t]]
    BY <1>1 DEF CmdSend
  <2> HIDE DEF table, vd
  <2>4. outstanding' \in [Slots -> Entry \cup {NoSend}]
    BY <2>1, <2>2, <2>3
  <2>5. verdict' \in [Sends -> Verdicts]
    BY <2>2, <2>3 DEF Verdicts
  <2>6. txq' \in Seq(Tags) /\ Len(txq') <= TxQueueSlots
    BY <1>1, <2>1, EnqueueType DEF CmdSend, TypeOK, Tags
  <2>7. enqueued' \in [Sends -> Nat]
    BY <1>1 DEF CmdSend, TypeOK
  <2> QED
    BY <1>1, <2>4, <2>5, <2>6, <2>7 DEF CmdSend, TypeOK, Tags
<1>2. ASSUME NEW s \in Sends, CmdRefuse(s) PROVE TypeOK'
  BY <1>2 DEF CmdRefuse, TypeOK, Verdicts
<1>3. CASE CmdChannel
  BY <1>3, UntrackedType DEF CmdChannel, TypeOK, Tags
<1> QED
  BY <1>1, <1>2, <1>3 DEF UiCommand

\* The passage of time keeps every variable typed.
LEMMA TickType == ASSUME TypeOK, Tick PROVE TypeOK'
<1>1. \A n \in Nat : Sooner(n) \in Nat /\ Sooner(n) <= n
  BY DEF Sooner
<1>2. cadBackoff' \in 0..CadBackoff
  <2>1. cadBackoff \in Nat /\ cadBackoff <= CadBackoff /\ CadBackoff \in Nat
    BY TxDispatchAssumption DEF TypeOK
  <2>2. cadBackoff' = Sooner(cadBackoff)
    BY DEF Tick
  <2> QED
    BY <1>1, <2>1, <2>2
<1>3. ASSUME NEW i \in Slots, outstanding[i] # NoSend
      PROVE  [outstanding[i] EXCEPT !.age = @ + 1, !.deadline = Sooner(@)] \in Entry
  BY <1>3, AgedEntry DEF TypeOK
<1>4. outstanding' \in [Slots -> Entry \cup {NoSend}]
  BY <1>3 DEF Tick
<1> QED
  BY <1>2, <1>4 DEF Tick, TypeOK, Phases

(***************************************************************************)
(* The dispatcher's transmit state is well typed: the queue never exceeds  *)
(* TX_QUEUE_SLOTS, the CAD streak never reaches its limit and no entry has *)
(* more than MAX_SEND_RETRIES attempts.                                    *)
(***************************************************************************)
THEOREM TypeCorrect == Spec => []TypeOK
<1>1. TypeOK /\ [Next]_vars => TypeOK'
  <2> SUFFICES ASSUME TypeOK, [Next]_vars PROVE TypeOK'
    OBVIOUS
  <2>1. CASE Sweep
    BY <2>1, SweepType, ResolveStepType DEF Sweep
  <2>2. CASE LoopAgain
    BY <2>2 DEF LoopAgain, TypeOK, Phases
  <2>3. CASE UNCHANGED vars
    BY <2>3 DEF vars, TypeOK
  <2> QED
    BY <2>1, <2>2, <2>3, SchedType, CadTxType, RxPollType, UiCommandType, TickType
       DEF Next
<1> QED
  BY <1>1, InitType, PTL DEF Spec

-----------------------------------------------------------------------------
(***************************************************************************)
(* The table and the verdicts stay in step.                                *)
(***************************************************************************)

Table == [Slots -> Entry \cup {NoSend}]

\* Resolving sends with a final verdict keeps table and verdicts in step, and
\* changes only verdicts that were pending.
LEMMA ResolveInStep ==
    ASSUME NEW table \in Table, NEW vd \in [Sends -> Verdicts], NEW tags,
           NEW v \in Final, InStep(vd, table)
    PROVE  /\ InStep(Raise(vd, table, tags, v), Resolve(table, tags))
           /\ \A s \in Sends : Raise(vd, table, tags, v)[s] # vd[s] => vd[s] = "pending"
<1> DEFINE t2 == Resolve(table, tags)
           vd2 == Raise(vd, table, tags, v)
<1>1. ASSUME NEW s \in Sends, NEW i \in Slots
      PROVE  Tracks(t2, i, s) <=> Tracks(table, i, s) /\ s \notin tags
  BY DEF Resolve, Tracks
<1>2. ASSUME NEW s \in Sends
      PROVE  vd2[s] = IF s \in tags /\ Tracked(table, s) THEN v ELSE vd[s]
  BY DEF Raise
<1>3. v # "pending"
  BY DEF Final
<1> HIDE DEF t2, vd2
<1>4. ASSUME NEW s \in Sends
      PROVE  Tracked(t2, s) <=> Tracked(table, s) /\ s \notin tags
  BY <1>1 DEF Tracked
<1>5. \A s \in Sends : vd2[s] = "pending" <=> Tracked(t2, s)
  BY <1>2, <1>3, <1>4 DEF InStep
<1>6. \A s \in Sends : \A i, j \in Slots :
          Tracks(t2, i, s) /\ Tracks(t2, j, s) => i = j
  BY <1>1 DEF InStep
<1>7. \A s \in Sends : vd2[s] # vd[s] => vd[s] = "pending"
  BY <1>2 DEF InStep
<1> QED
  BY <1>5, <1>6, <1>7 DEF InStep, t2, vd2

\* A table that tracks the same sends in the same slots stays in step.
LEMMA SameSendsInStep ==
    ASSUME NEW table \in Table, NEW t2 \in Table, NEW vd, InStep(vd, table),
           \A i \in Slots : /\ table[i] = NoSend <=> t2[i] = NoSend
                            /\ table[i] # NoSend => t2[i].send = table[i].send
    PROVE  InStep(vd, t2)
<1>1. \A i \in Slots, s \in Sends : Tracks(t2, i, s) <=> Tracks(table, i, s)
  BY DEF Tracks
<1>2. \A s \in Sends : Tracked(t2, s) <=> Tracked(table, s)
  BY <1>1 DEF Tracked
<1> QED
  BY <1>1, <1>2 DEF InStep

\* A final verdict is not changed.
Settled == \A s \in Sends : verdict[s] \in Final => verdict'[s] = verdict[s]

\* What every step keeps: the next table and verdicts are in step, and no
\* final verdict changes.
Keeps == PendingIffTracked' /\ Settled

\* Resolving tags in the current state keeps the invariant.
LEMMA ResolveKeepsStep ==
    ASSUME TypeOK, PendingIffTracked, NEW tags, NEW v \in Final,
           verdict' = Raise(verdict, outstanding, tags, v),
           outstanding' = Resolve(outstanding, tags)
    PROVE  Keeps
<1>1. outstanding \in Table /\ verdict \in [Sends -> Verdicts]
  BY DEF TypeOK, Table
<1>2. /\ InStep(Raise(verdict, outstanding, tags, v), Resolve(outstanding, tags))
      /\ \A s \in Sends : Raise(verdict, outstanding, tags, v)[s] # verdict[s]
                            => verdict[s] = "pending"
  BY <1>1, ResolveInStep DEF PendingIffTracked
<1>3. PendingIffTracked'
  BY <1>2 DEF PendingIffTracked
<1>4. "pending" \notin Final
  BY DEF Final
<1> QED
  BY <1>2, <1>3, <1>4 DEF Keeps, Settled

\* A step that leaves the table and the verdicts alone keeps the invariant.
LEMMA UnchangedKeeps ==
    ASSUME PendingIffTracked, UNCHANGED <<verdict, outstanding>>
    PROVE  Keeps
BY DEF Keeps, Settled, PendingIffTracked

\* One visit of the sweep keeps the invariant.
LEMMA SweepKeeps ==
    ASSUME TypeOK, TypeOK', PendingIffTracked, SweepRetry \/ SweepGiveUp
    PROVE  Keeps
<1>1. slot \in Slots /\ outstanding \in Table /\ outstanding' \in Table
  BY DEF TypeOK, Table
<1>2. CASE SweepRetry
  <2> DEFINE e == outstanding[slot]
             f == [e EXCEPT !.attempts = @ + 1,
                            !.deadline = RetryBackoff(e.attempts + 1)]
  <2>1. e \in Entry /\ e # NoSend /\ e.attempts < MaxSendRetries
    BY <1>1, <1>2 DEF SweepRetry, Matured, MayRetry, Table
  <2>2. outstanding' = [outstanding EXCEPT ![slot] = f]
    BY <1>2 DEF SweepRetry
  <2>3. f # NoSend /\ f.send = e.send
    BY <2>1, RetriedEntry
  <2> HIDE DEF f
  <2>4. \A i \in Slots : /\ outstanding[i] = NoSend <=> outstanding'[i] = NoSend
                         /\ outstanding[i] # NoSend => outstanding'[i].send = outstanding[i].send
    BY <1>1, <2>1, <2>2, <2>3 DEF Table
  <2>5. InStep(verdict, outstanding')
    BY <1>1, <2>4, SameSendsInStep DEF PendingIffTracked
  <2>6. verdict' = verdict
    BY <1>2 DEF SweepRetry
  <2> QED
    BY <2>5, <2>6 DEF Keeps, Settled, PendingIffTracked
<1>3. CASE SweepGiveUp
  <2> DEFINE e == outstanding[slot]
  <2>1. e \in Entry /\ e.send \in Sends /\ Tracks(outstanding, slot, e.send)
    BY <1>1, <1>3 DEF SweepGiveUp, Matured, Entry, Tracks, Table
  <2>2. verdict[e.send] = "pending"
    BY <1>1, <2>1 DEF PendingIffTracked, InStep, Tracked
  <2>3. ASSUME NEW s \in Sends, NEW i \in Slots
        PROVE  Tracks(outstanding', i, s) <=> Tracks(outstanding, i, s) /\ s # e.send
    <3>1. CASE i = slot
      BY <1>1, <1>3, <3>1 DEF SweepGiveUp, Tracks, Table
    <3>2. CASE i # slot
      <4>1. outstanding'[i] = outstanding[i]
        BY <1>1, <1>3, <3>2 DEF SweepGiveUp, Table
      <4>2. Tracks(outstanding, i, s) => s # e.send
        BY <1>1, <2>1, <3>2 DEF PendingIffTracked, InStep
      <4> QED
        BY <4>1, <4>2 DEF Tracks
    <3> QED
      BY <3>1, <3>2
  <2>4. \A s \in Sends : verdict'[s] = IF s = e.send THEN "undelivered" ELSE verdict[s]
    BY <1>3, <2>1 DEF SweepGiveUp, TypeOK
  <2> HIDE DEF e
  <2>5. PendingIffTracked'
    BY <2>3, <2>4 DEF PendingIffTracked, InStep, Tracked
  <2>6. Settled
    BY <2>2, <2>4 DEF Settled, Final
  <2> QED
    BY <2>5, <2>6 DEF Keeps
<1> QED
  BY <1>2, <1>3

\* The UI command drain keeps the invariant.
LEMMA UiCommandKeeps ==
    ASSUME TypeOK, PendingIffTracked, UiCommand
    PROVE  Keeps
<1>1. ASSUME NEW s \in Sends, CmdSend(s) PROVE Keeps
  <2> DEFINE table == Resolve(outstanding, Dropped(txq))
             vd    == Raise(verdict, outstanding, Dropped(txq), "evicted")
  <2>1. outstanding \in Table /\ verdict \in [Sends -> Verdicts] /\ "evicted" \in Final
    BY DEF TypeOK, Table, Final
  <2>2. /\ InStep(vd, table)
        /\ \A t \in Sends : vd[t] # verdict[t] => verdict[t] = "pending"
    BY <2>1, ResolveInStep DEF PendingIffTracked
  <2>3. table \in Table
    BY <2>1, ResolveType DEF Table
  <2>4. PICK i \in Slots :
          /\ outstanding' = [table EXCEPT ![i] = NewEntry(s)]
          /\ verdict' = [t \in Sends |-> IF t = s THEN "pending"
                                         ELSE IF Tracks(table, i, t) THEN "undelivered"
                                         ELSE vd[t]]
    BY <1>1 DEF CmdSend
  <2>5. verdict[s] = "unsent"
    BY <1>1 DEF CmdSend
  <2> HIDE DEF table, vd
  <2>6. vd[s] # "pending" /\ ~Tracked(table, s)
    BY <2>2, <2>5 DEF InStep
  <2>7. NewEntry(s) # NoSend /\ NewEntry(s).send = s
    <3>1. NewEntry(s) \in Entry
      BY TxDispatchAssumption DEF NewEntry, Entry
    <3> QED
      BY <3>1, NoSendAssumption DEF NewEntry
  <2>8. ASSUME NEW t \in Sends, NEW j \in Slots
        PROVE  Tracks(outstanding', j, t) <=> IF j = i THEN t = s ELSE Tracks(table, j, t)
    BY <2>3, <2>4, <2>7 DEF Tracks, Table
  <2>9. ASSUME NEW t \in Sends
        PROVE  /\ verdict'[t] = "pending" <=> Tracked(outstanding', t)
               /\ \A j, k \in Slots : Tracks(outstanding', j, t)
                                      /\ Tracks(outstanding', k, t) => j = k
    <3>1. CASE t = s
      BY <2>4, <2>6, <2>8, <3>1 DEF Tracked
    <3>2. CASE t # s
      BY <2>2, <2>4, <2>8, <3>2 DEF Tracked, InStep
    <3> QED
      BY <3>1, <3>2
  <2>10. PendingIffTracked'
    BY <2>9 DEF PendingIffTracked, InStep
  <2>11. ASSUME NEW t \in Sends, verdict[t] \in Final
         PROVE  verdict'[t] = verdict[t]
    <3>1. t # s /\ vd[t] = verdict[t] /\ vd[t] # "pending"
      BY <2>2, <2>5, <2>11 DEF Final
    <3>2. ~Tracks(table, i, t)
      BY <2>2, <3>1 DEF InStep, Tracked
    <3> QED
      BY <2>4, <3>1, <3>2
  <2> QED
    BY <2>10, <2>11 DEF Keeps, Settled
<1>2. ASSUME NEW s \in Sends, CmdRefuse(s) PROVE Keeps
  <2>1. /\ verdict[s] = "unsent" /\ outstanding' = outstanding
        /\ verdict'[s] \in {"refused", "undelivered"}
        /\ \A t \in Sends : t # s => verdict'[t] = verdict[t]
    BY <1>2 DEF CmdRefuse, TypeOK
  <2>2. PendingIffTracked'
    BY <2>1 DEF PendingIffTracked, InStep
  <2>3. Settled
    BY <2>1 DEF Settled, Final
  <2> QED
    BY <2>2, <2>3 DEF Keeps
<1>3. CASE CmdChannel
  BY <1>3, ResolveKeepsStep DEF CmdChannel, EnqueueUntracked, Final
<1> QED
  BY <1>1, <1>2, <1>3 DEF UiCommand

\* The passage of time keeps the invariant.
LEMMA TickKeeps ==
    ASSUME TypeOK, TypeOK', PendingIffTracked, Tick
    PROVE  Keeps
<1>1. outstanding \in Table /\ outstanding' \in Table
  BY DEF TypeOK, Table
<1>2. ASSUME NEW i \in Slots
      PROVE  /\ outstanding[i] = NoSend <=> outstanding'[i] = NoSend
             /\ outstanding[i] # NoSend => outstanding'[i].send = outstanding[i].send
  <2>1. CASE outstanding[i] = NoSend
    BY <2>1 DEF Tick
  <2>2. CASE outstanding[i] # NoSend
    <3>1. outstanding[i] \in Entry
      BY <1>1, <2>2 DEF Table
    <3> QED
      BY <2>2, <3>1, AgedEntry DEF Tick
  <2> QED
    BY <2>1, <2>2
<1>3. InStep(verdict, outstanding')
  BY <1>1, <1>2, SameSendsInStep DEF PendingIffTracked
<1>4. verdict' = verdict
  BY DEF Tick
<1> QED
  BY <1>3, <1>4 DEF Keeps, Settled, PendingIffTracked

\* Every step keeps the table and the verdicts in step, and no final verdict
\* changes.
LEMMA StepKeeps ==
    ASSUME TypeOK, TypeOK', PendingIffTracked, [Next]_vars
    PROVE  Keeps
<1>1. CASE Sweep
  <2>1. CASE SweepSkip
    BY <2>1, UnchangedKeeps DEF SweepSkip
  <2>2. CASE SweepRetry \/ SweepGiveUp
    BY <2>2, SweepKeeps
  <2>3. CASE ResolveEviction
    BY <2>3, ResolveKeepsStep DEF ResolveEviction, Final
  <2>4. CASE ResolveDone
    BY <2>4, UnchangedKeeps DEF ResolveDone
  <2> QED
    BY <1>1, <2>1, <2>2, <2>3, <2>4 DEF Sweep
<1>2. CASE Sched
  <2>1. CASE EnqueueUntracked
    BY <2>1, ResolveKeepsStep DEF EnqueueUntracked, Final
  <2>2. CASE UNCHANGED <<txq, verdict, outstanding>>
    BY <2>2, UnchangedKeeps
  <2> QED
    BY <1>2, <2>1, <2>2 DEF Sched
<1>3. CASE CadTx
  BY <1>3, UnchangedKeeps DEF CadTx, TxSkip, TxDefer, CadError, Transmit
<1>4. CASE RxPoll
  <2>1. ASSUME NEW s \in Sends, RxAck(s) PROVE Keeps
    BY <2>1, ResolveKeepsStep DEF RxAck, Final
  <2>2. CASE RxReply
    BY <2>2, ResolveKeepsStep DEF RxReply, EnqueueUntracked, Final
  <2>3. CASE RxPermission \/ RxNothing
    BY <2>3, UnchangedKeeps DEF RxPermission, RxNothing
  <2> QED
    BY <1>4, <2>1, <2>2, <2>3 DEF RxPoll
<1>5. CASE LoopAgain
  BY <1>5, UnchangedKeeps DEF LoopAgain
<1>6. CASE UNCHANGED vars
  BY <1>6, UnchangedKeeps DEF vars
<1> QED
  BY <1>1, <1>2, <1>3, <1>4, <1>5, <1>6, UiCommandKeeps, TickKeeps DEF Next

(***************************************************************************)
(* A bubble is grey exactly while one table entry tracks its send: nothing *)
(* that drops a frame or an entry leaves a send pending for ever.          *)
(***************************************************************************)
THEOREM TableInStep == Spec => []PendingIffTracked
<1>1. Init => PendingIffTracked
  BY DEF Init, PendingIffTracked, InStep, Tracked, Tracks
<1>2. TypeOK /\ TypeOK' /\ PendingIffTracked /\ [Next]_vars => PendingIffTracked'
  BY StepKeeps DEF Keeps
<1> QED
  BY <1>1, <1>2, TypeCorrect, PTL DEF Spec

(***************************************************************************)
(* Every send gets at most one final verdict.                              *)
(***************************************************************************)
THEOREM OneVerdict == Spec => VerdictFinal
<1>1. TypeOK /\ TypeOK' /\ PendingIffTracked /\ [Next]_vars =>
          [\A s \in Sends : verdict[s] \in Final => verdict'[s] = verdict[s]]_vars
  BY StepKeeps DEF Keeps, Settled
<1> QED
  BY <1>1, TypeCorrect, TableInStep, PTL DEF Spec, VerdictFinal

-----------------------------------------------------------------------------
(***************************************************************************)
(* The retry cap.                                                          *)
(***************************************************************************)

\* Resolving tags with a verdict other than "unsent" and "refused" keeps the
\* count of copies.
LEMMA ResolveCounts ==
    ASSUME TypeOK, RetriesCounted, NEW tags,
           NEW v \in {"acked", "evicted"},
           verdict' = Raise(verdict, outstanding, tags, v),
           outstanding' = Resolve(outstanding, tags),
           enqueued' = enqueued
    PROVE  RetriesCounted'
<1>1. \A i \in Slots : outstanding'[i] # NoSend => outstanding'[i] = outstanding[i]
  BY DEF Resolve
<1>2. \A s \in Sends : verdict'[s] \in {"unsent", "refused"} => verdict'[s] = verdict[s]
  BY DEF Raise
<1> QED
  BY <1>1, <1>2 DEF RetriesCounted

\* Every step keeps the count of copies.
LEMMA StepCounts ==
    ASSUME TypeOK, TypeOK', PendingIffTracked, RetriesCounted, [Next]_vars
    PROVE  RetriesCounted'
<1>1. ASSUME UNCHANGED <<verdict, outstanding, enqueued>> PROVE RetriesCounted'
  BY <1>1 DEF RetriesCounted
<1>2. ASSUME EnqueueUntracked, UNCHANGED enqueued PROVE RetriesCounted'
  BY <1>2, ResolveCounts DEF EnqueueUntracked
<1>3. CASE SweepRetry
  <2> DEFINE e == outstanding[slot]
             f == [e EXCEPT !.attempts = @ + 1,
                            !.deadline = RetryBackoff(e.attempts + 1)]
  <2>1. /\ e \in Entry /\ e # NoSend /\ e.attempts < MaxSendRetries
        /\ slot \in Slots /\ e.send \in Sends /\ e.attempts \in Nat
    BY <1>3 DEF SweepRetry, Matured, MayRetry, TypeOK, Entry
  <2>2. outstanding' = [outstanding EXCEPT ![slot] = f]
    BY <1>3 DEF SweepRetry
  <2>3. f # NoSend /\ f.send = e.send /\ f.attempts = e.attempts + 1
    BY <2>1, RetriedEntry
  <2>4. enqueued' = [enqueued EXCEPT ![e.send] = @ + 1] /\ verdict' = verdict
    BY <1>3 DEF SweepRetry
  <2>5. enqueued[e.send] = e.attempts + 1
    BY <2>1 DEF RetriesCounted
  <2>6. verdict[e.send] = "pending"
    BY <2>1 DEF PendingIffTracked, InStep, Tracked, Tracks
  <2>7. ASSUME NEW i \in Slots, i # slot, outstanding[i] # NoSend
        PROVE  outstanding[i].send # e.send
    BY <2>1, <2>7 DEF PendingIffTracked, InStep, Tracks
  <2> HIDE DEF e, f
  <2>8. ASSUME NEW i \in Slots, outstanding'[i] # NoSend
        PROVE  enqueued'[outstanding'[i].send] = outstanding'[i].attempts + 1
    <3>1. CASE i = slot
      BY <2>1, <2>2, <2>3, <2>4, <2>5, <3>1 DEF TypeOK
    <3>2. CASE i # slot
      <4>1. outstanding'[i] = outstanding[i] /\ outstanding[i] # NoSend
        BY <2>2, <2>8, <3>2 DEF TypeOK
      <4>2. outstanding[i].send \in Sends /\ outstanding[i].send # e.send
        BY <2>7, <3>2, <4>1 DEF TypeOK, Entry
      <4>3. enqueued'[outstanding[i].send] = enqueued[outstanding[i].send]
        BY <2>4, <4>2 DEF TypeOK
      <4> QED
        BY <4>1, <4>3 DEF RetriesCounted
    <3> QED
      BY <3>1, <3>2
  <2>9. ASSUME NEW s \in Sends
        PROVE  /\ enqueued'[s] <= MaxSendRetries + 1
               /\ verdict'[s] \in {"unsent", "refused"} => enqueued'[s] = 0
    <3>1. CASE s = e.send
      <4>1. enqueued'[s] = e.attempts + 2
        BY <2>1, <2>4, <2>5, <3>1 DEF TypeOK
      <4>2. e.attempts + 2 <= MaxSendRetries + 1
        BY <2>1, TxDispatchAssumption
      <4>3. verdict'[s] \notin {"unsent", "refused"}
        BY <2>4, <2>6, <3>1
      <4> QED
        BY <4>1, <4>2, <4>3
    <3>2. CASE s # e.send
      <4>1. enqueued'[s] = enqueued[s]
        BY <2>4, <3>2 DEF TypeOK
      <4> QED
        BY <2>4, <4>1 DEF RetriesCounted
    <3> QED
      BY <3>1, <3>2
  <2> QED
    BY <2>8, <2>9 DEF RetriesCounted
<1>4. CASE SweepGiveUp
  <2>1. outstanding[slot].send \in Sends /\ slot \in Slots
    BY <1>4 DEF SweepGiveUp, Matured, TypeOK, Entry
  <2>2. \A i \in Slots : outstanding'[i] # NoSend => outstanding'[i] = outstanding[i]
    BY <1>4, <2>1 DEF SweepGiveUp, TypeOK
  <2>3. \A s \in Sends : verdict'[s] \in {"unsent", "refused"} => verdict'[s] = verdict[s]
    BY <1>4, <2>1 DEF SweepGiveUp, TypeOK
  <2> QED
    BY <1>4, <2>2, <2>3 DEF SweepGiveUp, RetriesCounted
<1>5. ASSUME NEW s \in Sends, CmdSend(s) PROVE RetriesCounted'
  <2> DEFINE table == Resolve(outstanding, Dropped(txq))
             vd    == Raise(verdict, outstanding, Dropped(txq), "evicted")
  <2>1. PICK i \in Slots :
          /\ outstanding' = [table EXCEPT ![i] = NewEntry(s)]
          /\ verdict' = [t \in Sends |-> IF t = s THEN "pending"
                                         ELSE IF Tracks(table, i, t) THEN "undelivered"
                                         ELSE vd[t]]
    BY <1>5 DEF CmdSend
  <2>2. \A j \in Slots : table[j] # NoSend => table[j] = outstanding[j]
    BY DEF Resolve
  <2>3. ASSUME NEW t \in Sends, vd[t] \in {"unsent", "refused"}
        PROVE  vd[t] = verdict[t]
    <3>1. vd[t] = verdict[t] \/ vd[t] = "evicted"
      BY DEF Raise
    <3> QED
      BY <2>3, <3>1
  <2>4. table \in [Slots -> Entry \cup {NoSend}]
    BY ResolveType DEF TypeOK
  <2>5. /\ verdict[s] = "unsent" /\ enqueued[s] = 0
        /\ enqueued' = [enqueued EXCEPT ![s] = @ + 1]
    <3>1. verdict[s] = "unsent" /\ enqueued' = [enqueued EXCEPT ![s] = @ + 1]
      BY <1>5 DEF CmdSend
    <3> QED
      BY <3>1 DEF RetriesCounted
  <2>6. enqueued'[s] = 1 /\ \A t \in Sends : t # s => enqueued'[t] = enqueued[t]
    BY <2>5 DEF TypeOK
  <2>7. ~Tracked(outstanding, s)
    BY <2>5 DEF PendingIffTracked, InStep
  <2> HIDE DEF table, vd
  <2>8. ASSUME NEW j \in Slots, outstanding'[j] # NoSend
        PROVE  enqueued'[outstanding'[j].send] = outstanding'[j].attempts + 1
    <3>1. CASE j = i
      <4>1. outstanding'[j] = NewEntry(s)
        BY <2>1, <2>4, <3>1
      <4> QED
        BY <2>6, <4>1 DEF NewEntry
    <3>2. CASE j # i
      <4>1. outstanding'[j] = outstanding[j] /\ outstanding[j] # NoSend
        BY <2>1, <2>2, <2>4, <2>8, <3>2
      <4>2. outstanding[j].send \in Sends /\ outstanding[j].send # s
        BY <2>7, <4>1 DEF TypeOK, Entry, Tracked, Tracks
      <4> QED
        BY <2>6, <4>1, <4>2 DEF RetriesCounted
    <3> QED
      BY <3>1, <3>2
  <2>9. ASSUME NEW t \in Sends
        PROVE  /\ enqueued'[t] <= MaxSendRetries + 1
               /\ verdict'[t] \in {"unsent", "refused"} => enqueued'[t] = 0
    <3>1. CASE t = s
      <4>1. verdict'[t] = "pending"
        BY <2>1, <3>1
      <4> QED
        BY <2>6, <3>1, <4>1, TxDispatchAssumption
    <3>2. CASE t # s
      <4>1. enqueued'[t] = enqueued[t]
        BY <2>6, <3>2
      <4>2. verdict'[t] = "undelivered" \/ verdict'[t] = vd[t]
        BY <2>1, <3>2
      <4>3. verdict'[t] \in {"unsent", "refused"} => verdict'[t] = verdict[t]
        BY <2>3, <4>2
      <4>4. /\ enqueued[t] <= MaxSendRetries + 1
            /\ verdict[t] \in {"unsent", "refused"} => enqueued[t] = 0
        BY DEF RetriesCounted
      <4> QED
        BY <4>1, <4>3, <4>4
    <3> QED
      BY <3>1, <3>2
  <2> QED
    BY <2>8, <2>9 DEF RetriesCounted
<1>6. ASSUME NEW s \in Sends, CmdRefuse(s) PROVE RetriesCounted'
  <2>1. /\ verdict[s] = "unsent" /\ UNCHANGED <<outstanding, enqueued>>
        /\ \A t \in Sends : t # s => verdict'[t] = verdict[t]
    BY <1>6 DEF CmdRefuse, TypeOK
  <2> QED
    BY <2>1 DEF RetriesCounted
<1>7. CASE Tick
  <2>1. ASSUME NEW i \in Slots, outstanding'[i] # NoSend
        PROVE  /\ outstanding[i] # NoSend
               /\ outstanding'[i].send = outstanding[i].send
               /\ outstanding'[i].attempts = outstanding[i].attempts
    <3>1. outstanding[i] # NoSend
      BY <1>7, <2>1 DEF Tick
    <3>2. outstanding[i] \in Entry
      BY <3>1 DEF TypeOK
    <3> QED
      BY <1>7, <3>1, <3>2, AgedEntry DEF Tick
  <2> QED
    BY <1>7, <2>1 DEF Tick, RetriesCounted
<1>8. CASE ResolveEviction
  BY <1>8, ResolveCounts DEF ResolveEviction
<1>9. ASSUME NEW s \in Sends, RxAck(s) PROVE RetriesCounted'
  BY <1>9, ResolveCounts DEF RxAck
<1>10. CASE SweepSkip \/ ResolveDone
  BY <1>1, <1>10 DEF SweepSkip, ResolveDone
<1>11. CASE Sched
  BY <1>1, <1>2, <1>11 DEF Sched
<1>12. CASE CadTx
  BY <1>1, <1>12 DEF CadTx, TxSkip, TxDefer, CadError, Transmit
<1>13. CASE RxReply \/ CmdChannel
  BY <1>2, <1>13 DEF RxReply, CmdChannel
<1>14. CASE RxPermission \/ RxNothing \/ LoopAgain \/ UNCHANGED vars
  BY <1>1, <1>14 DEF RxPermission, RxNothing, LoopAgain, vars
<1> QED
  BY <1>3, <1>4, <1>5, <1>6, <1>7, <1>8, <1>9, <1>10, <1>11, <1>12, <1>13, <1>14
     DEF Next, Sweep, RxPoll, UiCommand

(***************************************************************************)
(* A send's frame is queued once per attempt and at most MAX_SEND_RETRIES  *)
(* times after the original; what was refused is never queued.             *)
(***************************************************************************)
THEOREM RetryCap == Spec => []RetriesCounted
<1>1. Init => RetriesCounted
  BY TxDispatchAssumption DEF Init, RetriesCounted
<1>2. TypeOK /\ TypeOK' /\ PendingIffTracked /\ RetriesCounted /\ [Next]_vars
      => RetriesCounted'
  BY StepCounts
<1> QED
  BY <1>1, <1>2, TypeCorrect, TableInStep, PTL DEF Spec

-----------------------------------------------------------------------------
(***************************************************************************)
(* The frame of a pending send.                                            *)
(***************************************************************************)
Queued(q, s) == \E k \in 1..Len(q) : q[k] = s

\* A queue loses its head and gains its last, nothing else.
LEMMA TailQueued ==
    ASSUME NEW q \in Seq(Tags), q # <<>>, NEW s, Queued(q, s)
    PROVE  Queued(Tail(q), s) \/ Head(q) = s
<1>1. PICK k \in 1..Len(q) : q[k] = s
  BY DEF Queued
<1> DEFINE t == Tail(q)
<1>2. Len(t) = Len(q) - 1 /\ Len(q) \in Nat /\ \A i \in 1..Len(t) : t[i] = q[i + 1]
  OBVIOUS
<1>3. k = 1 => Head(q) = s
  BY <1>1
<1> HIDE DEF t
<1>4. k # 1 => k - 1 \in 1..Len(t) /\ (k - 1) + 1 = k
  BY <1>1, <1>2
<1>5. k # 1 => t[k - 1] = s
  BY <1>1, <1>2, <1>4
<1>6. k # 1 => Queued(t, s)
  BY <1>4, <1>5 DEF Queued
<1> QED
  BY <1>3, <1>6 DEF t

LEMMA AppendQueued ==
    ASSUME NEW q \in Seq(Tags), NEW x \in Tags
    PROVE  Queued(Append(q, x), x) /\ \A s : Queued(q, s) => Queued(Append(q, x), s)
<1> DEFINE t == Append(q, x)
<1>1. /\ Len(t) = Len(q) + 1 /\ Len(q) \in Nat /\ t[Len(q) + 1] = x
      /\ \A i \in 1..Len(q) : t[i] = q[i]
  OBVIOUS
<1> HIDE DEF t
<1>2. Len(q) + 1 \in 1..Len(t) /\ \A i \in 1..Len(q) : i \in 1..Len(t)
  BY <1>1
<1>3. Queued(t, x) /\ \A s : Queued(q, s) => Queued(t, s)
  BY <1>1, <1>2 DEF Queued
<1> QED
  BY <1>3 DEF t

\* enqueue drops the head of a full queue and keeps every other frame.
LEMMA EnqueueQueued ==
    ASSUME NEW q \in Seq(Tags), NEW x \in Tags
    PROVE  /\ Queued(Enqueue(q, x), x)
           /\ \A s : Queued(q, s) => Queued(Enqueue(q, x), s) \/ (Full(q) /\ Head(q) = s)
           /\ Full(q) => Head(q) \in Tags
<1>1. CASE Full(q)
  <2>1. q # <<>>
    BY <1>1, TxDispatchAssumption DEF Full
  <2>2. Tail(q) \in Seq(Tags) /\ Head(q) \in Tags
    BY <2>1
  <2>3. Enqueue(q, x) = Append(Tail(q), x)
    BY <1>1 DEF Enqueue
  <2> DEFINE t == Tail(q)
  <2> HIDE DEF t
  <2>4. t \in Seq(Tags) /\ Enqueue(q, x) = Append(t, x)
    BY <2>2, <2>3 DEF t
  <2>5. Queued(Append(t, x), x) /\ \A s : Queued(t, s) => Queued(Append(t, x), s)
    BY <2>4, AppendQueued
  <2>6. \A s : Queued(q, s) => Queued(t, s) \/ Head(q) = s
    BY <2>1, TailQueued DEF t
  <2>7. Queued(Enqueue(q, x), x) /\ \A s : Queued(t, s) => Queued(Enqueue(q, x), s)
    BY <2>4, <2>5, Zenon
  <2> QED
    BY <1>1, <2>2, <2>6, <2>7, Zenon
<1>2. CASE ~Full(q)
  <2>1. Enqueue(q, x) = Append(q, x)
    BY <1>2 DEF Enqueue
  <2> QED
    BY <1>2, <2>1, AppendQueued
<1> QED
  BY <1>1, <1>2

HasFrame(s, air, q, ev) == air[s] > 0 \/ Queued(q, s) \/ Queued(ev, s)

LEMMA StepHasFrame ==
    ASSUME TypeOK, PendingIffTracked, PendingHasFrame, [Next]_vars,
           NEW s \in Sends, verdict'[s] = "pending"
    PROVE  HasFrame(s, onAir', txq', evictions')
<1>1. /\ txq \in Seq(Tags) /\ evictions \in Seq(Tags) /\ onAir[s] \in Nat
      /\ verdict \in [Sends -> Verdicts] /\ NoTag \in Tags /\ s \in Tags
  BY DEF TypeOK, Tags
<1>2. verdict[s] = "pending" => HasFrame(s, onAir, txq, evictions) /\ Tracked(outstanding, s)
  BY DEF PendingHasFrame, HasFrame, Queued, PendingIffTracked, InStep
<1>3. ASSUME verdict[s] = "pending", UNCHANGED <<txq, evictions, onAir>>
      PROVE  HasFrame(s, onAir', txq', evictions')
  BY <1>2, <1>3
<1>4. ASSUME EnqueueUntracked, UNCHANGED <<evictions, onAir>>
      PROVE  HasFrame(s, onAir', txq', evictions')
  <2>1. /\ txq' = Enqueue(txq, NoTag)
        /\ verdict' = Raise(verdict, outstanding, Dropped(txq), "evicted")
    BY <1>4 DEF EnqueueUntracked
  <2>2. verdict[s] = "pending" /\ ~(s \in Dropped(txq) /\ Tracked(outstanding, s))
    BY <2>1 DEF Raise
  <2>3. ~(Full(txq) /\ Head(txq) = s)
    BY <1>2, <2>2 DEF Dropped
  <2>4. Queued(txq, s) => Queued(txq', s)
    BY <1>1, <2>1, <2>3, EnqueueQueued
  <2> QED
    BY <1>2, <1>4, <2>2, <2>4 DEF HasFrame
<1>5. CASE SweepSkip \/ ResolveDone \/ TxSkip \/ TxDefer \/ CadError \/ RxPermission
           \/ RxNothing \/ Tick \/ LoopAgain \/ UNCHANGED vars
  BY <1>3, <1>5 DEF SweepSkip, ResolveDone, TxSkip, TxDefer, CadError, RxPermission,
                    RxNothing, Tick, LoopAgain, vars
<1>6. CASE SweepRetry
  <2>1. PICK x \in Tags : txq' = Enqueue(txq, x)
    <3>1. outstanding[slot] \in Entry
      BY <1>6 DEF SweepRetry, Matured, TypeOK
    <3>2. outstanding[slot].send \in Tags
      BY <3>1 DEF Entry, Tags
    <3> QED
      BY <1>6, <3>2 DEF SweepRetry
  <2>2. /\ evictions' = IF Full(txq) THEN Append(evictions, Head(txq)) ELSE evictions
        /\ verdict' = verdict /\ onAir' = onAir
    BY <1>6 DEF SweepRetry
  <2>3. Queued(txq, s) => Queued(txq', s) \/ (Full(txq) /\ Head(txq) = s)
    BY <1>1, <2>1, EnqueueQueued
  <2>4. Full(txq) => Head(txq) \in Tags
    BY <1>1, <2>1, EnqueueQueued
  <2>5. CASE Full(txq)
    <3>1. Queued(evictions', Head(txq)) /\ (Queued(evictions, s) => Queued(evictions', s))
      BY <1>1, <2>2, <2>4, <2>5, AppendQueued
    <3> QED
      BY <1>2, <2>2, <2>3, <3>1 DEF HasFrame
  <2>6. CASE ~Full(txq)
    BY <1>2, <2>2, <2>3, <2>6 DEF HasFrame
  <2> QED
    BY <2>5, <2>6
<1>7. CASE SweepGiveUp
  <2>1. verdict[s] = "pending"
    BY <1>1, <1>7 DEF SweepGiveUp
  <2> QED
    BY <1>3, <1>7, <2>1 DEF SweepGiveUp
<1>8. CASE ResolveEviction
  <2>1. /\ verdict' = Raise(verdict, outstanding, {Head(evictions)}, "evicted")
        /\ evictions # <<>> /\ evictions' = Tail(evictions)
        /\ txq' = txq /\ onAir' = onAir
    BY <1>8 DEF ResolveEviction
  <2>2. verdict[s] = "pending" /\ ~(s = Head(evictions) /\ Tracked(outstanding, s))
    BY <2>1 DEF Raise
  <2>3. Queued(evictions, s) => Queued(evictions', s)
    BY <1>1, <1>2, <2>1, <2>2, TailQueued
  <2> QED
    BY <1>2, <2>1, <2>2, <2>3 DEF HasFrame
<1>9. CASE Sched
  BY <1>3, <1>4, <1>9 DEF Sched
<1>10. CASE Transmit
  <2>1. /\ txq # <<>> /\ txq' = Tail(txq) /\ verdict' = verdict /\ evictions' = evictions
        /\ onAir' = [x \in Sends |-> onAir[x] + (IF x = Head(txq) THEN 1 ELSE 0)]
    BY <1>10 DEF Transmit, TxGate
  <2>2. onAir'[s] = onAir[s] + (IF s = Head(txq) THEN 1 ELSE 0)
    BY <2>1
  <2>3. Queued(txq, s) => Queued(txq', s) \/ Head(txq) = s
    BY <1>1, <2>1, TailQueued
  <2>4. onAir[s] > 0 \/ s = Head(txq) => onAir'[s] > 0
    BY <1>1, <2>2
  <2> QED
    BY <1>2, <2>1, <2>3, <2>4 DEF HasFrame
<1>11. ASSUME NEW t \in Sends, RxAck(t) PROVE HasFrame(s, onAir', txq', evictions')
  <2>1. verdict[s] = "pending"
    BY <1>11 DEF RxAck, Raise
  <2> QED
    BY <1>3, <1>11, <2>1 DEF RxAck
<1>12. CASE RxReply
  BY <1>4, <1>12 DEF RxReply
<1>13. CASE CmdChannel
  BY <1>4, <1>13 DEF CmdChannel
<1>14. ASSUME NEW t \in Sends, CmdRefuse(t) PROVE HasFrame(s, onAir', txq', evictions')
  <2>1. verdict[s] = "pending"
    BY <1>1, <1>14 DEF CmdRefuse
  <2> QED
    BY <1>3, <1>14, <2>1 DEF CmdRefuse
<1>15. ASSUME NEW t \in Sends, CmdSend(t) PROVE HasFrame(s, onAir', txq', evictions')
  <2>1. /\ txq' = Enqueue(txq, t) /\ t \in Tags /\ evictions' = evictions /\ onAir' = onAir
    BY <1>15 DEF CmdSend, Tags
  <2>2. CASE s = t
    BY <1>1, <2>1, <2>2, EnqueueQueued DEF HasFrame
  <2>3. CASE s # t
    <3>1. Raise(verdict, outstanding, Dropped(txq), "evicted")[s] = "pending"
      BY <1>15, <2>3 DEF CmdSend
    <3>2. verdict[s] = "pending" /\ ~(s \in Dropped(txq) /\ Tracked(outstanding, s))
      BY <3>1 DEF Raise
    <3>3. ~(Full(txq) /\ Head(txq) = s)
      BY <1>2, <3>2 DEF Dropped
    <3>4. Queued(txq, s) => Queued(txq', s)
      BY <1>1, <2>1, <3>3, EnqueueQueued
    <3> QED
      BY <1>2, <2>1, <3>2, <3>4 DEF HasFrame
  <2> QED
    BY <2>2, <2>3
<1> QED
  BY <1>5, <1>6, <1>7, <1>8, <1>9, <1>10, <1>11, <1>12, <1>13, <1>14, <1>15
     DEF Next, Sweep, CadTx, RxPoll, UiCommand

(***************************************************************************)
(* No send waits for the ACK of a frame that vanished: a full queue that   *)
(* drops a frame always leads to its send's verdict.                       *)
(***************************************************************************)
THEOREM FrameHolds == Spec => []PendingHasFrame
<1>1. Init => PendingHasFrame
  BY DEF Init, PendingHasFrame
<1>2. TypeOK /\ PendingIffTracked /\ PendingHasFrame /\ [Next]_vars => PendingHasFrame'
  BY StepHasFrame DEF PendingHasFrame, HasFrame, Queued
<1> QED
  BY <1>1, <1>2, TypeCorrect, TableInStep, PTL DEF Spec
=============================================================================
