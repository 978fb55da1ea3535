--------------------------- MODULE InboundDmProofs ---------------------------
(***************************************************************************)
(* The inbound guards, proved for every ring size, every set of messages   *)
(* and every bound.  The heart is what a ring buffer remembers: slot k of  *)
(* a ring of n slots holds the entry of the insertion history it was last  *)
(* written for (WrittenFor), so the ring covers exactly the last n         *)
(* insertions (RingCovers), through every wrap of the write position.      *)
(***************************************************************************)
EXTENDS InboundDm, TLAPS

Keys == Messages \cup {NoMsg}

\* The position in a history of length len that slot k was last written for.
WrittenFor(head, k, n, len) ==
    IF k < head THEN len - head + k + 1 ELSE len - head - n + k + 1

\* Ring r holds the last n entries of history s.
RingHolds(r, s, n) ==
    /\ r.count = IF Len(s) < n THEN Len(s) ELSE n
    /\ Len(s) < n => r.head = Len(s)
    /\ \A k \in 0..(r.count - 1) : r.slot[k] = s[WrittenFor(r.head, k, n, Len(s))]

\* The write position after h.
After(h, n) == IF h + 1 = n THEN 0 ELSE h + 1

\* A write elsewhere leaves what a slot was written for.
LEMMA WrittenSame ==
    ASSUME NEW n \in Nat \ {0}, NEW h \in 0..(n-1), NEW k \in 0..(n-1),
           NEW len \in Nat, k # h
    PROVE  WrittenFor(After(h, n), k, n, len + 1) = WrittenFor(h, k, n, len)
<1>1. CASE h + 1 = n
  BY <1>1 DEF WrittenFor, After
<1>2. CASE h + 1 # n
  BY <1>2 DEF WrittenFor, After
<1> QED
  BY <1>1, <1>2

\* A valid slot was written for an entry of the history.
LEMMA WrittenRange ==
    ASSUME NEW n \in Nat \ {0}, NEW h \in 0..(n-1), NEW k \in 0..(n-1),
           NEW len \in Nat, len < n => h = len /\ k < len
    PROVE  WrittenFor(h, k, n, len) \in 1..len
<1>1. CASE len < n
  BY <1>1 DEF WrittenFor
<1>2. CASE ~(len < n)
  BY <1>2 DEF WrittenFor
<1> QED
  BY <1>1, <1>2

\* An insertion is well typed.
LEMMA RingInsertType ==
    ASSUME NEW n \in Nat \ {0}, NEW r \in Rings(n), NEW m \in Keys
    PROVE  RingInsert(r, m, n) \in Rings(n)
<1>1. [r.slot EXCEPT ![r.head] = m] \in [0..(n-1) -> Keys]
  BY DEF Rings, Keys
<1>2. (IF r.head + 1 = n THEN 0 ELSE r.head + 1) \in 0..(n-1)
  BY DEF Rings
<1>3. (IF r.count < n THEN r.count + 1 ELSE r.count) \in 0..n
  BY DEF Rings
<1> QED
  BY <1>1, <1>2, <1>3 DEF RingInsert, Rings, Keys

\* The empty ring is well typed and holds the empty history.
LEMMA RingEmpty ==
    ASSUME NEW n \in Nat \ {0}
    PROVE  EmptyRing(n) \in Rings(n) /\ RingHolds(EmptyRing(n), <<>>, n)
<1>1. EmptyRing(n) \in Rings(n)
  BY DEF EmptyRing, Rings
<1>2. /\ EmptyRing(n).count = 0
      /\ EmptyRing(n).head = 0
      /\ Len(<<>>) = 0
  BY DEF EmptyRing
<1> QED
  BY <1>1, <1>2 DEF RingHolds

\* An insertion keeps the ring in step with the history.
LEMMA RingKeeps ==
    ASSUME NEW n \in Nat \ {0}, NEW r \in Rings(n), NEW m \in Keys,
           NEW s \in Seq(Keys), RingHolds(r, s, n)
    PROVE  RingHolds(RingInsert(r, m, n), Append(s, m), n)
<1> DEFINE q == RingInsert(r, m, n)
           t == Append(s, m)
           L == Len(s)
<1>1. /\ r.head \in 0..(n-1) /\ r.count \in 0..n /\ L \in Nat
      /\ r.slot \in [0..(n-1) -> Keys]
  BY DEF Rings, Keys
<1>2. /\ Len(t) = L + 1 /\ t[L + 1] = m
      /\ \A i \in 1..L : t[i] = s[i]
  OBVIOUS
<1>3. /\ q.head = IF r.head + 1 = n THEN 0 ELSE r.head + 1
      /\ q.count = IF r.count < n THEN r.count + 1 ELSE r.count
      /\ q.slot = [r.slot EXCEPT ![r.head] = m]
  BY DEF RingInsert
<1>4. /\ r.count = IF L < n THEN L ELSE n
      /\ L < n => r.head = L
  BY DEF RingHolds
<1>5. \A k \in 0..(r.count - 1) : r.slot[k] = s[WrittenFor(r.head, k, n, L)]
  BY DEF RingHolds
<1> HIDE DEF q, t, L
<1>6. q.count = IF L + 1 < n THEN L + 1 ELSE n
  BY <1>1, <1>3, <1>4
<1>7. L + 1 < n => q.head = L + 1
  BY <1>1, <1>3, <1>4
<1>8. ASSUME NEW k \in 0..(q.count - 1)
      PROVE  q.slot[k] = t[WrittenFor(q.head, k, n, L + 1)]
  <2>1. k \in 0..(n-1) /\ k \in Int
    BY <1>1, <1>6
  <2>2. CASE k = r.head
    <3>1. WrittenFor(q.head, k, n, L + 1) = L + 1
      BY <1>1, <1>3, <2>2 DEF WrittenFor
    <3> QED
      BY <1>1, <1>2, <1>3, <2>1, <2>2, <3>1
  <2>3. CASE k # r.head
    <3>1. q.slot[k] = r.slot[k]
      BY <1>1, <1>3, <2>1, <2>3
    <3>2. k \in 0..(r.count - 1)
      BY <1>1, <1>4, <1>6, <2>1, <2>3
    <3>3. WrittenFor(q.head, k, n, L + 1) = WrittenFor(r.head, k, n, L)
      <4>1. q.head = After(r.head, n)
        BY <1>3 DEF After
      <4> QED
        BY <1>1, <2>1, <2>3, <4>1, WrittenSame
    <3>4. WrittenFor(r.head, k, n, L) \in 1..L
      <4>1. L < n => r.head = L /\ k < L
        BY <1>1, <1>4, <3>2
      <4> QED
        BY <1>1, <2>1, <4>1, WrittenRange
    <3> QED
      BY <1>2, <1>5, <3>1, <3>2, <3>3, <3>4
  <2> QED
    BY <2>2, <2>3
<1> QED
  BY <1>2, <1>6, <1>7, <1>8 DEF RingHolds, q, t

\* The ring contains each of the last n entries of the history.
LEMMA RingCovers ==
    ASSUME NEW n \in Nat \ {0}, NEW r \in Rings(n),
           NEW s \in Seq(Keys), RingHolds(r, s, n),
           NEW i \in 1..Len(s), Len(s) - i < n
    PROVE  RingContains(r, s[i])
<1> DEFINE L == Len(s)
           h == r.head
           c == r.count
<1>1. h \in 0..(n-1) /\ c \in 0..n /\ L \in Nat /\ i \in 1..L
  BY DEF Rings
<1>2. /\ c = IF L < n THEN L ELSE n
      /\ L < n => h = L
  BY DEF RingHolds
<1>3. L - i < n
  OBVIOUS
<1>4. \A j \in 0..(c - 1) : r.slot[j] = s[WrittenFor(h, j, n, L)]
  BY DEF RingHolds
<1>5. RingContains(r, s[i]) <=> \E j \in 0..(c - 1) : r.slot[j] = s[i]
  BY DEF RingContains
<1> HIDE DEF L, h, c
<1>6. \E j \in 0..(c - 1) : WrittenFor(h, j, n, L) = i
  <2>1. CASE i > L - h
    <3>1. i - L + h - 1 \in 0..(c - 1)
      BY <1>1, <1>2, <1>3, <2>1
    <3>2. WrittenFor(h, i - L + h - 1, n, L) = i
      BY <1>1, <2>1 DEF WrittenFor
    <3> QED
      BY <3>1, <3>2
  <2>2. CASE ~(i > L - h)
    <3>1. i - L + h + n - 1 \in 0..(c - 1)
      BY <1>1, <1>2, <1>3, <2>2
    <3>2. WrittenFor(h, i - L + h + n - 1, n, L) = i
      BY <1>1, <1>3, <2>2 DEF WrittenFor
    <3> QED
      BY <3>1, <3>2
  <2> QED
    BY <2>1, <2>2
<1> QED
  BY <1>4, <1>5, <1>6

\* Appending an entry that is not among the last n keeps the repeats apart.
LEMMA ApartAppend ==
    ASSUME NEW n \in Nat \ {0}, NEW s \in Seq(Keys), NEW m \in Keys,
           Apart(s, n),
           m \in Messages => \A i \in 1..Len(s) : Len(s) - i < n => s[i] # m
    PROVE  Apart(Append(s, m), n)
<1> DEFINE t == Append(s, m)
<1>1. /\ Len(t) = Len(s) + 1 /\ t[Len(s) + 1] = m /\ Len(s) \in Nat
      /\ \A i \in 1..Len(s) : t[i] = s[i]
  OBVIOUS
<1> HIDE DEF t
<1>2. SUFFICES ASSUME NEW i \in 1..Len(t), NEW j \in 1..Len(t),
                      i < j, t[i] = t[j], t[i] \in Messages
               PROVE  j - i > n
  BY DEF Apart, t
<1>3. i \in 1..Len(s)
  BY <1>1, <1>2
<1>4. CASE j \in 1..Len(s)
  <2>1. s[i] = s[j] /\ s[i] \in Messages
    BY <1>1, <1>2, <1>3, <1>4
  <2> QED
    BY <1>2, <1>3, <1>4, <2>1 DEF Apart
<1>5. CASE j = Len(s) + 1
  <2>1. s[i] = m /\ m \in Messages
    BY <1>1, <1>2, <1>3, <1>5
  <2>2. ~(Len(s) - i < n)
    BY <1>3, <2>1
  <2> QED
    BY <1>1, <1>3, <1>5, <2>2
<1> QED
  BY <1>1, <1>4, <1>5

-----------------------------------------------------------------------------
\* Recording a message keeps a contact's state well typed.
LEMMA RecordType ==
    ASSUME NEW st \in States, NEW m \in Messages
    PROVE  Record(st, m) \in States
<1>1. RingInsert(st.ring, m, RingLen) \in Rings(RingLen)
  BY RingInsertType, InboundDmAssumption DEF States, Keys
<1>2. (IF Ts[m] > st.lastTs THEN Ts[m] ELSE st.lastTs) \in Nat
  BY InboundDmAssumption DEF States
<1> QED
  BY <1>1, <1>2 DEF Record, States

\* The empty state is well typed.
LEMMA EmptyStateType == EmptyState \in States
  BY RingEmpty, InboundDmAssumption DEF EmptyState, States

(***************************************************************************)
(* The handler, the filters and the crash keep every variable in its type: *)
(* in particular the ring counters stay within their arrays.               *)
(***************************************************************************)
THEOREM TypeCorrect == Spec => []TypeOK
<1>1. Init => TypeOK
  BY RingEmpty, EmptyStateType, InboundDmAssumption DEF Init, TypeOK
<1>2. ASSUME TypeOK, [Next]_vars PROVE TypeOK'
  <2> USE <1>2 DEF TypeOK
  <2>1. ASSUME NEW m \in Keys, Hear(m)
        PROVE  dedup' \in Rings(DedupSlots) /\ heard' \in Seq(Keys)
    <3>1. dedup' \in Rings(DedupSlots)
      BY <2>1, RingInsertType, InboundDmAssumption DEF Hear
    <3>2. heard' \in Seq(Keys)
      BY <2>1 DEF Hear, Keys
    <3> QED
      BY <3>1, <3>2
  <2>2. CASE RxOther
    BY <2>1, <2>2 DEF RxOther, Keys
  <2>3. ASSUME NEW m \in Messages, RxIgnore(m) PROVE TypeOK'
    BY <2>1, <2>3 DEF RxIgnore, Keys
  <2>4. ASSUME NEW m \in Messages, RxReject(m) PROVE TypeOK'
    BY <2>1, <2>4 DEF RxReject, Keys
  <2>5. ASSUME NEW m \in Messages, RxAccept(m) PROVE TypeOK'
    <3>1. dedup' \in Rings(DedupSlots) /\ heard' \in Seq(Keys)
      BY <2>1, <2>5 DEF RxAccept, Keys
    <3>2. From[m] \in Contacts
      BY <2>5 DEF RxAccept, Gated
    <3>3. \A fails \in BOOLEAN : Load(From[m], fails) \in States
      BY <3>2, EmptyStateType DEF Load
    <3>4. \A fails \in BOOLEAN : Record(Load(From[m], fails), m) \in States
      BY <3>3, RecordType
    <3>5. nvs' \in [Contacts -> States] /\ faults' \in Nat
      BY <2>5, <3>2, <3>4 DEF RxAccept, Failed
    <3>6. accepted' \in [Contacts -> Seq(Messages)]
      BY <2>5, <3>2 DEF RxAccept
    <3> QED
      BY <2>5, <3>1, <3>2, <3>5, <3>6 DEF RxAccept, Keys
  <2>6. CASE AppendHistory
    <3>1. cur \in Messages /\ From[cur] \in Contacts
      BY <2>6 DEF AppendHistory
    <3>2. Append(stored[From[cur]], cur) \in Seq(Messages)
      BY <3>1
    <3>3. stored' \in [Contacts -> Seq(Messages)] /\ faults' \in Nat
      BY <2>6, <3>1, <3>2 DEF AppendHistory, Failed
    <3> QED
      BY <2>6, <3>1, <3>3 DEF AppendHistory
  <2>7. CASE Reply
    BY <2>7 DEF Reply
  <2>8. CASE Crash
    BY <2>8, RingEmpty, InboundDmAssumption DEF Crash
  <2>9. CASE UNCHANGED vars
    BY <2>9 DEF vars
  <2> QED
    BY <2>2, <2>3, <2>4, <2>5, <2>6, <2>7, <2>8, <2>9 DEF Next
<1> QED
  BY <1>1, <1>2, PTL DEF Spec

-----------------------------------------------------------------------------
(***************************************************************************)
(* DuplicateFilter.                                                        *)
(***************************************************************************)

\* What makes DedupWindow inductive: the ring is in step with the history.
DedupInv == RingHolds(dedup, heard, DedupSlots) /\ DedupWindow

\* Recording a frame that is not in the ring keeps the invariant.
LEMMA HearKeeps ==
    ASSUME TypeOK, DedupInv, NEW m \in Keys, Hear(m),
           m \in Messages => ~RingContains(dedup, m)
    PROVE  DedupInv'
<1>1. heard \in Seq(Keys) /\ dedup \in Rings(DedupSlots) /\ DedupSlots \in Nat \ {0}
  BY InboundDmAssumption DEF TypeOK, Keys
<1>2. RingHolds(dedup, heard, DedupSlots) /\ Apart(heard, DedupSlots)
  BY DEF DedupInv, DedupWindow
<1>3. dedup' = RingInsert(dedup, m, DedupSlots) /\ heard' = Append(heard, m)
  BY DEF Hear
<1>4. RingHolds(dedup', heard', DedupSlots)
  BY <1>1, <1>2, <1>3, RingKeeps
<1>5. m \in Messages =>
          \A i \in 1..Len(heard) : Len(heard) - i < DedupSlots => heard[i] # m
  BY <1>1, <1>2, RingCovers
<1>6. Apart(heard', DedupSlots)
  BY <1>1, <1>2, <1>3, <1>5, ApartAppend
<1> QED
  BY <1>4, <1>6 DEF DedupInv, DedupWindow

(***************************************************************************)
(* In one uptime a frame passes DuplicateFilter twice only after at least  *)
(* DEDUP_SLOTS others, whatever flash does.                                *)
(***************************************************************************)
THEOREM DedupHolds == Spec => []DedupWindow
<1>1. Init => DedupInv
  BY RingEmpty, InboundDmAssumption DEF Init, DedupInv, DedupWindow, Apart
<1>2. ASSUME TypeOK, DedupInv, [Next]_vars PROVE DedupInv'
  <2> USE <1>2
  <2>1. ASSUME UNCHANGED <<dedup, heard>> PROVE DedupInv'
    BY <2>1 DEF DedupInv, DedupWindow
  <2>2. CASE RxOther
    BY <2>2, HearKeeps, InboundDmAssumption DEF RxOther, Keys
  <2>3. ASSUME NEW m \in Messages, RxIgnore(m) PROVE DedupInv'
    BY <2>3, HearKeeps DEF RxIgnore, Keys
  <2>4. ASSUME NEW m \in Messages, RxReject(m) PROVE DedupInv'
    BY <2>4, HearKeeps DEF RxReject, Keys
  <2>5. ASSUME NEW m \in Messages, RxAccept(m) PROVE DedupInv'
    BY <2>5, HearKeeps DEF RxAccept, Keys
  <2>6. CASE Crash
    BY <2>6, RingEmpty, InboundDmAssumption
       DEF Crash, DedupInv, DedupWindow, Apart
  <2>7. CASE AppendHistory
    BY <2>1, <2>7 DEF AppendHistory
  <2>8. CASE Reply
    BY <2>1, <2>8 DEF Reply
  <2>9. CASE UNCHANGED vars
    BY <2>1, <2>9 DEF vars
  <2> QED
    BY <2>2, <2>3, <2>4, <2>5, <2>6, <2>7, <2>8, <2>9 DEF Next
<1>3. DedupInv => DedupWindow
  BY DEF DedupInv
<1> QED
  BY <1>1, <1>2, <1>3, TypeCorrect, PTL DEF Spec

-----------------------------------------------------------------------------
(***************************************************************************)
(* The persisted guard.                                                    *)
(***************************************************************************)

\* State st guards history s: the ring is in step with it, the mark is above
\* every timestamp in it, and its repeats are apart.
Guards(st, s) ==
    /\ RingHolds(st.ring, s, RingLen)
    /\ \A i \in 1..Len(s) : Ts[s[i]] <= st.lastTs
    /\ Apart(s, RingLen)

GuardInv == faults = 0 => \A c \in Contacts : Guards(nvs[c], accepted[c])

\* Accepting and recording a message keeps the guard in step.
LEMMA RecordGuards ==
    ASSUME NEW st \in States, NEW s \in Seq(Messages), NEW m \in Messages,
           Guards(st, s), Accepts(st, m)
    PROVE  Guards(Record(st, m), Append(s, m))
<1> DEFINE t == Append(s, m)
           u == Record(st, m)
<1>1. /\ s \in Seq(Keys) /\ m \in Keys /\ RingLen \in Nat \ {0}
      /\ st.ring \in Rings(RingLen) /\ st.lastTs \in Nat /\ Ts[m] \in Nat
  BY InboundDmAssumption DEF Keys, States
<1>2. RingHolds(st.ring, s, RingLen) /\ Apart(s, RingLen)
  BY DEF Guards
<1>3. /\ u.ring = RingInsert(st.ring, m, RingLen)
      /\ u.lastTs = IF Ts[m] > st.lastTs THEN Ts[m] ELSE st.lastTs
  BY DEF Record
<1>4. /\ Len(t) = Len(s) + 1 /\ t[Len(s) + 1] = m /\ Len(s) \in Nat
      /\ \A i \in 1..Len(s) : t[i] = s[i] /\ s[i] \in Messages
  OBVIOUS
<1>5. RingHolds(u.ring, t, RingLen)
  BY <1>1, <1>2, <1>3, RingKeeps
<1>6. ASSUME NEW i \in 1..Len(s), Len(s) - i < RingLen PROVE s[i] # m
  <2>1. RingContains(st.ring, s[i])
    BY <1>1, <1>2, <1>6, RingCovers
  <2>2. Ts[s[i]] <= st.lastTs /\ Ts[s[i]] \in Nat
    BY <1>4, InboundDmAssumption DEF Guards
  <2>3. CASE Ts[m] > st.lastTs
    BY <1>1, <2>2, <2>3
  <2>4. CASE ~RingContains(st.ring, m)
    BY <2>1, <2>4
  <2> QED
    BY <2>3, <2>4 DEF Accepts
<1>7. Apart(t, RingLen)
  BY <1>1, <1>2, <1>6, ApartAppend
<1> HIDE DEF t, u
<1>8. ASSUME NEW i \in 1..Len(t) PROVE Ts[t[i]] <= u.lastTs
  <2>1. CASE i \in 1..Len(s)
    <3>1. Ts[s[i]] <= st.lastTs /\ Ts[s[i]] \in Nat /\ t[i] = s[i]
      BY <1>4, <2>1, InboundDmAssumption DEF Guards
    <3> QED
      BY <1>1, <1>3, <3>1
  <2>2. CASE i = Len(s) + 1
    <3>1. t[i] = m
      BY <1>4, <2>2
    <3> QED
      BY <1>1, <1>3, <3>1
  <2> QED
    BY <1>4, <2>1, <2>2
<1> QED
  BY <1>5, <1>7, <1>8 DEF Guards, t, u

(***************************************************************************)
(* A message is accepted twice only after at least REPLAY_RING_LEN others  *)
(* of the same contact, over any number of resets, as long as flash works. *)
(***************************************************************************)
THEOREM GuardHolds == Spec => []NoEarlyReaccept
<1>1. Init => GuardInv
  <2> SUFFICES ASSUME Init, NEW c \in Contacts
               PROVE  Guards(nvs[c], accepted[c])
    BY DEF GuardInv
  <2>1. nvs[c].ring = EmptyRing(RingLen) /\ accepted[c] = <<>>
    BY DEF Init, EmptyState
  <2> QED
    BY <2>1, RingEmpty, InboundDmAssumption DEF Guards, Apart
<1>2. ASSUME TypeOK, GuardInv, [Next]_vars PROVE GuardInv'
  <2> USE <1>2
  <2>1. ASSUME UNCHANGED <<nvs, accepted>>, faults' = 0 => faults = 0 PROVE GuardInv'
    BY <2>1 DEF GuardInv
  <2>2. ASSUME NEW m \in Messages, RxAccept(m) PROVE GuardInv'
    <3> SUFFICES ASSUME faults' = 0, NEW c \in Contacts
                 PROVE  Guards(nvs'[c], accepted'[c])
      BY DEF GuardInv
    <3>0. PICK readFails \in BOOLEAN, saveFails \in BOOLEAN :
             /\ Accepts(Load(From[m], readFails), m)
             /\ nvs' = IF saveFails THEN nvs
                       ELSE [nvs EXCEPT ![From[m]] = Record(Load(From[m], readFails), m)]
             /\ faults' = faults + Failed(readFails) + Failed(saveFails)
      BY <2>2 DEF RxAccept
    <3>01. faults = 0 /\ ~readFails /\ ~saveFails
      BY <3>0 DEF TypeOK, Failed
    <3>1. /\ From[m] \in Contacts
          /\ Accepts(nvs[From[m]], m)
          /\ nvs' = [nvs EXCEPT ![From[m]] = Record(nvs[From[m]], m)]
          /\ accepted' = [accepted EXCEPT ![From[m]] = Append(accepted[From[m]], m)]
      BY <2>2, <3>0, <3>01 DEF RxAccept, Gated, Load
    <3>2. Guards(nvs[c], accepted[c])
      BY <3>01 DEF GuardInv
    <3>3. CASE c = From[m]
      <4>1. nvs[c] \in States /\ accepted[c] \in Seq(Messages)
        BY DEF TypeOK
      <4>2. nvs'[c] = Record(nvs[c], m) /\ accepted'[c] = Append(accepted[c], m)
        BY <3>1, <3>3 DEF TypeOK
      <4> QED
        BY <3>1, <3>2, <3>3, <4>1, <4>2, RecordGuards
    <3>4. CASE c # From[m]
      BY <3>1, <3>2, <3>4 DEF TypeOK
    <3> QED
      BY <3>3, <3>4
  <2>3. ASSUME NEW m \in Messages, RxIgnore(m) PROVE GuardInv'
    BY <2>1, <2>3 DEF RxIgnore
  <2>4. ASSUME NEW m \in Messages, RxReject(m) PROVE GuardInv'
    BY <2>1, <2>4 DEF RxReject
  <2>5. CASE RxOther
    BY <2>1, <2>5 DEF RxOther
  <2>6. CASE Crash
    BY <2>1, <2>6 DEF Crash
  <2>7. CASE AppendHistory
    <3>1. faults' = 0 => faults = 0
      BY <2>7 DEF AppendHistory, Failed, TypeOK
    <3> QED
      BY <2>1, <2>7, <3>1 DEF AppendHistory
  <2>8. CASE Reply
    BY <2>1, <2>8 DEF Reply
  <2>9. CASE UNCHANGED vars
    BY <2>1, <2>9 DEF vars
  <2> QED
    BY <2>2, <2>3, <2>4, <2>5, <2>6, <2>7, <2>8, <2>9 DEF Next
<1>3. GuardInv => NoEarlyReaccept
  BY DEF GuardInv, Guards, NoEarlyReaccept
<1> QED
  BY <1>1, <1>2, <1>3, TypeCorrect, PTL DEF Spec

-----------------------------------------------------------------------------
(***************************************************************************)
(* The history.                                                            *)
(***************************************************************************)

\* What makes AckedIsStored inductive: the message about to be acknowledged is
\* in the history as well, and both are a contact's.
Kept(m) == From[m] \in Contacts /\ Holds(stored[From[m]], m)
ReplyInv == faults = 0 => (\A m \in acked : Kept(m)) /\ (pc = "reply" => Kept(cur))

\* An append keeps what is held.
LEMMA AppendHolds ==
    ASSUME NEW s \in Seq(Messages), NEW x \in Messages
    PROVE  /\ Holds(Append(s, x), x)
           /\ \A m : Holds(s, m) => Holds(Append(s, x), m)
           /\ Append(s, x) \in Seq(Messages) /\ Len(Append(s, x)) = Len(s) + 1
<1> DEFINE t == Append(s, x)
<1>1. /\ Len(t) = Len(s) + 1 /\ t[Len(s) + 1] = x /\ Len(s) \in Nat
      /\ \A i \in 1..Len(s) : t[i] = s[i]
      /\ t \in Seq(Messages)
  OBVIOUS
<1> HIDE DEF t
<1>2. Len(s) + 1 \in 1..Len(t) /\ \A i \in 1..Len(s) : i \in 1..Len(t)
  BY <1>1
<1>3. Holds(t, x)
  BY <1>1, <1>2 DEF Holds
<1>4. \A m : Holds(s, m) => Holds(t, m)
  BY <1>1, <1>2 DEF Holds
<1> QED
  BY <1>1, <1>3, <1>4 DEF t

(***************************************************************************)
(* A message is acknowledged only once it is in the history, wherever a    *)
(* reset interrupts handle_dm, as long as flash works.                     *)
(***************************************************************************)
THEOREM AckedHolds == Spec => []AckedIsStored
<1>1. Init => ReplyInv
  BY DEF Init, ReplyInv
<1>2. ASSUME TypeOK, ReplyInv, [Next]_vars PROVE ReplyInv'
  <2> USE <1>2
  <2>1. ASSUME UNCHANGED <<stored, acked>>, faults' = 0 => faults = 0, pc' # "reply"
        PROVE  ReplyInv'
    BY <2>1 DEF ReplyInv, Kept
  <2>2. ASSUME NEW m \in Messages, RxAccept(m) PROVE ReplyInv'
    <3>1. faults' = 0 => faults = 0
      <4>1. PICK r \in BOOLEAN, w \in BOOLEAN : faults' = faults + Failed(r) + Failed(w)
        BY <2>2 DEF RxAccept
      <4> QED
        BY <4>1 DEF Failed, TypeOK
    <3> QED
      BY <2>1, <2>2, <3>1 DEF RxAccept
  <2>3. ASSUME NEW m \in Messages, RxIgnore(m) PROVE ReplyInv'
    BY <2>1, <2>3 DEF RxIgnore, Hear
  <2>4. ASSUME NEW m \in Messages, RxReject(m) PROVE ReplyInv'
    BY <2>1, <2>4 DEF RxReject, Hear
  <2>5. CASE RxOther
    BY <2>1, <2>5 DEF RxOther, Hear
  <2>6. CASE Crash
    BY <2>1, <2>6 DEF Crash
  <2>7. CASE AppendHistory
    <3> SUFFICES ASSUME faults' = 0 PROVE (\A m \in acked : Kept(m)') /\ Kept(cur)'
      BY <2>7 DEF ReplyInv, AppendHistory
    <3>1. faults = 0 /\ stored' = [stored EXCEPT ![From[cur]] = Append(@, cur)] /\ cur' = cur
      BY <2>7 DEF AppendHistory, Failed, TypeOK
    <3>2. cur \in Messages /\ From[cur] \in Contacts /\ stored[From[cur]] \in Seq(Messages)
      BY <2>7 DEF AppendHistory, TypeOK
    <3> DEFINE s == stored[From[cur]]
               t == Append(s, cur)
    <3>3. Holds(t, cur) /\ \A m : Holds(s, m) => Holds(t, m)
      BY <3>2, AppendHolds
    <3>4. stored'[From[cur]] = t /\ \A c \in Contacts : c # From[cur] => stored'[c] = stored[c]
      BY <3>1, <3>2 DEF TypeOK
    <3> HIDE DEF t
    <3>5. Kept(cur)'
      BY <3>1, <3>2, <3>3, <3>4 DEF Kept
    <3>6. ASSUME NEW m \in acked PROVE Kept(m)'
      <4>1. From[m] \in Contacts /\ Holds(stored[From[m]], m)
        BY <3>1 DEF ReplyInv, Kept
      <4>2. Holds(stored'[From[m]], m)
        BY <3>3, <3>4, <4>1
      <4> QED
        BY <4>1, <4>2 DEF Kept
    <3> QED
      BY <3>5, <3>6
  <2>8. CASE Reply
    BY <2>8 DEF Reply, ReplyInv, Kept
  <2>9. CASE UNCHANGED vars
    BY <2>9 DEF vars, ReplyInv, Kept
  <2> QED
    BY <2>2, <2>3, <2>4, <2>5, <2>6, <2>7, <2>8, <2>9 DEF Next
<1>3. ReplyInv => AckedIsStored
  BY DEF ReplyInv, Kept, AckedIsStored
<1> QED
  BY <1>1, <1>2, <1>3, TypeCorrect, PTL DEF Spec

(***************************************************************************)
(* What the guard will reject from now on is in the history, but for one   *)
(* message a crash and one a failed write: LossBounded is inductive.       *)
(***************************************************************************)
THEOREM LossHolds == Spec => []LossBounded
<1>1. Init => LossBounded
  BY DEF Init, LossBounded, InFlight
<1>2. ASSUME TypeOK, LossBounded, [Next]_vars PROVE LossBounded'
  <2> SUFFICES ASSUME NEW c \in Contacts
               PROVE  Len(accepted'[c]) <= Len(stored'[c]) + crashes' + faults' + InFlight(c)'
    BY DEF LossBounded
  <2>1. /\ accepted[c] \in Seq(Messages) /\ stored[c] \in Seq(Messages)
        /\ Len(accepted[c]) \in Nat /\ Len(stored[c]) \in Nat
        /\ crashes \in Nat /\ faults \in Nat /\ InFlight(c) \in Nat /\ InFlight(c) <= 1
    BY <1>2 DEF TypeOK, InFlight
  <2>2. Len(accepted[c]) <= Len(stored[c]) + crashes + faults + InFlight(c)
    BY <1>2 DEF LossBounded
  <2>3. ASSUME UNCHANGED <<accepted, stored, crashes, faults>>, pc = "idle", pc' = "idle"
        PROVE  Len(accepted'[c]) <= Len(stored'[c]) + crashes' + faults' + InFlight(c)'
    BY <2>2, <2>3 DEF InFlight
  <2>4. ASSUME NEW m \in Messages, RxAccept(m)
        PROVE  Len(accepted'[c]) <= Len(stored'[c]) + crashes' + faults' + InFlight(c)'
    <3>1. PICK r \in BOOLEAN, w \in BOOLEAN : faults' = faults + Failed(r) + Failed(w)
      BY <2>4 DEF RxAccept
    <3>2. faults' \in Nat /\ faults' >= faults
      BY <2>1, <3>1 DEF Failed
    <3>3. /\ pc = "idle" /\ pc' = "append" /\ cur' = m /\ stored' = stored
          /\ crashes' = crashes /\ From[m] \in Contacts
          /\ accepted' = [accepted EXCEPT ![From[m]] = Append(@, m)]
      BY <2>4 DEF RxAccept, Hear, Gated
    <3>4. InFlight(c) = 0
      BY <3>3 DEF InFlight
    <3>5. CASE c = From[m]
      <4>1. InFlight(c)' = 1
        BY <3>3, <3>5 DEF InFlight
      <4>2. Len(accepted'[c]) = Len(accepted[c]) + 1
        <5>1. accepted'[c] = Append(accepted[c], m)
          BY <1>2, <3>3, <3>5 DEF TypeOK
        <5> QED
          BY <2>1, <5>1, AppendHolds
      <4> QED
        BY <2>1, <2>2, <3>2, <3>3, <3>4, <4>1, <4>2
    <3>6. CASE c # From[m]
      <4>1. InFlight(c)' = 0
        BY <3>3, <3>6 DEF InFlight
      <4>2. accepted'[c] = accepted[c]
        BY <1>2, <3>3, <3>6 DEF TypeOK
      <4>3. Len(accepted'[c]) = Len(accepted[c]) /\ Len(stored'[c]) = Len(stored[c])
        BY <3>3, <4>2
      <4> QED
        BY <2>1, <2>2, <3>2, <3>3, <3>4, <4>1, <4>3
    <3> QED
      BY <3>5, <3>6
  <2>5. CASE AppendHistory
    <3>1. PICK fails \in BOOLEAN :
            /\ stored' = IF fails THEN stored
                         ELSE [stored EXCEPT ![From[cur]] = Append(@, cur)]
            /\ faults' = faults + Failed(fails)
      BY <2>5 DEF AppendHistory
    <3>2. /\ pc = "append" /\ pc' = "reply" /\ accepted' = accepted /\ crashes' = crashes
          /\ cur \in Messages /\ From[cur] \in Contacts
      BY <1>2, <2>5 DEF AppendHistory, TypeOK
    <3>3. InFlight(c)' = 0 /\ InFlight(c) = IF From[cur] = c THEN 1 ELSE 0
      BY <3>2 DEF InFlight
    <3>4. CASE fails
      <4>1. faults' = faults + 1
        BY <3>1, <3>4 DEF Failed
      <4>2. Len(accepted'[c]) = Len(accepted[c]) /\ Len(stored'[c]) = Len(stored[c])
        BY <3>1, <3>2, <3>4
      <4> DEFINE a == Len(accepted[c])
                 b == Len(stored[c])
                 n == InFlight(c)
      <4>3. a \in Nat /\ b \in Nat /\ n \in Nat /\ n <= 1 /\ a <= b + crashes + faults + n
        BY <2>1, <2>2
      <4> HIDE DEF a, b, n
      <4>4. a <= b + crashes + (faults + 1) + 0
        BY <2>1, <4>3
      <4> QED
        BY <3>2, <3>3, <4>1, <4>2, <4>4 DEF a, b
    <3>5. CASE ~fails /\ From[cur] = c
      <4>1. stored'[c] = Append(stored[c], cur)
        BY <1>2, <3>1, <3>2, <3>5 DEF TypeOK
      <4>2. Len(stored'[c]) = Len(stored[c]) + 1
        BY <2>1, <3>2, <4>1, AppendHolds
      <4> QED
        BY <2>1, <2>2, <3>1, <3>2, <3>3, <3>5, <4>2 DEF Failed
    <3>6. CASE ~fails /\ From[cur] # c
      <4>1. stored'[c] = stored[c]
        BY <1>2, <3>1, <3>2, <3>6 DEF TypeOK
      <4> QED
        BY <2>1, <2>2, <3>1, <3>2, <3>3, <3>6, <4>1 DEF Failed
    <3> QED
      BY <3>4, <3>5, <3>6
  <2>6. CASE Reply
    BY <2>2, <2>6 DEF Reply, InFlight
  <2>7. CASE Crash
    <3>1. InFlight(c)' = 0 /\ crashes' = crashes + 1 /\ faults' = faults
      BY <2>7 DEF Crash, InFlight
    <3>2. Len(accepted'[c]) = Len(accepted[c]) /\ Len(stored'[c]) = Len(stored[c])
      BY <2>7 DEF Crash
    <3> DEFINE a == Len(accepted[c])
               b == Len(stored[c])
               n == InFlight(c)
    <3>3. a \in Nat /\ b \in Nat /\ n \in Nat /\ n <= 1 /\ a <= b + crashes + faults + n
      BY <2>1, <2>2
    <3> HIDE DEF a, b, n
    <3>4. a <= b + (crashes + 1) + faults + 0
      BY <2>1, <3>3
    <3> QED
      BY <3>1, <3>2, <3>4 DEF a, b
  <2>8. CASE UNCHANGED vars
    BY <2>2, <2>8 DEF vars, InFlight
  <2>9. CASE RxOther
    BY <2>3, <2>9 DEF RxOther, Hear
  <2>10. ASSUME NEW m \in Messages, RxIgnore(m) \/ RxReject(m)
         PROVE  Len(accepted'[c]) <= Len(stored'[c]) + crashes' + faults' + InFlight(c)'
    BY <2>3, <2>10 DEF RxIgnore, RxReject, Hear
  <2> QED
    BY <1>2, <2>4, <2>5, <2>6, <2>7, <2>8, <2>9, <2>10 DEF Next
<1> QED
  BY <1>1, <1>2, TypeCorrect, PTL DEF Spec
=============================================================================
