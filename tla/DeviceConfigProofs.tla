------------------------- MODULE DeviceConfigProofs -------------------------
(***************************************************************************)
(* Proofs about DeviceConfig, for every set of keys and channels, every    *)
(* assignment of routing hashes, every capacity and every bound: the flag  *)
(* never stands without a blob, the lists stay sound through edits,        *)
(* rollbacks, migration and reboots, and an erased room's session comes    *)
(* back only from a save that overlapped the erase.                        *)
(***************************************************************************)
EXTENDS DeviceConfig, TLAPS, FiniteSetTheorems, WellFoundedInduction

Unique(s) == \A i, j \in 1..Len(s) : s[i].key = s[j].key => i = j

OnePrimary(s) == \A i, j \in 1..Len(s) : s[i].primary /\ s[j].primary => i = j

\* A configuration the servers may hold or store.
Good(c) ==
    /\ c \in Lists
    /\ Len(c.contacts) <= MaxContacts /\ Len(c.channels) <= MaxChannels
    /\ Len(c.rooms) <= MaxContacts
    /\ Unique(c.channels) /\ Unique(c.rooms) /\ OnePrimary(c.channels)

\* Key k has the room role in the list l of contacts.
RoomKey(l, k) == \E j \in 1..Len(l) : l[j].room /\ l[j].key = k

\* The provisioning server appends contacts and may repeat a key; then the
\* entry with the role is the first, which is the one a delete takes.
RoomFirst(l) ==
    \A i, j \in 1..Len(l) : l[i].room /\ l[j].key = l[i].key => i <= j

\* The rooms r are the contacts of l that have the role.
Pairs(l, r) == RoomFirst(l) /\ \A k \in Keys : Has(r, k) <=> RoomKey(l, k)

Paired(c) == Pairs(c.contacts, c.rooms)

FlashOK(f) ==
    /\ f \in [flag : 0..1, blob : Blobs \cup {None}]
    /\ f.blob # None => Good(f.blob.config)
    /\ f.flag = 1 => f.blob # None

FlashPaired(f) == f.blob # None /\ f.blob.version = 3 => Paired(f.blob.config)

\* The configuration in RAM and the one in flash.
ConfigIInv ==
    /\ mode \in {"prov", "admin"}
    /\ Good(cfg)
    /\ FlashOK(flash)
    /\ faults \in 0..MaxFaults /\ boots \in 0..MaxBoots
    /\ strayed \in BOOLEAN
    /\ faults = 0 /\ ~strayed => Paired(cfg) /\ FlashPaired(flash)

Fresh(x, b) == x.birth = b[x.key]

\* The erase that runs, if any, is of hash h.
ErasingHash(h) == erase.step # "idle" /\ Hash[erase.key] = h

\* The types of the room store, and the epochs: one erase per edit, so the u8
\* does not come round, and what the dispatcher was booted with is never ahead.
StoreTypes ==
    /\ erase \in [step : {"idle", "remove", "bump"}, key : Keys \cup {None}]
    /\ erase.step = "idle" <=> erase.key = None
    /\ store \in [Hashes -> [blob : Session \cup {None}, epoch : 0..(EpochMod - 1)]]
    /\ \A h \in Hashes : store[h].blob # None => Hash[store[h].blob.key] = h
    /\ DOMAIN runtime \subseteq Keys
    /\ \A k \in DOMAIN runtime :
          /\ runtime[k].session \in Session /\ Hash[runtime[k].session.key] = Hash[k]
          /\ runtime[k].epoch \in Nat /\ runtime[k].epoch <= store[Hash[k]].epoch
    /\ saving \in DOMAIN runtime \cup {None}
    /\ birth \in [Keys -> Nat]
    /\ excused \in BOOLEAN
    /\ edits \in 0..MaxEdits
    /\ \A h \in Hashes : store[h].epoch <= edits
    /\ erase.step # "idle" => \A h \in Hashes : store[h].epoch < edits

\* While nothing is excused: outside the hash being erased every stored blob is
\* of the room as it is now, and so is the session of every runtime whose epoch
\* still stands; between the two steps of an erase its hash has no blob, and no
\* save that may restore it.
FreshInv ==
    /\ \A h \in Hashes : store[h].blob # None =>
          /\ ~(erase.step = "bump" /\ Hash[erase.key] = h)
          /\ ErasingHash(h) \/ Fresh(store[h].blob, birth)
    /\ \A k \in DOMAIN runtime :
          runtime[k].epoch = store[Hash[k]].epoch =>
             ErasingHash(Hash[k]) \/ Fresh(runtime[k].session, birth)
    /\ saving # None =>
          /\ runtime[saving].epoch = store[Hash[saving]].epoch
          /\ ~(erase.step = "bump" /\ Hash[erase.key] = Hash[saving])

StoreIInv == StoreTypes /\ (~excused => FreshInv)

IInv == ConfigIInv /\ StoreIInv

-----------------------------------------------------------------------------
(***************************************************************************)
(* The lists.                                                              *)
(***************************************************************************)
LEMMA LeastExists ==
    ASSUME NEW S \in SUBSET Nat, S # {}
    PROVE  \E m \in S : \A n \in S : m <= n
<1>1. \E x \in S : \A y \in S : <<y, x>> \notin OpToRel(<, Nat)
  BY NatLessThanWellFounded, WFMin
<1>2. PICK m \in S : \A y \in S : <<y, m>> \notin OpToRel(<, Nat)
  BY <1>1
<1>3. \A y \in S : ~(y < m)
  BY <1>2 DEF OpToRel
<1> QED
  BY <1>3

\* What iter().position finds.
LEMMA PositionFacts ==
    ASSUME NEW S, NEW s \in Seq(S), NEW k
    PROVE  /\ Has(s, k) <=> \E i \in 1..Len(s) : s[i].key = k
           /\ Has(s, k) => /\ Position(s, k) \in 1..Len(s)
                           /\ s[Position(s, k)].key = k
                           /\ \A j \in 1..Len(s) : s[j].key = k => Position(s, k) <= j
<1>1. Len(s) \in Nat
  OBVIOUS
<1>2. CASE \E i \in 1..Len(s) : s[i].key = k
  <2> DEFINE I == {i \in 1..Len(s) : s[i].key = k}
  <2>1. I \in SUBSET Nat /\ I # {}
    BY <1>1, <1>2
  <2> HIDE DEF I
  <2>2. PICK m \in I : \A n \in I : m <= n
    BY <2>1, LeastExists
  <2>3. m \in 1..Len(s) /\ s[m].key = k
    BY <2>2 DEF I
  <2>4. \A j \in 1..(m - 1) : s[j].key # k
    <3> SUFFICES ASSUME NEW j \in 1..(m - 1), s[j].key = k
                 PROVE  FALSE
      OBVIOUS
    <3>1. j \in 1..Len(s) /\ j < m
      BY <2>3, <1>1
    <3>2. j \in I
      BY <3>1 DEF I
    <3> QED
      BY <2>2, <2>3, <3>1, <3>2, <1>1
  <2> DEFINE P(i) == s[i].key = k /\ \A j \in 1..(i - 1) : s[j].key # k
  <2>5. P(m)
    BY <2>3, <2>4
  <2>6. Position(s, k) = CHOOSE i \in 1..Len(s) : P(i)
    BY <1>2 DEF Position
  <2>7. Position(s, k) \in 1..Len(s) /\ P(Position(s, k))
    BY <2>3, <2>5, <2>6, Zenon
  <2> DEFINE p == Position(s, k)
  <2> HIDE DEF p
  <2>8. p \in 1..Len(s) /\ s[p].key = k /\ \A j \in 1..(p - 1) : s[j].key # k
    BY <2>7 DEF p
  <2>9. \A j \in 1..Len(s) : s[j].key = k => p <= j
    BY <2>8, <1>1
  <2>10. p # 0
    BY <2>8, <1>1
  <2> QED
    BY <1>2, <2>8, <2>9, <2>10 DEF p, Has
<1>3. CASE ~\E i \in 1..Len(s) : s[i].key = k
  BY <1>3 DEF Position, Has
<1> QED
  BY <1>2, <1>3

LEMMA RemoveFacts ==
    ASSUME NEW S, NEW s \in Seq(S), NEW p \in 1..Len(s)
    PROVE  /\ RemoveAt(s, p) \in Seq(S)
           /\ Len(RemoveAt(s, p)) = Len(s) - 1
           /\ \A i \in 1..(Len(s) - 1) :
                 RemoveAt(s, p)[i] = IF i < p THEN s[i] ELSE s[i + 1]
<1>1. Len(s) \in Nat /\ p \in Nat /\ 1 <= p /\ p <= Len(s)
  OBVIOUS
<1> DEFINE a == SubSeq(s, 1, p - 1)
           b == SubSeq(s, p + 1, Len(s))
<1>2. /\ a \in Seq(S) /\ Len(a) = p - 1
      /\ \A i \in 1..(p - 1) : a[i] = s[i]
  BY <1>1
<1>3. /\ b \in Seq(S) /\ Len(b) = Len(s) - p
      /\ \A i \in 1..(Len(s) - p) : b[i] = s[p + i]
  BY <1>1
<1> HIDE DEF a, b
<1> DEFINE t == a \o b
<1>a. a \in Seq(S) /\ b \in Seq(S)
  BY <1>2, <1>3
<1>b. t \in Seq(S) /\ Len(t) = Len(a) + Len(b)
  BY <1>a
<1>c. \A i \in 1..(Len(a) + Len(b)) : t[i] = IF i <= Len(a) THEN a[i] ELSE b[i - Len(a)]
  BY <1>a
<1>4. /\ t \in Seq(S) /\ Len(t) = Len(a) + Len(b)
      /\ \A i \in 1..Len(t) : t[i] = IF i <= Len(a) THEN a[i] ELSE b[i - Len(a)]
  BY <1>b, <1>c
<1> HIDE DEF t
<1>5. RemoveAt(s, p) = t
  BY DEF RemoveAt, t, a, b
<1>6. Len(t) = Len(s) - 1
  BY <1>1, <1>2, <1>3, <1>4
<1>7. ASSUME NEW i \in 1..(Len(s) - 1)
      PROVE  t[i] = IF i < p THEN s[i] ELSE s[i + 1]
  <2>1. CASE i < p
    <3>1. i \in 1..Len(t) /\ i \in 1..(p - 1) /\ i <= Len(a)
      BY <2>1, <1>1, <1>2, <1>6
    <3>2. t[i] = a[i] /\ a[i] = s[i]
      BY <3>1, <1>2, <1>4
    <3> QED
      BY <2>1, <3>2
  <2>2. CASE ~(i < p)
    <3>1. i - (p - 1) \in 1..(Len(s) - p) /\ ~(i <= p - 1) /\ p + (i - (p - 1)) = i + 1
      BY <2>2, <1>1
    <3>2. t[i] = b[i - (p - 1)]
      BY <3>1, <1>2, <1>4, <1>6
    <3>3. b[i - (p - 1)] = s[i + 1]
      BY <3>1, <1>3
    <3> QED
      BY <2>2, <3>2, <3>3
  <2> QED
    BY <2>1, <2>2
<1> QED
  BY <1>4, <1>5, <1>6, <1>7

\* What a delete leaves: the entries but the first one of that key, in order.
LEMMA WithoutFacts ==
    ASSUME NEW S, NEW s \in Seq(S), NEW k
    PROVE  /\ Without(s, k) \in Seq(S)
           /\ Len(Without(s, k)) <= Len(s)
           /\ ~Has(s, k) => Without(s, k) = s
           /\ Has(s, k) =>
                 /\ Len(Without(s, k)) = Len(s) - 1
                 /\ \A i \in 1..(Len(s) - 1) :
                       Without(s, k)[i] = IF i < Position(s, k) THEN s[i] ELSE s[i + 1]
<1>1. CASE Has(s, k)
  <2>1. Position(s, k) \in 1..Len(s)
    BY <1>1, PositionFacts
  <2>2. Without(s, k) = RemoveAt(s, Position(s, k))
    BY <1>1 DEF Without
  <2>3. Len(s) \in Nat
    OBVIOUS
  <2> QED
    BY <1>1, <2>1, <2>2, <2>3, RemoveFacts
<1>2. CASE ~Has(s, k)
  BY <1>2 DEF Without
<1> QED
  BY <1>1, <1>2

LEMMA UpsertFacts ==
    ASSUME NEW S, NEW s \in Seq(S), NEW e \in S
    PROVE  /\ Upsert(s, e) \in Seq(S)
           /\ Has(s, e.key) =>
                 /\ Len(Upsert(s, e)) = Len(s)
                 /\ \A i \in 1..Len(s) :
                       Upsert(s, e)[i] = IF i = Position(s, e.key) THEN e ELSE s[i]
           /\ ~Has(s, e.key) =>
                 /\ Len(Upsert(s, e)) = Len(s) + 1
                 /\ Upsert(s, e)[Len(s) + 1] = e
                 /\ \A i \in 1..Len(s) : Upsert(s, e)[i] = s[i]
<1>1. CASE Has(s, e.key)
  <2>1. Position(s, e.key) \in 1..Len(s)
    BY <1>1, PositionFacts
  <2>2. Upsert(s, e) = [s EXCEPT ![Position(s, e.key)] = e]
    BY <1>1 DEF Upsert
  <2> QED
    BY <1>1, <2>1, <2>2
<1>2. CASE ~Has(s, e.key)
  <2>1. Upsert(s, e) = Append(s, e)
    BY <1>2 DEF Upsert
  <2> QED
    BY <1>2, <2>1
<1> QED
  BY <1>1, <1>2

LEMMA DropLastFacts ==
    ASSUME NEW S, NEW s \in Seq(S)
    PROVE  /\ DropLast(s) \in Seq(S) /\ Len(DropLast(s)) <= Len(s)
           /\ \A i \in 1..Len(DropLast(s)) : DropLast(s)[i] = s[i]
<1>1. CASE s = <<>>
  BY <1>1 DEF DropLast
<1>2. CASE s # <<>>
  <2>1. DropLast(s) = SubSeq(s, 1, Len(s) - 1)
    BY <1>2 DEF DropLast, Front
  <2>2. Len(s) \in Nat /\ Len(s) >= 1
    BY <1>2
  <2> QED
    BY <2>1, <2>2
<1> QED
  BY <1>1, <1>2

LEMMA UpsertUnique ==
    ASSUME NEW S, NEW s \in Seq(S), NEW e \in S, Unique(s)
    PROVE  Unique(Upsert(s, e))
<1> DEFINE t == Upsert(s, e)
<1>1. Len(s) \in Nat
  OBVIOUS
<1>2. CASE Has(s, e.key)
  <2>1. Position(s, e.key) \in 1..Len(s) /\ s[Position(s, e.key)].key = e.key
    BY <1>2, PositionFacts
  <2>2. Len(t) = Len(s) /\ \A i \in 1..Len(s) : t[i] = IF i = Position(s, e.key) THEN e ELSE s[i]
    BY <1>2, UpsertFacts
  <2> HIDE DEF t
  <2>3. \A i \in 1..Len(t) : t[i].key = s[i].key
    BY <2>1, <2>2
  <2>4. Unique(t)
    BY <2>2, <2>3 DEF Unique
  <2> QED
    BY <2>4 DEF t
<1>3. CASE ~Has(s, e.key)
  <2>1. \A i \in 1..Len(s) : s[i].key # e.key
    BY <1>3, PositionFacts
  <2>2. /\ Len(t) = Len(s) + 1 /\ t[Len(s) + 1] = e
        /\ \A i \in 1..Len(s) : t[i] = s[i]
    BY <1>3, UpsertFacts
  <2> HIDE DEF t
  <2>3. ASSUME NEW i \in 1..Len(t), NEW j \in 1..Len(t), t[i].key = t[j].key
        PROVE  i = j
    <3>1. (i \in 1..Len(s) \/ i = Len(s) + 1) /\ (j \in 1..Len(s) \/ j = Len(s) + 1)
      BY <1>1, <2>2
    <3>2. CASE i \in 1..Len(s) /\ j \in 1..Len(s)
      BY <3>2, <2>2, <2>3 DEF Unique
    <3>3. CASE ~(i \in 1..Len(s) /\ j \in 1..Len(s))
      BY <3>1, <3>3, <2>1, <2>2, <2>3
    <3> QED
      BY <3>2, <3>3
  <2>4. Unique(t)
    BY <2>3 DEF Unique
  <2> QED
    BY <2>4 DEF t
<1> QED
  BY <1>2, <1>3

\* A list of channels with one primary at most keeps one at most.
LEMMA UpsertOnePrimary ==
    ASSUME NEW S, NEW s \in Seq(S), NEW e \in S, OnePrimary(s),
           e.primary => \A i \in 1..Len(s) : ~s[i].primary
    PROVE  OnePrimary(Upsert(s, e))
<1> DEFINE t == Upsert(s, e)
<1>1. Len(s) \in Nat
  OBVIOUS
<1>2. CASE Has(s, e.key)
  <2>1. Len(t) = Len(s) /\ \A i \in 1..Len(s) : t[i] = IF i = Position(s, e.key) THEN e ELSE s[i]
    BY <1>2, UpsertFacts
  <2> HIDE DEF t
  <2>2. OnePrimary(t)
    BY <2>1 DEF OnePrimary
  <2> QED
    BY <2>2 DEF t
<1>3. CASE ~Has(s, e.key)
  <2>1. /\ Len(t) = Len(s) + 1 /\ t[Len(s) + 1] = e
        /\ \A i \in 1..Len(s) : t[i] = s[i]
    BY <1>3, UpsertFacts
  <2> HIDE DEF t
  <2>2. \A i \in 1..Len(t) : i \in 1..Len(s) \/ i = Len(s) + 1
    BY <1>1, <2>1
  <2>3. OnePrimary(t)
    BY <2>1, <2>2 DEF OnePrimary
  <2> QED
    BY <2>3 DEF t
<1> QED
  BY <1>2, <1>3

LEMMA WithoutSound ==
    ASSUME NEW S, NEW s \in Seq(S), NEW k
    PROVE  /\ Unique(s) => Unique(Without(s, k))
           /\ OnePrimary(s) => OnePrimary(Without(s, k))
<1> DEFINE t == Without(s, k)
<1>1. CASE Has(s, k)
  <2>1. Position(s, k) \in 1..Len(s) /\ Len(s) \in Nat
    BY <1>1, PositionFacts
  <2>2. /\ Len(t) = Len(s) - 1
        /\ \A i \in 1..(Len(s) - 1) : t[i] = IF i < Position(s, k) THEN s[i] ELSE s[i + 1]
    BY <1>1, WithoutFacts
  <2> HIDE DEF t
  <2> DEFINE at(i) == IF i < Position(s, k) THEN i ELSE i + 1
  <2>3. \A i \in 1..Len(t) : at(i) \in 1..Len(s) /\ t[i] = s[at(i)]
    BY <2>1, <2>2
  <2>4. \A i, j \in 1..Len(t) : at(i) = at(j) => i = j
    BY <2>1, <2>2
  <2> HIDE DEF at
  <2>5. /\ Unique(s) => Unique(t)
        /\ OnePrimary(s) => OnePrimary(t)
    BY <2>3, <2>4 DEF Unique, OnePrimary
  <2> QED
    BY <2>5 DEF t
<1>2. CASE ~Has(s, k)
  BY <1>2 DEF Without
<1> QED
  BY <1>1, <1>2

LEMMA DropLastSound ==
    ASSUME NEW S, NEW s \in Seq(S)
    PROVE  /\ Unique(s) => Unique(DropLast(s))
           /\ OnePrimary(s) => OnePrimary(DropLast(s))
<1> DEFINE t == DropLast(s)
<1>1. t \in Seq(S) /\ Len(t) <= Len(s) /\ \A i \in 1..Len(t) : t[i] = s[i]
  BY DropLastFacts
<1> HIDE DEF t
<1>2. \A i \in 1..Len(t) : i \in 1..Len(s) /\ t[i] = s[i]
  BY <1>1
<1>3. /\ Unique(s) => Unique(t)
      /\ OnePrimary(s) => OnePrimary(t)
  BY <1>2 DEF Unique, OnePrimary
<1> QED
  BY <1>3 DEF t

-----------------------------------------------------------------------------
(***************************************************************************)
(* Configurations: what each edit makes of a good one.                     *)
(***************************************************************************)
ContactRec == [key : Keys, room : BOOLEAN]
RoomRec    == [key : Keys]
ChannelRec == [key : Chans, primary : BOOLEAN]
ContactSeq == Seq(ContactRec)
RoomSeq    == Seq(RoomRec)
ChannelSeq == Seq(ChannelRec)

LEMMA SeqLen ==
    ASSUME NEW S, NEW s \in Seq(S)
    PROVE  Len(s) \in Nat
  OBVIOUS

LEMMA AppendFacts ==
    ASSUME NEW S, NEW s \in Seq(S), NEW e \in S
    PROVE  /\ Append(s, e) \in Seq(S) /\ Len(Append(s, e)) = Len(s) + 1
           /\ Append(s, e)[Len(s) + 1] = e
           /\ \A i \in 1..Len(s) : Append(s, e)[i] = s[i]
  OBVIOUS

LEMMA GoodFields ==
    ASSUME NEW c, Good(c)
    PROVE  /\ c.contacts \in ContactSeq /\ c.rooms \in RoomSeq
           /\ c.channels \in ChannelSeq /\ c.setting \in 0..1
           /\ Len(c.contacts) <= MaxContacts /\ Len(c.channels) <= MaxChannels
           /\ Len(c.rooms) <= MaxContacts
           /\ Unique(c.channels) /\ Unique(c.rooms) /\ OnePrimary(c.channels)
           /\ Len(c.contacts) \in Nat /\ Len(c.rooms) \in Nat /\ Len(c.channels) \in Nat
<1>1. /\ c.contacts \in Seq(ContactRec) /\ c.rooms \in Seq(RoomRec)
      /\ c.channels \in Seq(ChannelRec) /\ c.setting \in 0..1
  BY DEF Good, Lists, ContactRec, RoomRec, ChannelRec
<1>2. Len(c.contacts) \in Nat /\ Len(c.rooms) \in Nat /\ Len(c.channels) \in Nat
  BY <1>1, SeqLen, Zenon
<1> QED
  BY <1>1, <1>2 DEF Good, ContactSeq, RoomSeq, ChannelSeq

LEMMA WithContacts ==
    ASSUME NEW c, Good(c), NEW l \in ContactSeq, Len(l) <= MaxContacts
    PROVE  LET d == [c EXCEPT !.contacts = l]
           IN  /\ Good(d) /\ d.contacts = l /\ d.rooms = c.rooms
               /\ d.channels = c.channels
<1> DEFINE d == [c EXCEPT !.contacts = l]
<1>1. /\ d \in Lists
      /\ d.contacts = l /\ d.rooms = c.rooms /\ d.channels = c.channels
  BY DEF Good, Lists, ContactSeq, ContactRec
<1> HIDE DEF d
<1>2. Good(d)
  BY <1>1, GoodFields DEF Good
<1> QED
  BY <1>1, <1>2 DEF d

LEMMA WithRooms ==
    ASSUME NEW c, Good(c), NEW l \in RoomSeq, Len(l) <= MaxContacts, Unique(l)
    PROVE  LET d == [c EXCEPT !.rooms = l]
           IN  /\ Good(d) /\ d.contacts = c.contacts /\ d.rooms = l
               /\ d.channels = c.channels
<1> DEFINE d == [c EXCEPT !.rooms = l]
<1>1. /\ d \in Lists
      /\ d.contacts = c.contacts /\ d.rooms = l /\ d.channels = c.channels
  BY DEF Good, Lists, RoomSeq, RoomRec
<1> HIDE DEF d
<1>2. Good(d)
  BY <1>1, GoodFields DEF Good
<1> QED
  BY <1>1, <1>2 DEF d

LEMMA WithChannels ==
    ASSUME NEW c, Good(c), NEW l \in ChannelSeq, Len(l) <= MaxChannels,
           Unique(l), OnePrimary(l)
    PROVE  LET d == [c EXCEPT !.channels = l]
           IN  /\ Good(d) /\ d.contacts = c.contacts /\ d.rooms = c.rooms
               /\ d.channels = l
<1> DEFINE d == [c EXCEPT !.channels = l]
<1>1. /\ d \in Lists
      /\ d.contacts = c.contacts /\ d.rooms = c.rooms /\ d.channels = l
  BY DEF Good, Lists, ChannelSeq, ChannelRec
<1> HIDE DEF d
<1>2. Good(d)
  BY <1>1, GoodFields DEF Good
<1> QED
  BY <1>1, <1>2 DEF d

LEMMA WithSetting ==
    ASSUME NEW c, Good(c), NEW v \in 0..1
    PROVE  LET d == [c EXCEPT !.setting = v]
           IN  /\ Good(d) /\ d.contacts = c.contacts /\ d.rooms = c.rooms
               /\ d.channels = c.channels
<1> DEFINE d == [c EXCEPT !.setting = v]
<1>1. /\ d \in Lists
      /\ d.contacts = c.contacts /\ d.rooms = c.rooms /\ d.channels = c.channels
  BY DEF Good, Lists
<1> HIDE DEF d
<1>2. Good(d)
  BY <1>1, GoodFields DEF Good
<1> QED
  BY <1>1, <1>2 DEF d

LEMMA GoodAppendContact ==
    ASSUME NEW c, Good(c), NEW k \in Keys, Len(c.contacts) < MaxContacts
    PROVE  Good([c EXCEPT !.contacts = Append(@, Contact(k, FALSE))])
<1> DEFINE e == Contact(k, FALSE)
           n == Len(c.contacts)
<1>1. e \in ContactRec /\ c.contacts \in ContactSeq /\ n \in Nat
  BY GoodFields DEF Contact, ContactRec
<1> HIDE DEF e
<1>2. Append(c.contacts, e) \in ContactSeq /\ Len(Append(c.contacts, e)) = n + 1 /\ n \in Nat
  BY <1>1, AppendFacts DEF ContactSeq
<1>3. n + 1 <= MaxContacts
  BY <1>2, DeviceConfigAssumption
<1>4. Good([c EXCEPT !.contacts = Append(@, e)])
  BY <1>2, <1>3, WithContacts
<1> QED
  BY <1>4 DEF e

\* A list that has room for an entry, or has the entry, keeps to its capacity.
LEMMA UpsertFits ==
    ASSUME NEW S, NEW s \in Seq(S), NEW e \in S, NEW cap \in Nat,
           Len(s) <= cap, ~Full(s, e.key, cap)
    PROVE  Upsert(s, e) \in Seq(S) /\ Len(Upsert(s, e)) <= cap
<1>1. Len(s) \in Nat
  OBVIOUS
<1>2. CASE Has(s, e.key)
  BY <1>1, <1>2, UpsertFacts
<1>3. CASE ~Has(s, e.key)
  <2>1. Len(s) < cap
    BY <1>1, <1>3 DEF Full
  <2>2. Upsert(s, e) \in Seq(S) /\ Len(Upsert(s, e)) = Len(s) + 1
    BY <1>3, UpsertFacts
  <2> QED
    BY <1>1, <2>1, <2>2
<1> QED
  BY <1>2, <1>3

LEMMA GoodUpsertContact ==
    ASSUME NEW c, Good(c), NEW k \in Keys, NEW room \in BOOLEAN,
           ~Full(c.contacts, k, MaxContacts)
    PROVE  /\ Good(UpsertContact(c, k, room))
           /\ UpsertContact(c, k, room).contacts = Upsert(c.contacts, Contact(k, room))
           /\ UpsertContact(c, k, room).rooms = c.rooms
<1> DEFINE e == Contact(k, room)
           l == Upsert(c.contacts, e)
<1>1. e \in ContactRec /\ e.key = k
  BY DEF Contact, ContactRec
<1>2. c.contacts \in ContactSeq /\ Len(c.contacts) \in Nat /\ Len(c.contacts) <= MaxContacts
  BY GoodFields
<1> HIDE DEF e
<1>3. ~Full(c.contacts, e.key, MaxContacts) /\ MaxContacts \in Nat
  BY <1>1, DeviceConfigAssumption
<1>4. l \in ContactSeq /\ Len(l) <= MaxContacts
  BY <1>1, <1>2, <1>3, UpsertFits DEF ContactSeq
<1> HIDE DEF l
<1>5. UpsertContact(c, k, room) = [c EXCEPT !.contacts = l]
  BY DEF UpsertContact, l, e
<1> QED
  BY <1>4, <1>5, WithContacts DEF l, e

LEMMA GoodDelContact ==
    ASSUME NEW c, Good(c), NEW k
    PROVE  Good([c EXCEPT !.contacts = Without(@, k)])
<1>1. c.contacts \in ContactSeq /\ Len(c.contacts) \in Nat /\ Len(c.contacts) <= MaxContacts
  BY GoodFields
<1> DEFINE l == Without(c.contacts, k)
<1>2. l \in ContactSeq /\ Len(l) \in Nat /\ Len(l) <= Len(c.contacts)
  BY <1>1, WithoutFacts DEF ContactSeq
<1> HIDE DEF l
<1>3. Len(l) <= MaxContacts
  BY <1>1, <1>2, DeviceConfigAssumption
<1>4. Good([c EXCEPT !.contacts = l])
  BY <1>2, <1>3, WithContacts
<1> QED
  BY <1>4 DEF l

LEMMA GoodDelChannel ==
    ASSUME NEW c, Good(c), NEW k
    PROVE  Good([c EXCEPT !.channels = Without(@, k)])
<1>1. /\ c.channels \in ChannelSeq /\ Len(c.channels) \in Nat /\ Len(c.channels) <= MaxChannels
      /\ Unique(c.channels) /\ OnePrimary(c.channels)
  BY GoodFields
<1> DEFINE l == Without(c.channels, k)
<1>2. l \in ChannelSeq /\ Len(l) \in Nat /\ Len(l) <= Len(c.channels)
  BY <1>1, WithoutFacts DEF ChannelSeq
<1>3. Unique(l) /\ OnePrimary(l)
  BY <1>1, WithoutSound DEF ChannelSeq
<1> HIDE DEF l
<1>4. Len(l) <= MaxChannels
  BY <1>1, <1>2, DeviceConfigAssumption
<1>5. Good([c EXCEPT !.channels = l])
  BY <1>2, <1>3, <1>4, WithChannels
<1> QED
  BY <1>5 DEF l

LEMMA GoodUpsertChannel ==
    ASSUME NEW c, Good(c), NEW k \in Chans, NEW primary \in BOOLEAN,
           ~Full(c.channels, k, MaxChannels)
    PROVE  /\ Good(UpsertChannel(c, k, primary))
           /\ UpsertChannel(c, k, primary).contacts = c.contacts
           /\ UpsertChannel(c, k, primary).rooms = c.rooms
<1> DEFINE s == c.channels
           e == [key |-> k, primary |-> primary]
           d == [i \in 1..Len(s) |-> IF primary THEN [s[i] EXCEPT !.primary = FALSE] ELSE s[i]]
           l == Upsert(d, e)
<1>1. /\ s \in Seq(ChannelRec) /\ Len(s) \in Nat /\ Len(s) <= MaxChannels
      /\ Unique(s) /\ OnePrimary(s)
  BY GoodFields DEF ChannelSeq
<1>2. e \in ChannelRec /\ e.key = k /\ e.primary = primary
  BY DEF ChannelRec
<1> HIDE DEF s, e
<1>3. \A i \in 1..Len(s) : s[i] \in ChannelRec
  BY <1>1
<1>4. \A i \in 1..Len(s) :
         /\ d[i] \in ChannelRec /\ d[i].key = s[i].key
         /\ primary => ~d[i].primary
         /\ ~primary => d[i] = s[i]
  BY <1>3 DEF ChannelRec
<1>5. d \in Seq(ChannelRec) /\ Len(d) = Len(s)
  BY <1>1, <1>4
<1> HIDE DEF d
<1>6. Unique(d) /\ OnePrimary(d) /\ (e.primary => \A i \in 1..Len(d) : ~d[i].primary)
  BY <1>1, <1>2, <1>4, <1>5 DEF Unique, OnePrimary
<1>7. Has(d, k) <=> Has(s, k)
  BY <1>1, <1>4, <1>5, PositionFacts
<1>8. ~Full(d, e.key, MaxChannels) /\ MaxChannels \in Nat /\ Len(d) <= MaxChannels
  BY <1>1, <1>2, <1>5, <1>7, DeviceConfigAssumption DEF Full, s
<1>9. l \in ChannelSeq /\ Len(l) <= MaxChannels
  BY <1>2, <1>5, <1>8, UpsertFits DEF ChannelSeq
<1>10. Unique(l) /\ OnePrimary(l)
  BY <1>2, <1>5, <1>6, UpsertUnique, UpsertOnePrimary
<1> HIDE DEF l
<1>11. UpsertChannel(c, k, primary) = [c EXCEPT !.channels = l]
  BY DEF UpsertChannel, l, d, s, e
<1> QED
  BY <1>9, <1>10, <1>11, WithChannels

LEMMA GoodUpsertRoom ==
    ASSUME NEW c, Good(c), NEW k \in Keys,
           ~Full(c.contacts, k, MaxContacts), ~Overflows(UpsertRoom(c, k))
    PROVE  /\ Good(UpsertRoom(c, k))
           /\ UpsertRoom(c, k).contacts = Upsert(c.contacts, Contact(k, TRUE))
           /\ UpsertRoom(c, k).rooms = Upsert(c.rooms, [key |-> k])
<1> DEFINE d == UpsertContact(c, k, TRUE)
           e == [key |-> k]
           l == Upsert(c.rooms, e)
<1>1. Good(d) /\ d.contacts = Upsert(c.contacts, Contact(k, TRUE)) /\ d.rooms = c.rooms
  BY GoodUpsertContact
<1> HIDE DEF d
<1>2. e \in RoomRec
  BY DEF RoomRec
<1>3. c.rooms \in Seq(RoomRec) /\ Unique(c.rooms)
  BY GoodFields DEF RoomSeq
<1> HIDE DEF e
<1>4. l \in RoomSeq /\ Unique(l) /\ Len(l) \in Nat
  BY <1>2, <1>3, UpsertFacts, UpsertUnique, SeqLen DEF RoomSeq
<1>5. UpsertRoom(c, k) = [d EXCEPT !.rooms = l]
  BY <1>1 DEF UpsertRoom, d, l, e
<1>6. d \in Lists
  BY <1>1 DEF Good
<1> HIDE DEF l
<1>7. [d EXCEPT !.rooms = l].rooms = l
  BY <1>6 DEF Lists
<1>8. Len(l) <= MaxContacts
  BY <1>4, <1>5, <1>7, DeviceConfigAssumption DEF Overflows
<1>9. /\ Good([d EXCEPT !.rooms = l])
      /\ [d EXCEPT !.rooms = l].contacts = d.contacts
  BY <1>1, <1>4, <1>8, WithRooms
<1> QED
  BY <1>1, <1>5, <1>7, <1>9 DEF l, e

\* The contacts and the rooms of a configuration are replaced.
Both(c, l, r) == [[c EXCEPT !.contacts = l] EXCEPT !.rooms = r]

LEMMA WithBoth ==
    ASSUME NEW c, Good(c), NEW l \in ContactSeq, Len(l) <= MaxContacts,
           NEW r \in RoomSeq, Len(r) <= MaxContacts, Unique(r)
    PROVE  /\ Good(Both(c, l, r))
           /\ Both(c, l, r).contacts = l /\ Both(c, l, r).rooms = r
<1> DEFINE m == [c EXCEPT !.contacts = l]
<1>1. Good(m) /\ m.contacts = l
  BY WithContacts
<1> HIDE DEF m
<1>2. LET d == [m EXCEPT !.rooms = r]
      IN  Good(d) /\ d.contacts = m.contacts /\ d.rooms = r
  BY <1>1, WithRooms
<1>3. /\ Good([m EXCEPT !.rooms = r])
      /\ [m EXCEPT !.rooms = r].contacts = l
      /\ [m EXCEPT !.rooms = r].rooms = r
  BY <1>1, <1>2
<1> QED
  BY <1>3 DEF m, Both

LEMMA GoodRemoveRoom ==
    ASSUME NEW c, Good(c), NEW k
    PROVE  /\ Good(RemoveRoom(c, k))
           /\ RemoveRoom(c, k).contacts = Without(c.contacts, k)
           /\ RemoveRoom(c, k).rooms = Without(c.rooms, k)
<1> DEFINE l == Without(c.contacts, k)
           r == Without(c.rooms, k)
<1>1. /\ c.contacts \in Seq(ContactRec) /\ Len(c.contacts) \in Nat
      /\ Len(c.contacts) <= MaxContacts
  BY GoodFields DEF ContactSeq
<1>2. /\ c.rooms \in Seq(RoomRec) /\ Len(c.rooms) \in Nat
      /\ Len(c.rooms) <= MaxContacts /\ Unique(c.rooms)
  BY GoodFields DEF RoomSeq
<1>3. l \in Seq(ContactRec) /\ Len(l) <= Len(c.contacts) /\ Len(l) \in Nat
  BY <1>1, WithoutFacts, SeqLen
<1>4. r \in Seq(RoomRec) /\ Len(r) <= Len(c.rooms) /\ Len(r) \in Nat /\ Unique(r)
  BY <1>2, WithoutFacts, WithoutSound, SeqLen
<1> HIDE DEF l, r
<1>5. Len(l) <= MaxContacts /\ Len(r) <= MaxContacts
  BY <1>1, <1>2, <1>3, <1>4, DeviceConfigAssumption
<1>6. RemoveRoom(c, k) = Both(c, l, r)
  BY DEF RemoveRoom, l, r, Good, Lists, Both
<1>7. /\ Good(RemoveRoom(c, k))
      /\ RemoveRoom(c, k).contacts = l /\ RemoveRoom(c, k).rooms = r
  <2>1. l \in ContactSeq /\ r \in RoomSeq
    BY <1>3, <1>4 DEF ContactSeq, RoomSeq
  <2> QED
    BY <2>1, <1>4, <1>5, <1>6, WithBoth
<1> QED
  BY <1>7 DEF l, r

EditKinds == {"contact", "channel", "room", "setting"}

LEMMA GoodRolledBack ==
    ASSUME NEW c, Good(c), NEW kind \in EditKinds
    PROVE  Good(RolledBack(c, kind))
<1> DEFINE l == DropLast(c.contacts)
           r == DropLast(c.rooms)
           h == DropLast(c.channels)
<1>1. /\ c.contacts \in Seq(ContactRec) /\ Len(c.contacts) \in Nat
      /\ Len(c.contacts) <= MaxContacts
      /\ c.rooms \in Seq(RoomRec) /\ Len(c.rooms) \in Nat
      /\ Len(c.rooms) <= MaxContacts /\ Unique(c.rooms)
      /\ c.channels \in Seq(ChannelRec) /\ Len(c.channels) \in Nat
      /\ Len(c.channels) <= MaxChannels /\ Unique(c.channels) /\ OnePrimary(c.channels)
  BY GoodFields DEF ContactSeq, RoomSeq, ChannelSeq
<1>2. l \in Seq(ContactRec) /\ Len(l) <= Len(c.contacts) /\ Len(l) \in Nat
  BY <1>1, DropLastFacts, SeqLen
<1>3. r \in Seq(RoomRec) /\ Len(r) <= Len(c.rooms) /\ Len(r) \in Nat /\ Unique(r)
  BY <1>1, DropLastFacts, DropLastSound, SeqLen
<1>4. /\ h \in Seq(ChannelRec) /\ Len(h) <= Len(c.channels) /\ Len(h) \in Nat
      /\ Unique(h) /\ OnePrimary(h)
  BY <1>1, DropLastFacts, DropLastSound, SeqLen
<1> HIDE DEF l, r, h
<1>5. Len(l) <= MaxContacts /\ Len(r) <= MaxContacts /\ Len(h) <= MaxChannels
  BY <1>1, <1>2, <1>3, <1>4, DeviceConfigAssumption
<1>6. CASE kind = "contact"
  <2>1. RolledBack(c, kind) = [c EXCEPT !.contacts = l]
    BY <1>6 DEF RolledBack, l
  <2> QED
    BY <2>1, <1>2, <1>5, WithContacts DEF ContactSeq
<1>7. CASE kind = "channel"
  <2>1. RolledBack(c, kind) = [c EXCEPT !.channels = h]
    BY <1>7 DEF RolledBack, h
  <2> QED
    BY <2>1, <1>4, <1>5, WithChannels DEF ChannelSeq
<1>8. CASE kind = "room"
  <2>1. RolledBack(c, kind) = Both(c, l, r)
    BY <1>8 DEF RolledBack, l, r, Good, Lists, Both
  <2>2. l \in ContactSeq /\ r \in RoomSeq
    BY <1>2, <1>3 DEF ContactSeq, RoomSeq
  <2>3. Good(Both(c, l, r))
    BY <2>2, <1>3, <1>5, WithBoth
  <2> QED
    BY <2>1, <2>3
<1>9. CASE kind = "setting"
  BY <1>9 DEF RolledBack
<1> QED
  BY <1>6, <1>7, <1>8, <1>9 DEF EditKinds

-----------------------------------------------------------------------------
(***************************************************************************)
(* Rooms and the contacts with the room role.                              *)
(***************************************************************************)
LEMMA UpsertKeys ==
    ASSUME NEW S, NEW s \in Seq(S), NEW e \in S, NEW x
    PROVE  Has(Upsert(s, e), x) <=> (Has(s, x) \/ x = e.key)
<1> DEFINE t == Upsert(s, e)
<1>1. t \in Seq(S) /\ Len(s) \in Nat
  BY UpsertFacts
<1>2. /\ Has(t, x) <=> \E i \in 1..Len(t) : t[i].key = x
      /\ Has(s, x) <=> \E i \in 1..Len(s) : s[i].key = x
  BY <1>1, PositionFacts
<1>3. CASE Has(s, e.key)
  <2>1. Position(s, e.key) \in 1..Len(s) /\ s[Position(s, e.key)].key = e.key
    BY <1>3, PositionFacts
  <2>2. Len(t) = Len(s) /\ \A i \in 1..Len(s) : t[i] = IF i = Position(s, e.key) THEN e ELSE s[i]
    BY <1>3, UpsertFacts
  <2> HIDE DEF t
  <2>3. \A i \in 1..Len(t) : t[i].key = s[i].key
    BY <2>1, <2>2
  <2>4. Has(t, x) <=> Has(s, x)
    BY <1>2, <2>2, <2>3
  <2> QED
    BY <1>3, <2>4 DEF t
<1>4. CASE ~Has(s, e.key)
  <2>1. /\ Len(t) = Len(s) + 1 /\ t[Len(s) + 1] = e
        /\ \A i \in 1..Len(s) : t[i] = s[i]
    BY <1>4, UpsertFacts
  <2> HIDE DEF t
  <2>2. Len(s) + 1 \in 1..Len(t) /\ \A i \in 1..Len(s) : i \in 1..Len(t)
    BY <1>1, <2>1
  <2>3. \A i \in 1..Len(t) : i \in 1..Len(s) \/ i = Len(s) + 1
    BY <1>1, <2>1
  <2>4. Has(t, x) <=> (Has(s, x) \/ x = e.key)
    BY <1>2, <2>1, <2>2, <2>3
  <2> QED
    BY <2>4 DEF t
<1> QED
  BY <1>3, <1>4

\* Every entry but the one deleted is still there, under a shifted index that
\* keeps the order.
LEMMA WithoutIndex ==
    ASSUME NEW S, NEW s \in Seq(S), NEW k, Has(s, k)
    PROVE  LET at(i) == IF i < Position(s, k) THEN i ELSE i + 1
               t == Without(s, k)
           IN  /\ t \in Seq(S) /\ Len(t) \in Nat
               /\ \A i \in 1..Len(t) :
                     at(i) \in 1..Len(s) /\ at(i) # Position(s, k) /\ t[i] = s[at(i)]
               /\ \A i, j \in 1..Len(t) : at(i) <= at(j) => i <= j
               /\ \A j \in 1..Len(s) :
                     j # Position(s, k) => \E i \in 1..Len(t) : at(i) = j
<1> DEFINE p == Position(s, k)
           at(i) == IF i < p THEN i ELSE i + 1
           t == Without(s, k)
<1>1. p \in 1..Len(s) /\ Len(s) \in Nat
  BY PositionFacts
<1>2. /\ t \in Seq(S)
      /\ Len(t) = Len(s) - 1
      /\ \A i \in 1..(Len(s) - 1) : t[i] = IF i < p THEN s[i] ELSE s[i + 1]
  BY WithoutFacts
<1> HIDE DEF p, t
<1>3. Len(t) \in Nat
  BY <1>1, <1>2
<1>4. \A i \in 1..Len(t) : at(i) \in 1..Len(s) /\ at(i) # p /\ t[i] = s[at(i)]
  BY <1>1, <1>2
<1>5. \A i, j \in 1..Len(t) : at(i) <= at(j) => i <= j
  BY <1>1, <1>2
<1>6. ASSUME NEW j \in 1..Len(s), j # p
      PROVE  \E i \in 1..Len(t) : at(i) = j
  <2>1. CASE j < p
    BY <2>1, <1>1, <1>2
  <2>2. CASE ~(j < p)
    <3>1. j - 1 \in 1..Len(t) /\ at(j - 1) = j
      BY <2>2, <1>1, <1>2, <1>6
    <3> QED
      BY <3>1
  <2> QED
    BY <2>1, <2>2
<1> QED
  BY <1>2, <1>3, <1>4, <1>5, <1>6 DEF p, t

LEMMA WithoutKeys ==
    ASSUME NEW S, NEW s \in Seq(S), NEW k, Unique(s), NEW x
    PROVE  Has(Without(s, k), x) <=> (Has(s, x) /\ x # k)
<1>1. CASE ~Has(s, k)
  BY <1>1 DEF Without
<1>2. CASE Has(s, k)
  <2> DEFINE p == Position(s, k)
             at(i) == IF i < p THEN i ELSE i + 1
             t == Without(s, k)
  <2>1. /\ t \in Seq(S)
        /\ \A i \in 1..Len(t) : at(i) \in 1..Len(s) /\ at(i) # p /\ t[i] = s[at(i)]
        /\ \A j \in 1..Len(s) : j # p => \E i \in 1..Len(t) : at(i) = j
    BY <1>2, WithoutIndex
  <2>2. p \in 1..Len(s) /\ s[p].key = k
    BY <1>2, PositionFacts
  <2>3. /\ Has(t, x) <=> \E i \in 1..Len(t) : t[i].key = x
        /\ Has(s, x) <=> \E i \in 1..Len(s) : s[i].key = x
    BY <2>1, PositionFacts
  <2> HIDE DEF p, t, at
  <2>4. Has(t, x) => Has(s, x) /\ x # k
    BY <2>1, <2>2, <2>3 DEF Unique
  <2>5. Has(s, x) /\ x # k => Has(t, x)
    BY <2>1, <2>2, <2>3
  <2>6. Has(t, x) <=> (Has(s, x) /\ x # k)
    BY <2>4, <2>5
  <2> QED
    BY <2>6 DEF t
<1> QED
  BY <1>1, <1>2

\* Updating a contact gives or takes the role at the entry that may have it.
LEMMA UpsertRole ==
    ASSUME NEW S, NEW l \in Seq(S), NEW e \in S, RoomFirst(l), e.room \in BOOLEAN
    PROVE  /\ RoomFirst(Upsert(l, e))
           /\ \A x : RoomKey(Upsert(l, e), x) <=>
                        IF x = e.key THEN e.room ELSE RoomKey(l, x)
<1> DEFINE t == Upsert(l, e)
           p == Position(l, e.key)
<1>1. t \in Seq(S) /\ Len(l) \in Nat
  BY UpsertFacts
<1>2. CASE Has(l, e.key)
  <2>1. /\ p \in 1..Len(l) /\ l[p].key = e.key
        /\ \A j \in 1..Len(l) : l[j].key = e.key => p <= j
    BY <1>2, PositionFacts
  <2>2. Len(t) = Len(l) /\ \A i \in 1..Len(l) : t[i] = IF i = p THEN e ELSE l[i]
    BY <1>2, UpsertFacts
  <2> HIDE DEF t, p
  <2>3. \A i \in 1..Len(l) : t[i].key = l[i].key
    BY <2>1, <2>2
  <2>4. \A i \in 1..Len(l) : l[i].room /\ l[i].key = e.key => i = p
    <3> SUFFICES ASSUME NEW i \in 1..Len(l), l[i].room, l[i].key = e.key
                 PROVE  i = p
      OBVIOUS
    <3>1. i <= p /\ p <= i
      BY <2>1 DEF RoomFirst
    <3> QED
      BY <3>1, <2>1, <1>1
  <2>5. RoomFirst(t)
    <3> SUFFICES ASSUME NEW i \in 1..Len(t), NEW j \in 1..Len(t),
                        t[i].room, t[j].key = t[i].key
                 PROVE  i <= j
      BY DEF RoomFirst
    <3>1. CASE i = p
      BY <3>1, <2>1, <2>2, <2>3
    <3>2. CASE i # p
      BY <3>2, <2>2, <2>3 DEF RoomFirst
    <3> QED
      BY <3>1, <3>2
  <2>6. ASSUME NEW x
        PROVE  RoomKey(t, x) <=> IF x = e.key THEN e.room ELSE RoomKey(l, x)
    <3>1. CASE x = e.key
      BY <3>1, <2>1, <2>2, <2>3, <2>4 DEF RoomKey
    <3>2. CASE x # e.key
      BY <3>2, <2>1, <2>2, <2>3 DEF RoomKey
    <3> QED
      BY <3>1, <3>2
  <2> QED
    BY <2>5, <2>6 DEF t
<1>3. CASE ~Has(l, e.key)
  <2>1. \A i \in 1..Len(l) : l[i].key # e.key
    BY <1>3, PositionFacts
  <2>2. /\ Len(t) = Len(l) + 1 /\ t[Len(l) + 1] = e
        /\ \A i \in 1..Len(l) : t[i] = l[i]
    BY <1>3, UpsertFacts
  <2> HIDE DEF t
  <2>3. Len(l) + 1 \in 1..Len(t) /\ \A i \in 1..Len(l) : i \in 1..Len(t)
    BY <1>1, <2>2
  <2>4. \A i \in 1..Len(t) : i \in 1..Len(l) \/ i = Len(l) + 1
    BY <1>1, <2>2
  <2>5. RoomFirst(t)
    <3> SUFFICES ASSUME NEW i \in 1..Len(t), NEW j \in 1..Len(t),
                        t[i].room, t[j].key = t[i].key
                 PROVE  i <= j
      BY DEF RoomFirst
    <3>1. CASE j \in 1..Len(l)
      <4>1. i \in 1..Len(l)
        BY <3>1, <2>1, <2>2, <2>4
      <4> QED
        BY <3>1, <4>1, <2>2 DEF RoomFirst
    <3>2. CASE j = Len(l) + 1
      BY <3>2, <1>1, <2>2
    <3> QED
      BY <3>1, <3>2, <2>4
  <2>6. ASSUME NEW x
        PROVE  RoomKey(t, x) <=> IF x = e.key THEN e.room ELSE RoomKey(l, x)
    BY <2>1, <2>2, <2>3, <2>4 DEF RoomKey
  <2> QED
    BY <2>5, <2>6 DEF t
<1> QED
  BY <1>2, <1>3

\* Deleting a contact takes the role with it, since the first entry has it.
LEMMA WithoutRole ==
    ASSUME NEW S, NEW l \in Seq(S), NEW k, RoomFirst(l)
    PROVE  /\ RoomFirst(Without(l, k))
           /\ \A x : RoomKey(Without(l, k), x) <=> (RoomKey(l, x) /\ x # k)
<1>1. CASE ~Has(l, k)
  <2>1. \A i \in 1..Len(l) : l[i].key # k
    BY <1>1, PositionFacts
  <2> QED
    BY <1>1, <2>1 DEF Without, RoomKey
<1>2. CASE Has(l, k)
  <2> DEFINE p == Position(l, k)
             at(i) == IF i < p THEN i ELSE i + 1
             t == Without(l, k)
  <2>1. /\ t \in Seq(S)
        /\ \A i \in 1..Len(t) : at(i) \in 1..Len(l) /\ at(i) # p /\ t[i] = l[at(i)]
        /\ \A i, j \in 1..Len(t) : at(i) <= at(j) => i <= j
        /\ \A j \in 1..Len(l) : j # p => \E i \in 1..Len(t) : at(i) = j
    BY <1>2, WithoutIndex
  <2>2. /\ p \in 1..Len(l) /\ l[p].key = k
        /\ \A j \in 1..Len(l) : l[j].key = k => p <= j
    BY <1>2, PositionFacts
  <2> HIDE DEF p, t, at
  <2>3. RoomFirst(t)
    BY <2>1 DEF RoomFirst
  <2>4. \A i \in 1..Len(l) : l[i].room /\ l[i].key = k => i = p
    <3> SUFFICES ASSUME NEW i \in 1..Len(l), l[i].room, l[i].key = k
                 PROVE  i = p
      OBVIOUS
    <3>1. i <= p /\ p <= i
      BY <2>2 DEF RoomFirst
    <3> QED
      BY <3>1, <2>2
  <2>5. ASSUME NEW x
        PROVE  RoomKey(t, x) <=> (RoomKey(l, x) /\ x # k)
    <3>1. RoomKey(t, x) => RoomKey(l, x) /\ x # k
      BY <2>1, <2>4 DEF RoomKey
    <3>2. ASSUME RoomKey(l, x), x # k
          PROVE  RoomKey(t, x)
      <4>1. PICK j \in 1..Len(l) : l[j].room /\ l[j].key = x
        BY <3>2 DEF RoomKey
      <4>2. j # p
        BY <3>2, <4>1, <2>2
      <4>3. PICK i \in 1..Len(t) : at(i) = j
        BY <4>2, <2>1
      <4> QED
        BY <4>1, <4>3, <2>1 DEF RoomKey
    <3> QED
      BY <3>1, <3>2
  <2> QED
    BY <2>3, <2>5 DEF t
<1> QED
  BY <1>1, <1>2

LEMMA PairedAppendContact ==
    ASSUME NEW c, Good(c), Paired(c), NEW k \in Keys,
           NEW d, d = [c EXCEPT !.contacts = Append(@, Contact(k, FALSE))]
    PROVE  Paired(d)
<1> DEFINE e == Contact(k, FALSE)
           l == c.contacts
           t == Append(l, e)
<1>1. l \in Seq(ContactRec) /\ Len(l) \in Nat /\ c \in Lists
  BY GoodFields DEF ContactSeq, Good
<1>2. e \in ContactRec /\ ~e.room
  BY DEF Contact, ContactRec
<1>3. d.contacts = t /\ d.rooms = c.rooms
  BY <1>1 DEF Lists
<1> HIDE DEF e, l
<1>4. /\ Len(t) = Len(l) + 1 /\ t[Len(l) + 1] = e
      /\ \A i \in 1..Len(l) : t[i] = l[i]
  BY <1>1, <1>2, AppendFacts
<1> HIDE DEF t
<1>5. \A i \in 1..Len(l) : i \in 1..Len(t)
  BY <1>1, <1>4
<1>6. \A i \in 1..Len(t) : i \in 1..Len(l) \/ (i = Len(l) + 1 /\ ~t[i].room)
  BY <1>1, <1>2, <1>4
<1>7. RoomFirst(l) /\ \A x \in Keys : Has(c.rooms, x) <=> RoomKey(l, x)
  BY DEF Paired, Pairs, l
<1>8. \A x : RoomKey(t, x) <=> RoomKey(l, x)
  BY <1>4, <1>5, <1>6 DEF RoomKey
<1>9. RoomFirst(t)
  <2> SUFFICES ASSUME NEW i \in 1..Len(t), NEW j \in 1..Len(t),
                      t[i].room, t[j].key = t[i].key
               PROVE  i <= j
    BY DEF RoomFirst
  <2>1. i \in 1..Len(l)
    BY <1>6
  <2>2. CASE j \in 1..Len(l)
    BY <2>1, <2>2, <1>4, <1>7 DEF RoomFirst
  <2>3. CASE j = Len(l) + 1
    BY <2>1, <2>3, <1>1
  <2> QED
    BY <2>2, <2>3, <1>6
<1> QED
  BY <1>3, <1>7, <1>8, <1>9 DEF Paired, Pairs

LEMMA PairedUpsertContact ==
    ASSUME NEW c, Good(c), Paired(c), NEW k \in Keys, ~Has(c.rooms, k),
           ~Full(c.contacts, k, MaxContacts)
    PROVE  Paired(UpsertContact(c, k, FALSE))
<1> DEFINE e == Contact(k, FALSE)
           l == c.contacts
           t == Upsert(l, e)
           d == UpsertContact(c, k, FALSE)
<1>1. l \in Seq(ContactRec)
  BY GoodFields DEF ContactSeq
<1>2. e \in ContactRec /\ e.room = FALSE /\ e.key = k
  BY DEF Contact, ContactRec
<1>3. d.contacts = t /\ d.rooms = c.rooms
  BY GoodUpsertContact
<1> HIDE DEF e, l
<1>4. RoomFirst(l) /\ \A x \in Keys : Has(c.rooms, x) <=> RoomKey(l, x)
  BY DEF Paired, Pairs, l
<1>5. /\ RoomFirst(t)
      /\ \A x : RoomKey(t, x) <=> IF x = e.key THEN e.room ELSE RoomKey(l, x)
  BY <1>1, <1>2, <1>4, UpsertRole
<1> HIDE DEF t, d
<1>6. \A x \in Keys : Has(c.rooms, x) <=> RoomKey(t, x)
  BY <1>2, <1>4, <1>5
<1>7. Paired(d)
  BY <1>3, <1>5, <1>6 DEF Paired, Pairs
<1> QED
  BY <1>7 DEF d

LEMMA PairedUpsertRoom ==
    ASSUME NEW c, Good(c), Paired(c), NEW k \in Keys,
           ~Full(c.contacts, k, MaxContacts), ~Overflows(UpsertRoom(c, k))
    PROVE  Paired(UpsertRoom(c, k))
<1> DEFINE e == Contact(k, TRUE)
           l == c.contacts
           t == Upsert(l, e)
           f == [key |-> k]
           r == c.rooms
           u == Upsert(r, f)
           d == UpsertRoom(c, k)
<1>1. l \in Seq(ContactRec) /\ r \in Seq(RoomRec)
  BY GoodFields DEF ContactSeq, RoomSeq
<1>2. e \in ContactRec /\ e.room = TRUE /\ e.key = k /\ f \in RoomRec /\ f.key = k
  BY DEF Contact, ContactRec, RoomRec
<1>3. d.contacts = t /\ d.rooms = u
  BY GoodUpsertRoom
<1> HIDE DEF e, f, l, r
<1>4. RoomFirst(l) /\ \A x \in Keys : Has(r, x) <=> RoomKey(l, x)
  BY DEF Paired, Pairs, l, r
<1>5. /\ RoomFirst(t)
      /\ \A x : RoomKey(t, x) <=> IF x = e.key THEN e.room ELSE RoomKey(l, x)
  BY <1>1, <1>2, <1>4, UpsertRole
<1>6. \A x : Has(u, x) <=> (Has(r, x) \/ x = f.key)
  BY <1>1, <1>2, UpsertKeys
<1> HIDE DEF t, u, d
<1>7. \A x \in Keys : Has(u, x) <=> RoomKey(t, x)
  BY <1>2, <1>4, <1>5, <1>6
<1>8. Paired(d)
  BY <1>3, <1>5, <1>7 DEF Paired, Pairs
<1> QED
  BY <1>8 DEF d

\* Contacts l and rooms r, the key k taken out of both, or only out of the
\* contacts when it is no room.
LEMMA PairsWithout ==
    ASSUME NEW l \in Seq(ContactRec), NEW r \in Seq(RoomRec), Unique(r), Pairs(l, r), NEW k
    PROVE  /\ Pairs(Without(l, k), Without(r, k))
           /\ ~Has(r, k) => Pairs(Without(l, k), r)
<1> DEFINE t == Without(l, k)
           u == Without(r, k)
<1>1. RoomFirst(l) /\ \A x \in Keys : Has(r, x) <=> RoomKey(l, x)
  BY DEF Pairs
<1>2. /\ RoomFirst(t)
      /\ \A x : RoomKey(t, x) <=> (RoomKey(l, x) /\ x # k)
  BY <1>1, WithoutRole
<1>3. \A x : Has(u, x) <=> (Has(r, x) /\ x # k)
  BY WithoutKeys
<1> HIDE DEF t, u
<1>4. Pairs(t, u) /\ (~Has(r, k) => Pairs(t, r))
  BY <1>1, <1>2, <1>3 DEF Pairs
<1> QED
  BY <1>4 DEF t, u

LEMMA PairedDelContact ==
    ASSUME NEW c, Good(c), Paired(c), NEW k, ~Has(c.rooms, k),
           NEW d, d = [c EXCEPT !.contacts = Without(@, k)]
    PROVE  Paired(d)
<1>1. c.contacts \in Seq(ContactRec) /\ c.rooms \in Seq(RoomRec) /\ Unique(c.rooms)
  BY GoodFields DEF ContactSeq, RoomSeq
<1>2. Pairs(Without(c.contacts, k), c.rooms)
  BY <1>1, PairsWithout DEF Paired
<1>3. d.contacts = Without(c.contacts, k) /\ d.rooms = c.rooms
  BY DEF Good, Lists
<1> QED
  BY <1>2, <1>3 DEF Paired

LEMMA PairedRemoveRoom ==
    ASSUME NEW c, Good(c), Paired(c), NEW k
    PROVE  Paired(RemoveRoom(c, k))
<1>1. c.contacts \in Seq(ContactRec) /\ c.rooms \in Seq(RoomRec) /\ Unique(c.rooms)
  BY GoodFields DEF ContactSeq, RoomSeq
<1>2. Pairs(Without(c.contacts, k), Without(c.rooms, k))
  BY <1>1, PairsWithout DEF Paired
<1> QED
  BY <1>2, GoodRemoveRoom DEF Paired

-----------------------------------------------------------------------------
(***************************************************************************)
(* What a boot loads, and what a save leaves in flash.                     *)
(***************************************************************************)
LEMMA EmptyFacts ==
    /\ Good(Empty) /\ Paired(Empty)
    /\ Empty.contacts = <<>> /\ Empty.rooms = <<>> /\ Empty.channels = <<>>
<1>1. /\ Empty.contacts = <<>> /\ Empty.rooms = <<>> /\ Empty.channels = <<>>
      /\ Empty \in Lists
  BY DEF Empty, Lists
<1>2. Good(Empty)
  BY <1>1, DeviceConfigAssumption DEF Good, Unique, OnePrimary
<1>3. ~Has(<<>>, None) /\ \A x : ~Has(<<>>, x) /\ ~RoomKey(<<>>, x)
  BY DEF Has, Position, RoomKey
<1>4. Paired(Empty)
  BY <1>1, <1>3 DEF Paired, Pairs, RoomFirst
<1> QED
  BY <1>1, <1>2, <1>4

\* Migration from version 2 drops the rooms and every role.
LEMMA DecodedFacts ==
    ASSUME NEW b \in Blobs, Good(b.config)
    PROVE  /\ Good(Decoded(b))
           /\ b.version = 3 => Decoded(b) = b.config
           /\ b.version # 3 => Paired(Decoded(b))
<1>1. CASE b.version = 3
  BY <1>1 DEF Decoded
<1>2. CASE b.version # 3
  <2> DEFINE c == b.config
             s == c.contacts
             l == [i \in 1..Len(s) |-> [s[i] EXCEPT !.room = FALSE]]
             r == <<>>
  <2>1. s \in Seq(ContactRec) /\ Len(s) \in Nat /\ Len(s) <= MaxContacts
    BY GoodFields DEF ContactSeq
  <2>2. Decoded(b) = Both(c, l, r)
    BY <1>2 DEF Decoded, Both, Good, Lists
  <2> HIDE DEF s, c
  <2>3. \A i \in 1..Len(s) : s[i] \in ContactRec
    BY <2>1
  <2>4. \A i \in 1..Len(s) : l[i] \in ContactRec /\ l[i].room = FALSE
    BY <2>3 DEF ContactRec
  <2>5. l \in Seq(ContactRec) /\ Len(l) = Len(s)
    BY <2>1, <2>4
  <2> HIDE DEF l
  <2>6. r \in RoomSeq /\ Len(r) = 0 /\ Unique(r) /\ \A x : ~Has(r, x)
    BY DEF RoomSeq, Unique, Has, Position
  <2> HIDE DEF r
  <2>7. Good(Both(c, l, r)) /\ Both(c, l, r).contacts = l /\ Both(c, l, r).rooms = r
    <3>1. l \in ContactSeq /\ Len(l) <= MaxContacts /\ Len(r) <= MaxContacts
      BY <2>1, <2>5, <2>6, DeviceConfigAssumption DEF ContactSeq
    <3>2. Good(c)
      BY DEF c
    <3> QED
      BY <3>1, <3>2, <2>6, WithBoth
  <2>8. Pairs(l, r)
    BY <2>4, <2>5, <2>6 DEF Pairs, RoomFirst, RoomKey
  <2> QED
    BY <1>2, <2>2, <2>7, <2>8 DEF Paired
<1> QED
  BY <1>1, <1>2

LEMMA LoadedFacts ==
    ASSUME NEW f, FlashOK(f)
    PROVE  /\ Good(Loaded(f))
           /\ FlashPaired(f) => Paired(Loaded(f))
<1>1. CASE f.flag = 0 \/ f.blob = None \/ Refused(f.blob)
  BY <1>1, EmptyFacts DEF Loaded
<1>2. CASE ~(f.flag = 0 \/ f.blob = None \/ Refused(f.blob))
  <2>1. Loaded(f) = Decoded(f.blob)
    BY <1>2 DEF Loaded
  <2>2. f.blob \in Blobs /\ Good(f.blob.config) /\ f.blob # None
    BY <1>2 DEF FlashOK
  <2>3. /\ Good(Decoded(f.blob))
        /\ f.blob.version = 3 => Decoded(f.blob) = f.blob.config
        /\ f.blob.version # 3 => Paired(Decoded(f.blob))
    BY <2>2, DecodedFacts
  <2> QED
    BY <2>1, <2>2, <2>3 DEF FlashPaired
<1> QED
  BY <1>1, <1>2

\* A blob of a good configuration.
LEMMA BlobFacts ==
    ASSUME NEW c, Good(c)
    PROVE  /\ Blob(3, c) \in Blobs /\ Blob(3, c) # None
           /\ Blob(3, c).version = 3 /\ Blob(3, c).config = c
<1>1. Blob(3, c) \in Blobs /\ Blob(3, c).version = 3 /\ Blob(3, c).config = c
  BY DEF Good, Blob, Blobs
<1> QED
  BY <1>1, DeviceConfigAssumption

LEMMA SaveStep ==
    ASSUME NEW c, Good(c), FlashOK(flash), faults \in 0..MaxFaults, Save(c)
    PROVE  /\ FlashOK(flash')
           /\ faults' \in 0..MaxFaults
           /\ faults' = faults \/ faults' # 0
           /\ Saved => flash'.flag = 1 /\ (Paired(c) => FlashPaired(flash'))
<1> DEFINE b == Blob(3, c)
<1>1. b \in Blobs /\ b # None /\ b.version = 3 /\ b.config = c
  BY BlobFacts
<1> HIDE DEF b
<1>2. flash \in [flag : 0..1, blob : Blobs \cup {None}]
  BY DEF FlashOK
<1>3. MaxFaults \in Nat
  BY DeviceConfigAssumption
<1>4. CASE flash' = [flag |-> 1, blob |-> b] /\ UNCHANGED faults
  <2>1. flash'.flag = 1 /\ flash'.blob = b /\ flash' \in [flag : 0..1, blob : Blobs \cup {None}]
    BY <1>1, <1>4
  <2> QED
    BY <2>1, <1>1, <1>4 DEF FlashOK, FlashPaired
<1>5. CASE /\ faults < MaxFaults /\ faults' = faults + 1
           /\ \/ UNCHANGED flash
              \/ flash' = [flash EXCEPT !.blob = b]
  <2>1. faults' \in 0..MaxFaults /\ faults' # 0 /\ faults' # faults
    BY <1>3, <1>5
  <2>2. CASE UNCHANGED flash
    BY <2>1, <2>2 DEF FlashOK, Saved
  <2>3. CASE flash' = [flash EXCEPT !.blob = b]
    <3>1. flash' \in [flag : 0..1, blob : Blobs \cup {None}] /\ flash'.blob = b
      BY <1>1, <1>2, <2>3
    <3> QED
      BY <2>1, <3>1, <1>1 DEF FlashOK, Saved
  <2> QED
    BY <1>5, <2>2, <2>3
<1> QED
  BY <1>4, <1>5 DEF Save, b

-----------------------------------------------------------------------------
(***************************************************************************)
(* The configuration through every step.                                   *)
(***************************************************************************)
LEMMA ConfigInit ==
    ASSUME Init
    PROVE  ConfigIInv
<1>1. /\ mode \in {"prov", "admin"} /\ cfg = Loaded(flash)
      /\ strayed = FALSE /\ faults = 0 /\ boots = 0
  BY DEF Init
<1>2. FlashOK(flash) /\ FlashPaired(flash)
  <2>1. CASE flash = [flag |-> 0, blob |-> None]
    BY <2>1 DEF FlashOK, FlashPaired
  <2>2. ASSUME NEW k \in Keys,
               flash = [flag |-> 1,
                        blob |-> Blob(2, [Empty EXCEPT !.contacts = <<Contact(k, FALSE)>>])]
        PROVE  FlashOK(flash) /\ FlashPaired(flash)
    <3> DEFINE e == Contact(k, FALSE)
               l == <<e>>
               c == [Empty EXCEPT !.contacts = l]
               b == Blob(2, c)
    <3>1. e \in ContactRec
      BY DEF Contact, ContactRec
    <3> HIDE DEF e
    <3>2. l \in ContactSeq /\ Len(l) = 1
      BY <3>1 DEF ContactSeq
    <3> HIDE DEF l
    <3>3. Len(l) <= MaxContacts
      BY <3>2, DeviceConfigAssumption
    <3>4. Good(c)
      BY <3>2, <3>3, EmptyFacts, WithContacts
    <3> HIDE DEF c
    <3>5. b \in Blobs /\ b.version = 2 /\ b.config = c
      BY <3>4 DEF Good, Blob, Blobs
    <3> HIDE DEF b
    <3>6. b # None
      BY <3>5, DeviceConfigAssumption
    <3>7. flash = [flag |-> 1, blob |-> b]
      BY <2>2 DEF b, c, l, e
    <3> QED
      BY <3>4, <3>5, <3>6, <3>7 DEF FlashOK, FlashPaired
  <2> QED
    BY <2>1, <2>2 DEF Init
<1>3. Good(Loaded(flash)) /\ Paired(Loaded(flash))
  BY <1>2, LoadedFacts
<1>4. 0 \in 0..MaxFaults /\ 0 \in 0..MaxBoots
  BY DeviceConfigAssumption
<1> QED
  BY <1>1, <1>2, <1>3, <1>4 DEF ConfigIInv

\* An edit, staged or saved, that gives a good configuration d.
LEMMA EditStep ==
    ASSUME ConfigIInv, NEW d, Good(d), NEW kind \in EditKinds,
           Staged(d) \/ Applied(d, kind), UNCHANGED <<mode, boots>>,
           strayed' \in BOOLEAN, strayed => strayed',
           ~strayed' /\ Paired(cfg) => Paired(d)
    PROVE  ConfigIInv'
<1>1. FlashOK(flash) /\ faults \in 0..MaxFaults
  BY DEF ConfigIInv
<1>2. CASE Staged(d)
  BY <1>2 DEF Staged, ConfigIInv
<1>3. CASE Applied(d, kind)
  <2>1. Save(d) /\ cfg' = IF Saved THEN d ELSE RolledBack(d, kind)
    BY <1>3 DEF Applied, PersistOrRollback
  <2>2. /\ FlashOK(flash') /\ faults' \in 0..MaxFaults
        /\ faults' = faults \/ faults' # 0
        /\ Saved => (Paired(d) => FlashPaired(flash'))
    BY <1>1, <2>1, SaveStep
  <2>3. Good(cfg')
    BY <2>1, GoodRolledBack
  <2>4. faults' = 0 /\ ~strayed' => Paired(cfg') /\ FlashPaired(flash')
    BY <2>1, <2>2 DEF ConfigIInv, Saved
  <2> QED
    BY <2>2, <2>3, <2>4 DEF ConfigIInv
<1> QED
  BY <1>2, <1>3

LEMMA BootStep ==
    ASSUME ConfigIInv, NEW f, FlashOK(f), f = flash',
           faults = 0 /\ ~strayed => FlashPaired(f),
           Boot(f), UNCHANGED faults
    PROVE  ConfigIInv'
<1>1. /\ boots < MaxBoots /\ boots' = boots + 1
      /\ mode' \in {"prov", "admin"} /\ cfg' = Loaded(f) /\ strayed' = strayed
  BY DEF Boot
<1>2. boots' \in 0..MaxBoots
  BY <1>1, DeviceConfigAssumption DEF ConfigIInv
<1>3. Good(cfg') /\ (FlashPaired(f) => Paired(cfg'))
  BY <1>1, LoadedFacts
<1> QED
  BY <1>1, <1>2, <1>3 DEF ConfigIInv

LEMMA ConfigAddContact ==
    ASSUME ConfigIInv, NEW k \in Keys, AddContact(k)
    PROVE  ConfigIInv'
<1> DEFINE d1 == [cfg EXCEPT !.contacts = Append(@, Contact(k, FALSE))]
           d2 == UpsertContact(cfg, k, FALSE)
<1>1. /\ Good(cfg) /\ strayed \in BOOLEAN
  BY DEF ConfigIInv
<1>2. /\ \/ Len(cfg.contacts) < MaxContacts /\ Staged(d1)
         \/ ~Full(cfg.contacts, k, MaxContacts) /\ Applied(d2, "contact")
      /\ strayed' = (strayed \/ Has(cfg.rooms, k))
      /\ UNCHANGED <<mode, boots>>
  BY DEF AddContact
<1>3. strayed' \in BOOLEAN /\ (strayed => strayed') /\ (~strayed' => ~Has(cfg.rooms, k))
  BY <1>1, <1>2 DEF Has
<1>4. CASE Len(cfg.contacts) < MaxContacts /\ Staged(d1)
  <2>1. Good(d1) /\ (Paired(cfg) => Paired(d1))
    BY <1>1, <1>4, GoodAppendContact, PairedAppendContact
  <2> HIDE DEF d1
  <2> QED
    BY <2>1, <1>2, <1>3, <1>4, EditStep DEF EditKinds
<1>5. CASE ~Full(cfg.contacts, k, MaxContacts) /\ Applied(d2, "contact")
  <2>1. Good(d2) /\ (Paired(cfg) /\ ~strayed' => Paired(d2))
    BY <1>1, <1>3, <1>5, GoodUpsertContact, PairedUpsertContact
  <2> HIDE DEF d2
  <2> QED
    BY <2>1, <1>2, <1>3, <1>5, EditStep DEF EditKinds
<1> QED
  BY <1>2, <1>4, <1>5

LEMMA ConfigDelContact ==
    ASSUME ConfigIInv, NEW k \in Keys, DelContact(k)
    PROVE  ConfigIInv'
<1> DEFINE d == [cfg EXCEPT !.contacts = Without(@, k)]
<1>1. /\ Good(cfg) /\ strayed \in BOOLEAN
  BY DEF ConfigIInv
<1>2. /\ Staged(d) \/ Applied(d, "contact")
      /\ strayed' = (strayed \/ Has(cfg.rooms, k))
      /\ UNCHANGED <<mode, boots>>
  BY DEF DelContact
<1>3. strayed' \in BOOLEAN /\ (strayed => strayed') /\ (~strayed' => ~Has(cfg.rooms, k))
  BY <1>1, <1>2 DEF Has
<1>4. Good(d) /\ (Paired(cfg) /\ ~strayed' => Paired(d))
  BY <1>1, <1>3, GoodDelContact, PairedDelContact
<1> HIDE DEF d
<1> QED
  BY <1>2, <1>3, <1>4, EditStep DEF EditKinds

LEMMA ConfigChannel ==
    ASSUME ConfigIInv, NEW k \in Chans,
           DelChannel(k) \/ \E p \in BOOLEAN : AddChannel(k, p)
    PROVE  ConfigIInv'
<1>1. /\ Good(cfg) /\ strayed \in BOOLEAN
  BY DEF ConfigIInv
<1>2. CASE DelChannel(k)
  <2> DEFINE d == [cfg EXCEPT !.channels = Without(@, k)]
  <2>1. /\ Staged(d) \/ Applied(d, "channel")
        /\ UNCHANGED <<mode, boots, strayed>>
    BY <1>2 DEF DelChannel
  <2>2. Good(d)
    BY <1>1, GoodDelChannel
  <2>3. d.contacts = cfg.contacts /\ d.rooms = cfg.rooms
    BY <1>1 DEF Good, Lists
  <2> HIDE DEF d
  <2>4. Paired(cfg) => Paired(d)
    BY <2>3 DEF Paired
  <2> QED
    BY <1>1, <2>1, <2>2, <2>4, EditStep DEF EditKinds
<1>3. ASSUME NEW p \in BOOLEAN, AddChannel(k, p)
      PROVE  ConfigIInv'
  <2> DEFINE d == UpsertChannel(cfg, k, p)
  <2>1. /\ Staged(d) \/ Applied(d, "channel")
        /\ UNCHANGED <<mode, boots, strayed>>
        /\ ~Full(cfg.channels, k, MaxChannels)
    BY <1>3 DEF AddChannel
  <2>2. Good(d) /\ d.contacts = cfg.contacts /\ d.rooms = cfg.rooms
    BY <1>1, <2>1, GoodUpsertChannel
  <2> HIDE DEF d
  <2>3. Paired(cfg) => Paired(d)
    BY <2>2 DEF Paired
  <2> QED
    BY <1>1, <2>1, <2>2, <2>3, EditStep DEF EditKinds
<1> QED
  BY <1>2, <1>3

LEMMA ConfigSetting ==
    ASSUME ConfigIInv, NEW v \in 0..1, SetSetting(v)
    PROVE  ConfigIInv'
<1> DEFINE d == [cfg EXCEPT !.setting = v]
<1>1. /\ Good(cfg) /\ strayed \in BOOLEAN
  BY DEF ConfigIInv
<1>2. /\ Staged(d) \/ Applied(d, "setting")
      /\ UNCHANGED <<mode, boots, strayed>>
  BY DEF SetSetting
<1>3. Good(d) /\ d.contacts = cfg.contacts /\ d.rooms = cfg.rooms
  BY <1>1, WithSetting
<1> HIDE DEF d
<1>4. Paired(cfg) => Paired(d)
  BY <1>3 DEF Paired
<1> QED
  BY <1>1, <1>2, <1>3, <1>4, EditStep DEF EditKinds

LEMMA ConfigAddRoom ==
    ASSUME ConfigIInv, NEW k \in Keys, AddRoom(k)
    PROVE  ConfigIInv'
<1> DEFINE d == UpsertRoom(cfg, k)
<1>1. /\ Good(cfg) /\ strayed \in BOOLEAN
  BY DEF ConfigIInv
<1>2. /\ ~Full(cfg.contacts, k, MaxContacts) /\ ~Overflows(d)
      /\ Staged(d) \/ Applied(d, "room")
      /\ UNCHANGED <<mode, boots, strayed>>
  BY DEF AddRoom, RoomEdit
<1>3. Good(d) /\ (Paired(cfg) => Paired(d))
  BY <1>1, <1>2, GoodUpsertRoom, PairedUpsertRoom
<1> HIDE DEF d
<1> QED
  BY <1>1, <1>2, <1>3, EditStep DEF EditKinds

LEMMA ConfigDelRoom ==
    ASSUME ConfigIInv, NEW k \in Keys, DelRoom(k) \/ DelRoomOrphan(k)
    PROVE  ConfigIInv'
<1> DEFINE d == RemoveRoom(cfg, k)
<1>1. /\ Good(cfg) /\ strayed \in BOOLEAN
  BY DEF ConfigIInv
<1>2. Good(d) /\ (Paired(cfg) => Paired(d))
  BY <1>1, GoodRemoveRoom, PairedRemoveRoom
<1>3. CASE DelRoom(k)
  <2>1. /\ Staged(d) \/ Applied(d, "room")
        /\ UNCHANGED <<mode, boots, strayed>>
    BY <1>3 DEF DelRoom, RoomEdit
  <2> HIDE DEF d
  <2> QED
    BY <1>1, <1>2, <2>1, EditStep DEF EditKinds
<1>4. CASE DelRoomOrphan(k)
  BY <1>2, <1>4 DEF DelRoomOrphan, ConfigIInv
<1> QED
  BY <1>3, <1>4

LEMMA ConfigCommit ==
    ASSUME ConfigIInv, Commit
    PROVE  ConfigIInv'
<1>1. /\ Good(cfg) /\ strayed \in BOOLEAN /\ FlashOK(flash) /\ faults \in 0..MaxFaults
  BY DEF ConfigIInv
<1>2. CASE mode = "prov" /\ Save(cfg)
           /\ IF Saved THEN Boot(flash') ELSE UNCHANGED <<mode, cfg, roomVars, strayed, boots>>
  <2>1. /\ FlashOK(flash') /\ faults' \in 0..MaxFaults
        /\ faults' = faults \/ faults' # 0
        /\ Saved => (Paired(cfg) => FlashPaired(flash'))
    BY <1>1, <1>2, SaveStep
  <2>2. CASE Saved
    <3>1. UNCHANGED faults /\ Boot(flash')
      BY <1>2, <2>2 DEF Saved
    <3>2. faults = 0 /\ ~strayed => FlashPaired(flash')
      BY <2>1, <2>2 DEF ConfigIInv
    <3> QED
      BY <2>1, <3>1, <3>2, BootStep
  <2>3. CASE ~Saved
    BY <1>2, <2>1, <2>3 DEF ConfigIInv, Saved
  <2> QED
    BY <2>2, <2>3
<1>3. CASE Applied(cfg, "setting") /\ UNCHANGED <<mode, roomVars, strayed, boots>>
  BY <1>1, <1>3, EditStep DEF EditKinds
<1> QED
  BY <1>2, <1>3 DEF Commit

LEMMA ConfigStep ==
    ASSUME ConfigIInv, [Next]_vars
    PROVE  ConfigIInv'
<1>1. ASSUME Boot(flash), UNCHANGED <<flash, faults>>
      PROVE  ConfigIInv'
  <2>1. FlashOK(flash) /\ (faults = 0 /\ ~strayed => FlashPaired(flash)) /\ flash = flash'
    BY <1>1 DEF ConfigIInv
  <2> QED
    BY <1>1, <2>1, BootStep
<1>2. CASE \E k \in Keys : AddRoomPanics(k)
  BY <1>1, <1>2 DEF AddRoomPanics
<1>3. CASE Reboot
  BY <1>1, <1>3 DEF Reboot
<1>4. CASE RemoveBlob
  BY <1>4, DeviceConfigAssumption DEF RemoveBlob, ConfigIInv, configVars
<1>5. CASE BumpEpoch
  BY <1>5, DeviceConfigAssumption DEF BumpEpoch, ConfigIInv, configVars
<1>6. CASE SaveWrite \/ \E k \in Keys : SaveCheck(k)
  BY <1>6 DEF SaveWrite, SaveCheck, ConfigIInv, configVars
<1>7. CASE UNCHANGED vars
  BY <1>7 DEF vars, configVars, ConfigIInv
<1> QED
  BY <1>2, <1>3, <1>4, <1>5, <1>6, <1>7, ConfigAddContact, ConfigDelContact, ConfigChannel,
     ConfigSetting, ConfigAddRoom, ConfigDelRoom, ConfigCommit DEF Next

-----------------------------------------------------------------------------
(***************************************************************************)
(* The room store through every step.                                      *)
(***************************************************************************)
LEMMA HashOfKey ==
    ASSUME NEW k \in Keys
    PROVE  Hash[k] \in Hashes
  BY DEF Hashes

LEMMA EpochConstants == EpochMod \in Nat /\ MaxEdits \in Nat /\ MaxEdits < EpochMod
  BY DeviceConfigAssumption

StoreSet == [blob : Session \cup {None}, epoch : 0..(EpochMod - 1)]

LEMMA StoreInit ==
    ASSUME Init
    PROVE  StoreIInv
<1>1. /\ store = [h \in Hashes |-> [blob |-> None, epoch |-> 0]]
      /\ birth = [k \in Keys |-> 0] /\ runtime = << >>
      /\ erase = Idle /\ saving = None /\ excused = FALSE /\ edits = 0
  BY DEF Init
<1>2. \A h \in Hashes : store[h].blob = None /\ store[h].epoch = 0
  BY <1>1
<1>3. 0 \in 0..(EpochMod - 1) /\ 0 \in 0..MaxEdits
  BY EpochConstants
<1>4. store \in [Hashes -> [blob : Session \cup {None}, epoch : 0..(EpochMod - 1)]]
  BY <1>1, <1>3
<1>5. erase.step = "idle" /\ erase.key = None
      /\ erase \in [step : {"idle", "remove", "bump"}, key : Keys \cup {None}]
  BY <1>1 DEF Idle
<1>6. DOMAIN runtime = {}
  <2>1. runtime = << >>
    BY <1>1
  <2> QED
    BY <2>1
<1>7. StoreTypes
  <2>1. birth \in [Keys -> Nat] /\ saving = None /\ excused \in BOOLEAN
    BY <1>1
  <2>2. edits \in 0..MaxEdits /\ \A h \in Hashes : store[h].epoch <= edits
    BY <1>1, <1>2, <1>3
  <2> QED
    BY <1>2, <1>4, <1>5, <1>6, <2>1, <2>2 DEF StoreTypes
<1>8. FreshInv
  BY <1>1, <1>2, <1>5, <1>6 DEF FreshInv
<1> QED
  BY <1>7, <1>8 DEF StoreIInv

\* An edit that touches no room.
LEMMA StoreEdit ==
    ASSUME StoreIInv, Editing, UNCHANGED roomVars
    PROVE  StoreIInv'
<1>1. edits' \in 0..MaxEdits /\ edits' = edits + 1 /\ edits \in 0..MaxEdits
  BY EpochConstants DEF Editing, StoreIInv, StoreTypes
<1>2. \A h \in Hashes : store[h].epoch \in Nat
  BY DEF StoreIInv, StoreTypes
<1>3. \A h \in Hashes : store[h].epoch < edits'
  BY <1>1, <1>2 DEF StoreIInv, StoreTypes
<1>4. StoreTypes'
  BY <1>1, <1>2, <1>3 DEF StoreIInv, StoreTypes, roomVars
<1>5. FreshInv' <=> FreshInv
  BY DEF FreshInv, ErasingHash, roomVars
<1> QED
  BY <1>4, <1>5 DEF StoreIInv, roomVars

\* The rooms of a good configuration resume the blob of their hash, or start
\* afresh.
LEMMA BootRoomsFacts ==
    ASSUME NEW c, Good(c), NEW st \in [Hashes -> StoreSet], NEW b \in [Keys -> Nat],
           NEW k \in DOMAIN BootRooms(c, st, b),
           \A h \in Hashes : st[h].blob # None => Hash[st[h].blob.key] = h
    PROVE  LET m == BootRooms(c, st, b)[k]
           IN  /\ k \in Keys
               /\ m.epoch = st[Hash[k]].epoch
               /\ m.session \in Session /\ Hash[m.session.key] = Hash[k]
               /\ m.session = st[Hash[k]].blob \/ Fresh(m.session, b)
<1>1. PICK i \in 1..Len(c.contacts) : k = c.contacts[i].key
  BY DEF BootRooms
<1>2. c.contacts \in Seq(ContactRec)
  BY GoodFields DEF ContactSeq
<1>3. c.contacts[i] \in ContactRec
  BY <1>1, <1>2
<1>4. k \in Keys
  BY <1>1, <1>3 DEF ContactRec
<1> DEFINE h == Hash[k]
           new == [key |-> k, birth |-> b[k]]
           m == BootRooms(c, st, b)[k]
<1>5. h \in Hashes
  BY <1>4, HashOfKey
<1>6. new \in Session /\ new.key = k /\ Fresh(new, b)
  BY <1>4 DEF Session, Fresh
<1>7. m = [epoch |-> st[h].epoch, session |-> IF st[h].blob # None THEN st[h].blob ELSE new]
  BY DEF BootRooms
<1> HIDE DEF h, new, m
<1>8. st[h].blob \in Session \cup {None}
  BY <1>5 DEF StoreSet
<1>9. m.epoch = st[h].epoch /\ m.session = IF st[h].blob # None THEN st[h].blob ELSE new
  BY <1>7
<1>10. /\ k \in Keys
       /\ m.epoch = st[h].epoch
       /\ m.session \in Session
       /\ Hash[m.session.key] = h
       /\ m.session = st[h].blob \/ Fresh(m.session, b)
  <2>1. CASE st[h].blob # None
    BY <2>1, <1>4, <1>5, <1>8, <1>9
  <2>2. CASE st[h].blob = None
    BY <2>2, <1>4, <1>6, <1>9 DEF h
  <2> QED
    BY <2>1, <2>2
<1> QED
  BY <1>10 DEF h, m

LEMMA StoreBoot ==
    ASSUME StoreIInv, NEW f, FlashOK(f), Boot(f), edits' \in 0..MaxEdits, edits <= edits'
    PROVE  StoreIInv'
<1>1. /\ runtime' = IF f.flag = 1 THEN BootRooms(Loaded(f), store, birth) ELSE << >>
      /\ erase' = Idle /\ saving' = None /\ excused' = (excused \/ erase.step # "idle")
      /\ store' = store /\ birth' = birth
  BY DEF Boot
<1>2. /\ store \in [Hashes -> StoreSet] /\ birth \in [Keys -> Nat] /\ excused \in BOOLEAN
      /\ \A h \in Hashes : store[h].blob # None => Hash[store[h].blob.key] = h
      /\ edits \in 0..MaxEdits /\ \A h \in Hashes : store[h].epoch <= edits
  BY DEF StoreIInv, StoreTypes, StoreSet
<1>3. Good(Loaded(f))
  BY LoadedFacts
<1>4. ASSUME NEW k \in DOMAIN runtime'
      PROVE  /\ k \in Keys
             /\ runtime'[k].epoch = store[Hash[k]].epoch
             /\ runtime'[k].session \in Session
             /\ Hash[runtime'[k].session.key] = Hash[k]
             /\ runtime'[k].session = store[Hash[k]].blob \/ Fresh(runtime'[k].session, birth)
  <2>1. CASE f.flag = 1
    BY <1>1, <1>2, <1>3, <2>1, BootRoomsFacts
  <2>2. CASE f.flag # 1
    <3>1. DOMAIN runtime' = {}
      BY <1>1, <2>2
    <3> QED
      BY <3>1
  <2> QED
    BY <2>1, <2>2
<1>5. \A h \in Hashes : store[h].epoch \in Nat /\ store[h].epoch <= edits'
  BY <1>2 DEF StoreSet
<1>6. erase'.step = "idle" /\ erase'.key = None
      /\ erase' \in [step : {"idle", "remove", "bump"}, key : Keys \cup {None}]
  BY <1>1 DEF Idle
<1>7. \A k \in DOMAIN runtime' : Hash[k] \in Hashes
  BY <1>4, HashOfKey
<1>8. StoreTypes'
  BY <1>1, <1>2, <1>4, <1>5, <1>6, <1>7 DEF StoreTypes, StoreSet
<1>9. ASSUME ~excused'
      PROVE  FreshInv'
  <2>1. ~excused /\ erase.step = "idle"
    BY <1>1, <1>9
  <2>2. \A h \in Hashes : store[h].blob # None => Fresh(store[h].blob, birth)
    BY <2>1 DEF StoreIInv, FreshInv, ErasingHash
  <2>3. \A k \in DOMAIN runtime' : Fresh(runtime'[k].session, birth)
    <3> SUFFICES ASSUME NEW k \in DOMAIN runtime'
                 PROVE  Fresh(runtime'[k].session, birth)
      OBVIOUS
    <3>1. /\ runtime'[k].session \in Session
          /\ runtime'[k].session = store[Hash[k]].blob \/ Fresh(runtime'[k].session, birth)
      BY <1>4
    <3>2. runtime'[k].session # None
      BY <3>1, DeviceConfigAssumption
    <3> QED
      BY <3>1, <3>2, <2>2, <1>7
  <2> QED
    BY <1>1, <1>6, <2>2, <2>3 DEF FreshInv, Fresh
<1> QED
  BY <1>8, <1>9 DEF StoreIInv

\* A saved edit of room k counts it up and starts the erase of its hash.
LEMMA StoreRoomEdit ==
    ASSUME StoreIInv, NEW k \in Keys, NEW c, Editing, RoomEdit(c, k)
    PROVE  StoreIInv'
<1>1. /\ \/ UNCHANGED <<erase, birth>>
         \/ erase' = [step |-> "remove", key |-> k] /\ birth' = [birth EXCEPT ![k] = @ + 1]
      /\ UNCHANGED <<store, runtime, saving, excused>>
  BY DEF RoomEdit, Staged, Editing
<1>2. CASE UNCHANGED <<erase, birth>>
  BY <1>1, <1>2, StoreEdit DEF roomVars
<1>3. CASE erase' = [step |-> "remove", key |-> k] /\ birth' = [birth EXCEPT ![k] = @ + 1]
  <2>1. edits' \in 0..MaxEdits /\ edits' = edits + 1 /\ edits \in 0..MaxEdits
    BY EpochConstants DEF Editing, StoreIInv, StoreTypes
  <2>2. \A h \in Hashes : store[h].epoch \in Nat /\ store[h].epoch < edits'
    BY <2>1 DEF StoreIInv, StoreTypes
  <2>3. /\ erase'.step = "remove" /\ erase'.key = k /\ k # None
        /\ erase' \in [step : {"idle", "remove", "bump"}, key : Keys \cup {None}]
    BY <1>3, DeviceConfigAssumption
  <2>4. birth \in [Keys -> Nat] /\ birth' \in [Keys -> Nat]
    BY <1>3 DEF StoreIInv, StoreTypes
  <2>5. StoreTypes'
    BY <1>1, <2>1, <2>2, <2>3, <2>4 DEF StoreIInv, StoreTypes
  <2>6. ASSUME ~excused'
        PROVE  FreshInv'
    <3>1. FreshInv /\ StoreTypes /\ erase.step = "idle"
      BY <1>1, <2>6 DEF StoreIInv, Editing, Idle
    <3>2. ASSUME NEW x \in Session, NEW h, Hash[x.key] = h, Fresh(x, birth)
          PROVE  Hash[k] = h \/ Fresh(x, birth')
      BY <1>3, <2>4, <3>2 DEF Fresh, Session
    <3>3. \A h \in Hashes : store[h].blob # None => Hash[k] = h \/ Fresh(store[h].blob, birth')
      BY <3>1, <3>2 DEF FreshInv, ErasingHash, StoreTypes
    <3>4. \A j \in DOMAIN runtime :
             runtime[j].epoch = store[Hash[j]].epoch =>
                Hash[k] = Hash[j] \/ Fresh(runtime[j].session, birth')
      BY <3>1, <3>2 DEF FreshInv, ErasingHash, StoreTypes
    <3> QED
      BY <1>1, <2>3, <3>1, <3>3, <3>4 DEF FreshInv, ErasingHash, Fresh
  <2> QED
    BY <2>5, <2>6 DEF StoreIInv
<1> QED
  BY <1>1, <1>2, <1>3

\* The first step of an erase: the blob goes, or the write fails.
LEMMA StoreRemoveBlob ==
    ASSUME StoreIInv, RemoveBlob
    PROVE  StoreIInv'
<1> DEFINE g == Hash[erase.key]
<1>1. /\ erase.step = "remove" /\ erase' = [erase EXCEPT !.step = "bump"]
      /\ UNCHANGED <<runtime, saving, birth, edits>>
      /\ \/ /\ store' = [store EXCEPT ![g].blob = None]
            /\ excused' = (excused \/ (saving # None /\ Hash[saving] = g))
         \/ excused' = TRUE /\ store' = store
  BY DEF RemoveBlob, EraseHash
<1>2. StoreTypes /\ (~excused => FreshInv)
  BY DEF StoreIInv
<1>3. /\ erase \in [step : {"idle", "remove", "bump"}, key : Keys \cup {None}]
      /\ erase.key # None
  BY <1>1, <1>2 DEF StoreTypes
<1>4. /\ erase.key \in Keys /\ erase'.step = "bump" /\ erase'.key = erase.key
      /\ erase' \in [step : {"idle", "remove", "bump"}, key : Keys \cup {None}]
  BY <1>1, <1>3
<1>5. g \in Hashes
  BY <1>4, HashOfKey
<1> HIDE DEF g
<1>6. store \in [Hashes -> StoreSet]
  BY <1>2 DEF StoreTypes, StoreSet
<1>7. /\ store' \in [Hashes -> StoreSet]
      /\ \A h \in Hashes : /\ store'[h].epoch = store[h].epoch
                           /\ store'[h].blob = store[h].blob \/ (h = g /\ store'[h].blob = None)
      /\ ~excused' => store'[g].blob = None
  <2>1. CASE store' = [store EXCEPT ![g].blob = None]
    BY <2>1, <1>5, <1>6 DEF StoreSet
  <2>2. CASE excused' = TRUE /\ store' = store
    BY <2>2, <1>6
  <2> QED
    BY <1>1, <2>1, <2>2
<1>8. excused' \in BOOLEAN
  BY <1>1, <1>2 DEF StoreTypes
<1>9. StoreTypes'
  <2>1. \A h \in Hashes : store'[h].blob # None => Hash[store'[h].blob.key] = h
    BY <1>2, <1>7 DEF StoreTypes
  <2>2. \A k \in DOMAIN runtime : store'[Hash[k]].epoch = store[Hash[k]].epoch
    BY <1>2, <1>7, HashOfKey DEF StoreTypes
  <2>3. \A h \in Hashes : store'[h].epoch <= edits /\ store'[h].epoch < edits
    BY <1>1, <1>2, <1>7 DEF StoreTypes
  <2> QED
    BY <1>1, <1>2, <1>3, <1>4, <1>7, <1>8, <2>1, <2>2, <2>3 DEF StoreTypes, StoreSet
<1>10. ASSUME ~excused'
       PROVE  FreshInv'
  <2>1. FreshInv /\ ~(saving # None /\ Hash[saving] = g) /\ store'[g].blob = None
    BY <1>1, <1>2, <1>7, <1>10
  <2>2. \A h \in Hashes : store'[h].blob # None => h # g /\ Fresh(store[h].blob, birth)
                                                  /\ store'[h].blob = store[h].blob
    BY <1>7, <2>1 DEF FreshInv, ErasingHash, g
  <2>3. \A k \in DOMAIN runtime :
           /\ store'[Hash[k]].epoch = store[Hash[k]].epoch
           /\ runtime[k].epoch = store[Hash[k]].epoch =>
                 g = Hash[k] \/ Fresh(runtime[k].session, birth)
    BY <1>2, <1>7, <2>1, HashOfKey DEF FreshInv, ErasingHash, g, StoreTypes
  <2>4. saving # None => saving \in DOMAIN runtime /\ runtime[saving].epoch = store[Hash[saving]].epoch
    BY <1>2, <2>1 DEF FreshInv, StoreTypes
  <2> QED
    BY <1>1, <1>4, <2>1, <2>2, <2>3, <2>4 DEF FreshInv, ErasingHash, Fresh, g
<1> QED
  BY <1>9, <1>10 DEF StoreIInv

\* The second: the epoch moves on, past every runtime that was booted before.
LEMMA StoreBumpEpoch ==
    ASSUME StoreIInv, BumpEpoch
    PROVE  StoreIInv'
<1> DEFINE g == Hash[erase.key]
<1>1. /\ erase.step = "bump" /\ erase' = Idle
      /\ UNCHANGED <<runtime, saving, birth, edits>>
      /\ \/ /\ store' = [store EXCEPT ![g].epoch = (@ + 1) % EpochMod]
            /\ excused' = excused
         \/ excused' = TRUE /\ store' = store
  BY DEF BumpEpoch, EraseHash
<1>2. StoreTypes /\ (~excused => FreshInv)
  BY DEF StoreIInv
<1>3. erase.key \in Keys
  BY <1>1, <1>2 DEF StoreTypes
<1>4. /\ erase'.step = "idle" /\ erase'.key = None
      /\ erase' \in [step : {"idle", "remove", "bump"}, key : Keys \cup {None}]
  BY <1>1 DEF Idle
<1>5. g \in Hashes
  BY <1>3, HashOfKey
<1> HIDE DEF g
<1>6. /\ store \in [Hashes -> StoreSet] /\ edits \in 0..MaxEdits
      /\ \A h \in Hashes : store[h].epoch \in Nat /\ store[h].epoch < edits
  BY <1>1, <1>2 DEF StoreTypes, StoreSet
<1>7. (store[g].epoch + 1) % EpochMod = store[g].epoch + 1 /\ store[g].epoch + 1 \in 0..(EpochMod - 1)
  <2> DEFINE n == store[g].epoch + 1
  <2>1. n \in Nat /\ n < EpochMod
    BY <1>5, <1>6, EpochConstants
  <2> HIDE DEF n
  <2>2. n % EpochMod = n /\ n \in 0..(EpochMod - 1)
    BY <2>1, EpochConstants
  <2> QED
    BY <2>2 DEF n
<1>8. /\ store' \in [Hashes -> StoreSet]
      /\ \A h \in Hashes : /\ store'[h].blob = store[h].blob
                           /\ h # g => store'[h].epoch = store[h].epoch
      /\ store'[g].epoch = store[g].epoch + 1 \/ (excused' /\ store'[g].epoch = store[g].epoch)
  <2>1. CASE store' = [store EXCEPT ![g].epoch = (@ + 1) % EpochMod]
    BY <2>1, <1>5, <1>6, <1>7 DEF StoreSet
  <2>2. CASE excused' = TRUE /\ store' = store
    BY <2>2, <1>6
  <2> QED
    BY <1>1, <2>1, <2>2
<1>9. excused' \in BOOLEAN
  BY <1>1, <1>2 DEF StoreTypes
<1>10. \A h \in Hashes : /\ store'[h].epoch \in Nat
                         /\ store[h].epoch <= store'[h].epoch /\ store'[h].epoch <= edits
  BY <1>5, <1>6, <1>8
<1>11. StoreTypes'
  <2>1. \A h \in Hashes : store'[h].blob # None => Hash[store'[h].blob.key] = h
    BY <1>2, <1>8 DEF StoreTypes
  <2>2. \A k \in DOMAIN runtime : runtime[k].epoch <= store'[Hash[k]].epoch
    <3> SUFFICES ASSUME NEW k \in DOMAIN runtime
                 PROVE  runtime[k].epoch <= store'[Hash[k]].epoch
      OBVIOUS
    <3>1. Hash[k] \in Hashes /\ runtime[k].epoch \in Nat /\ runtime[k].epoch <= store[Hash[k]].epoch
      BY <1>2, HashOfKey DEF StoreTypes
    <3> QED
      BY <3>1, <1>6, <1>10
  <2> QED
    BY <1>1, <1>2, <1>4, <1>8, <1>9, <1>10, <2>1, <2>2 DEF StoreTypes, StoreSet
<1>12. ASSUME ~excused'
       PROVE  FreshInv'
  <2>1. FreshInv /\ store'[g].epoch = store[g].epoch + 1
    BY <1>1, <1>2, <1>8, <1>12
  <2>2. \A h \in Hashes : store'[h].blob # None => Fresh(store[h].blob, birth)
    BY <1>1, <1>8, <2>1 DEF FreshInv, ErasingHash, g
  <2>3. ASSUME NEW k \in DOMAIN runtime, runtime[k].epoch = store'[Hash[k]].epoch
        PROVE  Fresh(runtime[k].session, birth)
    <3>1. Hash[k] \in Hashes /\ runtime[k].epoch \in Nat /\ runtime[k].epoch <= store[Hash[k]].epoch
      BY <1>2, HashOfKey DEF StoreTypes
    <3>2. Hash[k] # g
      BY <3>1, <2>1, <2>3, <1>6
    <3>3. runtime[k].epoch = store[Hash[k]].epoch
      BY <3>1, <3>2, <2>3, <1>8
    <3> QED
      BY <3>2, <3>3, <2>1 DEF FreshInv, ErasingHash, g
  <2>4. saving # None =>
           /\ saving \in DOMAIN runtime /\ Hash[saving] # g
           /\ runtime[saving].epoch = store[Hash[saving]].epoch
    BY <1>1, <1>2, <2>1 DEF FreshInv, StoreTypes, g
  <2>5. saving # None => runtime[saving].epoch = store'[Hash[saving]].epoch
    BY <2>4, <1>2, <1>8, HashOfKey DEF StoreTypes
  <2> QED
    BY <1>1, <1>4, <1>8, <2>2, <2>3, <2>5 DEF FreshInv, ErasingHash, Fresh
<1> QED
  BY <1>11, <1>12 DEF StoreIInv

LEMMA StoreSaveCheck ==
    ASSUME StoreIInv, NEW k \in Keys, SaveCheck(k)
    PROVE  StoreIInv'
<1>1. /\ k \in DOMAIN runtime /\ store[Hash[k]].epoch = runtime[k].epoch /\ saving' = k
      /\ excused' = (excused \/ (erase.step = "bump" /\ Hash[erase.key] = Hash[k]))
      /\ UNCHANGED <<erase, store, runtime, birth, edits>>
  BY DEF SaveCheck, EraseHash
<1>2. StoreTypes'
  BY <1>1 DEF StoreIInv, StoreTypes
<1>3. ~excused' => FreshInv'
  BY <1>1 DEF StoreIInv, FreshInv, ErasingHash, Fresh
<1> QED
  BY <1>2, <1>3 DEF StoreIInv

\* The blob written is of the room as it is now, or is about to be erased.
LEMMA StoreSaveWrite ==
    ASSUME StoreIInv, SaveWrite
    PROVE  StoreIInv'
<1> DEFINE g == Hash[saving]
           x == runtime[saving].session
<1>1. /\ saving # None /\ saving' = None
      /\ store' = [store EXCEPT ![g].blob = x]
      /\ UNCHANGED <<erase, runtime, birth, excused, edits>>
  BY DEF SaveWrite
<1>2. StoreTypes /\ (~excused => FreshInv)
  BY DEF StoreIInv
<1>3. saving \in DOMAIN runtime /\ saving \in Keys /\ x \in Session /\ Hash[x.key] = g
  BY <1>1, <1>2 DEF StoreTypes
<1>4. g \in Hashes
  BY <1>3, HashOfKey
<1>5. store \in [Hashes -> StoreSet]
  BY <1>2 DEF StoreTypes, StoreSet
<1> HIDE DEF g, x
<1>6. /\ store' \in [Hashes -> StoreSet] /\ store'[g].blob = x
      /\ \A h \in Hashes : /\ store'[h].epoch = store[h].epoch
                           /\ h # g => store'[h].blob = store[h].blob
  BY <1>1, <1>3, <1>4, <1>5 DEF StoreSet
<1>7. \A k \in DOMAIN runtime : Hash[k] \in Hashes /\ store'[Hash[k]].epoch = store[Hash[k]].epoch
  BY <1>2, <1>6, HashOfKey DEF StoreTypes
<1>8. StoreTypes'
  <2>1. \A h \in Hashes : store'[h].blob # None => Hash[store'[h].blob.key] = h
    BY <1>2, <1>3, <1>6 DEF StoreTypes
  <2> QED
    BY <1>1, <1>2, <1>6, <1>7, <2>1 DEF StoreTypes, StoreSet
<1>9. ASSUME ~excused'
      PROVE  FreshInv'
  <2>1. FreshInv
    BY <1>1, <1>2, <1>9
  <2>2. /\ ErasingHash(g) \/ Fresh(x, birth)
        /\ ~(erase.step = "bump" /\ Hash[erase.key] = g)
    BY <1>1, <1>3, <2>1 DEF FreshInv, g, x
  <2>3. \A h \in Hashes : store'[h].blob # None =>
           /\ ~(erase.step = "bump" /\ Hash[erase.key] = h)
           /\ ErasingHash(h) \/ Fresh(store'[h].blob, birth)
    BY <1>6, <2>1, <2>2 DEF FreshInv
  <2>4. \A k \in DOMAIN runtime :
           runtime[k].epoch = store'[Hash[k]].epoch =>
              ErasingHash(Hash[k]) \/ Fresh(runtime[k].session, birth)
    BY <1>7, <2>1 DEF FreshInv
  <2> QED
    BY <1>1, <2>3, <2>4 DEF FreshInv, ErasingHash, Fresh
<1> QED
  BY <1>8, <1>9 DEF StoreIInv

LEMMA StoreStep ==
    ASSUME ConfigIInv, StoreIInv, [Next]_vars
    PROVE  StoreIInv'
<1>1. CASE \E k \in Keys : AddContact(k) \/ DelContact(k) \/ DelRoomOrphan(k)
  BY <1>1, StoreEdit DEF AddContact, DelContact, DelRoomOrphan
<1>2. CASE \E k \in Chans : DelChannel(k) \/ \E p \in BOOLEAN : AddChannel(k, p)
  BY <1>2, StoreEdit DEF DelChannel, AddChannel
<1>3. CASE \E v \in 0..1 : SetSetting(v)
  BY <1>3, StoreEdit DEF SetSetting
<1>4. CASE \E k \in Keys : AddRoom(k) \/ DelRoom(k)
  BY <1>4, StoreRoomEdit DEF AddRoom, DelRoom
<1>5. edits \in 0..MaxEdits /\ FlashOK(flash)
  BY DEF ConfigIInv, StoreIInv, StoreTypes
<1>6. CASE \E k \in Keys : AddRoomPanics(k)
  <2>1. Boot(flash) /\ edits' = edits + 1 /\ edits < MaxEdits
    BY <1>6 DEF AddRoomPanics, Editing
  <2>2. edits' \in 0..MaxEdits /\ edits <= edits'
    BY <1>5, <2>1, EpochConstants
  <2> QED
    BY <1>5, <2>1, <2>2, StoreBoot
<1>7. CASE Reboot
  <2>1. edits' \in 0..MaxEdits /\ edits <= edits' /\ Boot(flash)
    BY <1>5, <1>7 DEF Reboot
  <2> QED
    BY <1>5, <2>1, StoreBoot
<1>8. ASSUME UNCHANGED roomVars, edits' = edits
      PROVE  StoreIInv'
  <2>1. StoreTypes'
    BY <1>8 DEF StoreIInv, StoreTypes, roomVars
  <2>2. FreshInv' <=> FreshInv
    BY <1>8 DEF FreshInv, ErasingHash, Fresh, roomVars
  <2> QED
    BY <1>8, <2>1, <2>2 DEF StoreIInv, roomVars
<1>9. CASE Commit
  <2>1. edits' = edits
    BY <1>9 DEF Commit
  <2>2. CASE mode = "prov" /\ Save(cfg) /\ Saved /\ Boot(flash')
    <3>1. Good(cfg) /\ faults \in 0..MaxFaults
      BY DEF ConfigIInv
    <3>2. FlashOK(flash')
      BY <1>5, <2>2, <3>1, SaveStep
    <3>3. edits' \in 0..MaxEdits /\ edits <= edits'
      BY <1>5, <2>1
    <3> QED
      BY <2>2, <3>2, <3>3, StoreBoot
  <2>3. CASE UNCHANGED roomVars
    BY <1>8, <2>1, <2>3
  <2> QED
    BY <1>9, <2>2, <2>3 DEF Commit
<1>10. CASE UNCHANGED vars
  BY <1>8, <1>10 DEF vars
<1> QED
  BY <1>1, <1>2, <1>3, <1>4, <1>6, <1>7, <1>9, <1>10, StoreRemoveBlob, StoreBumpEpoch,
     StoreSaveCheck, StoreSaveWrite DEF Next

-----------------------------------------------------------------------------
(***************************************************************************)
(* The theorems.                                                           *)
(***************************************************************************)
LEMMA Invariant == Spec => []IInv
<1>1. Init => IInv
  BY ConfigInit, StoreInit DEF IInv
<1>2. IInv /\ [Next]_vars => IInv'
  BY ConfigStep, StoreStep DEF IInv
<1> QED
  BY <1>1, <1>2, PTL DEF Spec

\* The flag of the provisioned state never stands without a configuration
\* blob, wherever save_provisioned_config is cut off.
THEOREM CommitHolds == Spec => []CommitAllOrNothing
<1>1. IInv => CommitAllOrNothing
  BY DEF IInv, ConfigIInv, FlashOK, CommitAllOrNothing
<1> QED
  BY <1>1, Invariant, PTL

\* The session of an erased room is back in the store only if
\* save_room_session overlapped delete_room_session, or the erase was cut.
THEOREM ErasedHolds == Spec => []ErasedStaysErased
<1>1. IInv => ErasedStaysErased
  <2> SUFFICES ASSUME IInv, ~excused, erase = Idle, NEW h \in Hashes, store[h].blob # None
               PROVE  store[h].blob.birth = birth[store[h].blob.key]
    BY DEF ErasedStaysErased, Stale
  <2>1. erase.step = "idle"
    BY DEF Idle
  <2> QED
    BY <2>1 DEF IInv, StoreIInv, FreshInv, ErasingHash, Fresh
<1> QED
  BY <1>1, Invariant, PTL

LEMMA OnePrimaryCard ==
    ASSUME NEW s, Len(s) \in Nat, OnePrimary(s)
    PROVE  Cardinality({i \in 1..Len(s) : s[i].primary}) <= 1
<1> DEFINE P == {i \in 1..Len(s) : s[i].primary}
<1>1. CASE P = {}
  <2>1. Cardinality(P) = 0
    BY <1>1, FS_EmptySet
  <2> QED
    BY <2>1
<1>2. CASE P # {}
  <2>1. PICK i \in P : TRUE
    BY <1>2
  <2>2. P = {i}
    BY <2>1 DEF OnePrimary
  <2> HIDE DEF P
  <2>3. Cardinality(P) = 1
    BY <2>2, FS_Singleton
  <2> QED
    BY <2>3 DEF P
<1> QED
  BY <1>1, <1>2

LEMMA GoodIsSound ==
    ASSUME NEW c, Good(c)
    PROVE  /\ OnePrimaryIn(c)
           /\ \A s \in {c.channels, c.rooms} :
                 \A i, j \in 1..Len(s) : s[i].key = s[j].key => i = j
<1>1. /\ Len(c.channels) \in Nat /\ OnePrimary(c.channels)
      /\ Unique(c.channels) /\ Unique(c.rooms)
  BY GoodFields
<1>2. OnePrimaryIn(c)
  BY <1>1, OnePrimaryCard DEF OnePrimaryIn
<1> QED
  BY <1>1, <1>2 DEF Unique

\* The lists stay within their arrays, without duplicate channels or rooms and
\* with one primary channel at most, and rooms and room contacts stay paired,
\* through every edit, rollback, migration and reboot.
THEOREM ConfigHolds == Spec => []ConfigInv
<1>1. IInv => TypeOK
  <2> SUFFICES ASSUME IInv
               PROVE  TypeOK
    OBVIOUS
  <2>1. /\ mode \in {"prov", "admin"} /\ cfg \in Lists
        /\ Len(cfg.contacts) <= MaxContacts /\ Len(cfg.channels) <= MaxChannels
        /\ Len(cfg.rooms) <= MaxContacts
        /\ faults \in 0..MaxFaults /\ boots \in 0..MaxBoots
    BY DEF IInv, ConfigIInv, Good
  <2>2. flash.flag \in 0..1 /\ flash.blob \in Blobs \cup {None}
    BY DEF IInv, ConfigIInv, FlashOK
  <2>3. /\ erase \in [step : {"idle", "remove", "bump"}, key : Keys \cup {None}]
        /\ DOMAIN store = Hashes
        /\ \A h \in Hashes : /\ store[h].blob \in Session \cup {None}
                             /\ store[h].epoch \in 0..(EpochMod - 1)
        /\ DOMAIN runtime \subseteq Keys /\ saving \in DOMAIN runtime \cup {None}
    BY DEF IInv, StoreIInv, StoreTypes
  <2> QED
    BY <2>1, <2>2, <2>3 DEF TypeOK
<1>2. IInv => ListsSound
  <2> SUFFICES ASSUME IInv
               PROVE  ListsSound
    OBVIOUS
  <2>1. Good(cfg) /\ (flash.blob # None => Good(flash.blob.config))
    BY DEF IInv, ConfigIInv, FlashOK
  <2>2. \A c \in {cfg} \cup (IF flash.blob = None THEN {} ELSE {flash.blob.config}) : Good(c)
    BY <2>1
  <2> QED
    BY <2>2, GoodIsSound DEF ListsSound
<1>3. IInv => RoomsPaired
  <2> SUFFICES ASSUME IInv, faults = 0, ~strayed
               PROVE  {cfg.rooms[i].key : i \in 1..Len(cfg.rooms)} =
                      {cfg.contacts[i].key : i \in {j \in 1..Len(cfg.contacts) : cfg.contacts[j].room}}
    BY DEF RoomsPaired
  <2> DEFINE r == cfg.rooms
             l == cfg.contacts
  <2>1. Good(cfg) /\ Pairs(l, r)
    BY DEF IInv, ConfigIInv, Paired
  <2>2. r \in Seq(RoomRec) /\ l \in Seq(ContactRec)
    BY <2>1, GoodFields DEF RoomSeq, ContactSeq
  <2> HIDE DEF r, l
  <2>3. \A i \in 1..Len(r) : r[i].key \in Keys
    <3>1. \A i \in 1..Len(r) : r[i] \in RoomRec
      BY <2>2
    <3> QED
      BY <3>1 DEF RoomRec
  <2>4. \A i \in 1..Len(l) : l[i].key \in Keys
    <3>1. \A i \in 1..Len(l) : l[i] \in ContactRec
      BY <2>2
    <3> QED
      BY <3>1 DEF ContactRec
  <2>5. \A k : Has(r, k) <=> \E i \in 1..Len(r) : r[i].key = k
    BY <2>2, PositionFacts
  <2>6. {r[i].key : i \in 1..Len(r)} = {l[i].key : i \in {j \in 1..Len(l) : l[j].room}}
    BY <2>1, <2>3, <2>4, <2>5 DEF Pairs, RoomKey
  <2> QED
    BY <2>6 DEF r, l
<1>4. IInv => ConfigInv
  BY <1>1, <1>2, <1>3 DEF ConfigInv
<1> QED
  BY <1>4, Invariant, PTL

=============================================================================
