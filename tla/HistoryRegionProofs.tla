------------------------ MODULE HistoryRegionProofs ------------------------
(***************************************************************************)
(* Proofs about HistoryRegion, for every number of conversations, regions, *)
(* slots, generations and faults: the directory of regions stays sound, no *)
(* reader sees a message twice or loses more places than there were        *)
(* faults, and the regions implement HistoryLog.                           *)
(***************************************************************************)
EXTENDS HistoryRegion, TLAPS, FiniteSetTheorems, WellFoundedInduction

-----------------------------------------------------------------------------
(***************************************************************************)
(* The inductive invariant, in terms of a flash fl, the number n of        *)
(* messages so far and the commands td.                                    *)
(***************************************************************************)
Slot == Entries \cup {Torn, Garbage}

\* What a slot of conversation c may hold.
Adds(c) == {e \in Entries : e.conv = c} \cup {Torn, Garbage}

\* No message but a legacy one is in the list l twice.
UniqueIn(l) ==
    \A i, j \in 1..Len(l) : (l[i].msg = l[j].msg /\ l[i].msg > NumLegacy) => i = j

\* A sector is well formed, and the slots of a claimed one are of its
\* conversation.
SectorOK(sec, n) ==
    /\ sec \in Sector
    /\ Len(sec.slots) <= Slots
    /\ sec.conv # NoConv => \A i \in 1..Len(sec.slots) : sec.slots[i] \in Adds(sec.conv)
    /\ UniqueIn(sec.slots)
    /\ \A i \in 1..Len(sec.slots) : sec.slots[i].msg <= n

FlashInv(fl, n) ==
    /\ fl \in [Regions -> [Sectors -> Sector]]
    /\ \A r \in Regions, s \in Sectors : SectorOK(fl[r][s], n)

\* Two claimed sectors of one region are neighbours ...
PairInv(fl) ==
    \A r \in Regions, s \in Sectors :
        (Claimed(fl, r, s) /\ Claimed(fl, r, 1 - s)) =>
            /\ fl[r][s].conv = fl[r][1 - s].conv
            /\ \/ fl[r][s].gen = (fl[r][1 - s].gen + 1) % GenMod
               \/ fl[r][1 - s].gen = (fl[r][s].gen + 1) % GenMod

\* ... and those of two regions belong to two conversations.
OwnInv(fl) ==
    \A q, r \in Regions, s, t \in Sectors :
        (q # r /\ Claimed(fl, q, s) /\ Claimed(fl, r, t)) => fl[q][s].conv # fl[r][t].conv

DirInv(fl) == PairInv(fl) /\ OwnInv(fl)

\* The entries that may be on their way: given out, and not yet in flash.
Pending(fl, n) ==
    {e \in Entries :
        /\ e.msg <= n
        /\ e.msg > NumLegacy =>
              \A r \in Regions, s \in Sectors :
                 \A i \in 1..Len(fl[r][s].slots) : fl[r][s].slots[i].msg # e.msg}

\* What may follow a rewrite: nothing, or the entry of an append.
Extras(fl, n, c) == {<<>>} \cup {<<e>> : e \in {x \in Pending(fl, n) : x.conv = c}}

\* The only command left: an entry for the active sector, which has room.
WritePlan(fl, td, r, s, e) ==
    /\ td = <<Write(r, s, e)>>
    /\ s \in Active(fl, r) /\ fl[r][s].conv = e.conv
    /\ Len(fl[r][s].slots) < Slots

\* What is left of a claim of region r for a conversation that has none.
ClaimPlan(fl, td, r, e) ==
    /\ \A q \in Regions, t \in Sectors : fl[q][t].conv # e.conv
    /\ fl[r][0].conv = NoConv /\ fl[r][1].conv = NoConv
    /\ \/ td = <<Erase(r, 0), Erase(r, 1), Header(r, 0, e.conv, 0), Write(r, 0, e)>>
       \/ /\ td = <<Erase(r, 1), Header(r, 0, e.conv, 0), Write(r, 0, e)>>
          /\ fl[r][0] = Erased
       \/ /\ td = <<Header(r, 0, e.conv, 0), Write(r, 0, e)>>
          /\ fl[r][0] = Erased

\* The last commands of a rewrite: the erase of sector s, and the write of an
\* append to the other.
HandOff(td, r, s, extra) ==
    /\ Len(td) = 1 + Len(extra)
    /\ td[1] = Erase(r, s)
    /\ Len(extra) = 1 => td[2] = Write(r, 1 - s, extra[1])

\* The commands of a rewrite out of a sector s of generation g from the write
\* after the k-th on: the rest of the list live, the header, the hand-off.
Copying(td, r, s, c, g, live, k, extra) ==
    /\ Len(td) = (Len(live) - k) + 2 + Len(extra)
    /\ \A i \in 1..(Len(live) - k) : td[i] = Write(r, 1 - s, live[k + i])
    /\ td[(Len(live) - k) + 1] = Header(r, 1 - s, c, (g + 1) % GenMod)
    /\ td[(Len(live) - k) + 2] = Erase(r, s)
    /\ Len(extra) = 1 => td[(Len(live) - k) + 3] = Write(r, 1 - s, extra[1])

\* The lists a rewrite of a sector with these slots copies.
Copies(slots) == {Live(slots), Log!Marked(Live(slots))}

\* A rewrite of region r out of its active sector s that has not erased the
\* spare yet, and one that has copied k entries.
EraseFirstPlan(fl, td, r, s, live, extra) ==
    /\ s \in Active(fl, r)
    /\ Len(td) > 0 /\ td[1] = Erase(r, 1 - s)
    /\ Copying(Tail(td), r, s, fl[r][s].conv, fl[r][s].gen, live, 0, extra)

CopyPlan(fl, td, r, s, live, k, extra) ==
    /\ s \in Active(fl, r)
    /\ fl[r][1 - s].conv = NoConv
    /\ k <= Len(live) /\ Len(fl[r][1 - s].slots) = k
    /\ Copying(td, r, s, fl[r][s].conv, fl[r][s].gen, live, k, extra)
    /\ \A i \in 1..k : fl[r][1 - s].slots[i] = live[i]

\* The header is written; sector s is the spare now and still to be erased.
HandOffPlan(fl, td, r, s, extra) ==
    /\ 1 - s \in Active(fl, r)
    /\ Len(fl[r][1 - s].slots) <= Keep
    /\ HandOff(td, r, s, extra)

\* The running operation, other than a clear, and how far it is.
Plan(fl, n, td) ==
    \/ td = <<>>
    \/ \E r \in Regions, s \in Sectors, e \in Pending(fl, n) : WritePlan(fl, td, r, s, e)
    \/ \E r \in Regions, e \in Pending(fl, n) : ClaimPlan(fl, td, r, e)
    \/ \E r \in Regions, s \in Sectors :
       \E live \in Copies(fl[r][s].slots), extra \in Extras(fl, n, fl[r][s].conv) :
          \/ EraseFirstPlan(fl, td, r, s, live, extra)
          \/ \E k \in 0..Keep : CopyPlan(fl, td, r, s, live, k, extra)
    \/ \E r \in Regions, s \in Sectors :
       \E extra \in Extras(fl, n, fl[r][1 - s].conv) : HandOffPlan(fl, td, r, s, extra)

\* The flash commands there are.
Cmds ==
    [cmd : {"erase"}, r : Regions, s : Sectors]
        \cup [cmd : {"write"}, r : Regions, s : Sectors, entry : Slot]
        \cup [cmd : {"header"}, r : Regions, s : Sectors, conv : Convs, gen : Gens]

ClearPlan(td) ==
    \A i \in 1..Len(td) : \E r \in Regions, s \in Sectors : td[i] = Erase(r, s)

PlanInv(fl, n, td, o) == IF o = "clear" THEN ClearPlan(td) ELSE Plan(fl, n, td)

Counters ==
    /\ op \in Ops /\ (op = "idle" <=> todo = <<>>)
    /\ todo \in Seq(Cmds)
    /\ migrating \in 1..(NumLegacy + 1)
    /\ marker \in BOOLEAN
    /\ appended \in Seq(Convs) /\ Len(appended) \in NumLegacy..(NumLegacy + MaxAppends)
    /\ clears \in 0..MaxClears
    /\ faults \in 0..MaxFaults

IInv ==
    /\ FlashInv(flash, Len(appended)) /\ DirInv(flash)
    /\ PlanInv(flash, Len(appended), todo, op)
    /\ Counters

-----------------------------------------------------------------------------
(***************************************************************************)
(* Numbers, sets and sequences.                                            *)
(***************************************************************************)
LEMMA LeastExists ==
    ASSUME NEW S \in SUBSET Nat, S # {}
    PROVE  \E m \in S : \A n \in S : m <= n
<1>1. PICK m \in S : \A y \in S : <<y, m>> \notin OpToRel(<, Nat)
  BY NatLessThanWellFounded, WFMin
<1>2. \A y \in S : ~(y < m)
  BY <1>1 DEF OpToRel
<1> QED
  BY <1>2

LEMMA SeqLen ==
    ASSUME NEW S, NEW s \in Seq(S)
    PROVE  Len(s) \in Nat /\ \A i \in 1..Len(s) : s[i] \in S
  OBVIOUS

LEMMA AppendFacts ==
    ASSUME NEW S, NEW s \in Seq(S), NEW e \in S
    PROVE  /\ Append(s, e) \in Seq(S) /\ Len(Append(s, e)) = Len(s) + 1
           /\ Append(s, e)[Len(s) + 1] = e
           /\ \A i \in 1..Len(s) : Append(s, e)[i] = s[i]
  OBVIOUS

LEMMA TailFacts ==
    ASSUME NEW S, NEW s \in Seq(S), s # <<>>
    PROVE  /\ Len(s) > 0 /\ Head(s) = s[1]
           /\ Tail(s) \in Seq(S) /\ Len(Tail(s)) = Len(s) - 1
           /\ \A i \in 1..(Len(s) - 1) : Tail(s)[i] = s[i + 1]
  OBVIOUS

LEMMA ShortSeq ==
    ASSUME NEW S, NEW s \in Seq(S)
    PROVE  (Len(s) = 0 => s = <<>>) /\ (Len(s) = 1 => s = <<s[1]>>)
  OBVIOUS

\* Two sequences with the same items are the same sequence.
LEMMA SameSeq ==
    ASSUME NEW S, NEW T, NEW s \in Seq(S), NEW t \in Seq(T), Len(s) = Len(t),
           \A i \in 1..Len(s) : s[i] = t[i]
    PROVE  s = t
  OBVIOUS

LEMMA Constants ==
    /\ NumRegions \in Nat \ {0} /\ Keep \in Nat \ {0} /\ Slots \in Nat /\ Slots > Keep
    /\ NumLegacy \in Nat /\ MaxAppends \in Nat /\ MaxClears \in Nat /\ MaxFaults \in Nat
    /\ NoConv \notin Convs /\ GenMod \in Nat /\ GenMod >= 4
<1>1. GenMod # 3
  BY HistoryRegionAssumption
<1> QED
  BY <1>1, HistoryRegionAssumption

\* The generation after g.
LEMMA NextGen ==
    ASSUME NEW g \in Gens
    PROVE  (g + 1) % GenMod = IF g + 1 = GenMod THEN 0 ELSE g + 1
<1>1. GenMod \in Nat /\ GenMod >= 4 /\ g \in Nat /\ g < GenMod
  BY Constants DEF Gens
<1>2. CASE g + 1 = GenMod
  <2>1. GenMod % GenMod = 0
    BY <1>1
  <2> QED
    BY <1>2, <2>1
<1>3. CASE g + 1 # GenMod
  <2>1. (g + 1) % GenMod = g + 1
    BY <1>1, <1>3
  <2> QED
    BY <1>3, <2>1
<1> QED
  BY <1>2, <1>3

\* The wrapping comparison is right about two neighbours, at the wrap too.
LEMMA NewerFact ==
    ASSUME NEW g \in Gens, NEW h, h = (g + 1) % GenMod
    PROVE  h \in Gens /\ h # g /\ IsNewer(h, g) /\ ~IsNewer(g, h)
<1>1. GenMod \in Nat /\ GenMod >= 4 /\ g \in Nat /\ g < GenMod
  BY Constants DEF Gens
<1>2. h = IF g + 1 = GenMod THEN 0 ELSE g + 1
  BY NextGen
<1>3. (h + GenMod - g) % GenMod = 1
  <2>1. CASE g + 1 = GenMod
    <3>1. h + GenMod - g = 1
      BY <1>1, <1>2, <2>1
    <3>2. 1 % GenMod = 1
      BY <1>1
    <3> QED
      BY <3>1, <3>2
  <2>2. CASE g + 1 # GenMod
    <3>1. h + GenMod - g = GenMod + 1
      BY <1>1, <1>2, <2>2
    <3>2. (GenMod + 1) % GenMod = 1
      BY <1>1
    <3> QED
      BY <3>1, <3>2
  <2> QED
    BY <2>1, <2>2
<1>4. (g + GenMod - h) % GenMod = GenMod - 1
  <2>1. CASE g + 1 = GenMod
    <3>1. g + GenMod - h = GenMod + (GenMod - 1)
      BY <1>1, <1>2, <2>1
    <3>2. (GenMod + (GenMod - 1)) % GenMod = GenMod - 1
      BY <1>1
    <3> QED
      BY <3>1, <3>2
  <2>2. CASE g + 1 # GenMod
    <3>1. g + GenMod - h = GenMod - 1
      BY <1>1, <1>2, <2>2
    <3>2. (GenMod - 1) % GenMod = GenMod - 1
      BY <1>1
    <3> QED
      BY <3>1, <3>2
  <2> QED
    BY <2>1, <2>2
<1>5. (GenMod \div 2) - 1 >= 1 /\ (GenMod \div 2) - 1 < GenMod - 1 /\ GenMod \div 2 \in Nat
  BY <1>1
<1>6. h \in Gens /\ h # g
  BY <1>1, <1>2 DEF Gens
<1>7. IsNewer(h, g)
  BY <1>1, <1>3, <1>5 DEF IsNewer
<1>8. ~IsNewer(g, h)
  BY <1>1, <1>4, <1>5 DEF IsNewer
<1> QED
  BY <1>6, <1>7, <1>8

LEMMA SlotFacts ==
    /\ \A x \in Slot : x.msg \in Nat /\ x.ours \in BOOLEAN /\ x.acked \in BOOLEAN
    /\ Torn \in Slot /\ Garbage \in Slot /\ Torn.msg = 0 /\ Garbage.msg = 0
    /\ \A e \in Entries : e \in Slot /\ e.msg \in Nat /\ e.msg > 0 /\ e.conv \in Convs
    /\ \A c \in Convs : Adds(c) \subseteq Slot /\ Torn \in Adds(c) /\ Garbage \in Adds(c)
<1>1. \A e \in Entries : /\ e \in Slot /\ e.msg \in Nat /\ e.msg > 0 /\ e.conv \in Convs
                         /\ e.ours \in BOOLEAN /\ e.acked \in BOOLEAN
  BY Constants DEF Slot, Entries, Msgs
<1>2. Torn \in Slot /\ Garbage \in Slot
  BY DEF Slot
<1>3. /\ Torn.msg = 0 /\ Torn.ours = FALSE /\ Torn.acked = FALSE
      /\ Garbage.msg = 0 /\ Garbage.ours = TRUE /\ Garbage.acked = TRUE
  BY DEF Torn, Garbage
<1>4. \A x \in Slot : x.msg \in Nat /\ x.ours \in BOOLEAN /\ x.acked \in BOOLEAN
  <2> SUFFICES ASSUME NEW x \in Slot
               PROVE  x.msg \in Nat /\ x.ours \in BOOLEAN /\ x.acked \in BOOLEAN
    OBVIOUS
  <2>1. x \in Entries \/ x = Torn \/ x = Garbage
    BY DEF Slot
  <2>2. CASE x \in Entries
    BY <1>1, <2>2
  <2>3. CASE x = Torn
    <3>1. x.msg \in Nat /\ x.ours = FALSE /\ x.acked = FALSE
      BY <1>3, <2>3
    <3> QED
      BY <3>1, Zenon
  <2>4. CASE x = Garbage
    <3>1. x.msg \in Nat /\ x.ours = TRUE /\ x.acked = TRUE
      BY <1>3, <2>4
    <3> QED
      BY <3>1, Zenon
  <2> QED
    BY <2>1, <2>2, <2>3, <2>4
<1>5. \A c \in Convs : Adds(c) \subseteq Slot /\ Torn \in Adds(c) /\ Garbage \in Adds(c)
  BY Zenon DEF Adds, Slot
<1> QED
  BY <1>1, <1>2, <1>3, <1>4, <1>5

-----------------------------------------------------------------------------
(***************************************************************************)
(* What gather_live returns.                                               *)
(***************************************************************************)
\* The defining equation of the list without the items t.
KeptUpTo(f, w, t, m) ==
    f = [n \in 0..m |-> IF n = 0 THEN <<>>
                        ELSE IF w[n] = t THEN f[n - 1] ELSE Append(f[n - 1], w[n])]

LEMMA KeptExists ==
    ASSUME NEW S, NEW w \in Seq(S), NEW t
    PROVE  \E f : KeptUpTo(f, w, t, Len(w))
<1> DEFINE Bad == {m \in Nat : m <= Len(w) /\ ~\E f : KeptUpTo(f, w, t, m)}
<1>1. Len(w) \in Nat
  BY SeqLen
<1>2. SUFFICES ASSUME Bad # {} PROVE FALSE
  BY <1>1
<1>3. PICK m \in Bad : \A n \in Bad : m <= n
  <2> HIDE DEF Bad
  <2>1. Bad \in SUBSET Nat
    BY DEF Bad
  <2> QED
    BY <1>2, <2>1, LeastExists
<1>4. m \in Nat /\ m <= Len(w) /\ ~\E f : KeptUpTo(f, w, t, m)
  OBVIOUS
<1>5. m # 0
  <2> DEFINE f == [n \in 0..0 |-> <<>>]
  <2>1. KeptUpTo(f, w, t, 0)
    BY DEF KeptUpTo
  <2> HIDE DEF f
  <2> QED
    BY <1>4, <2>1
<1>6. m - 1 \in Nat /\ m - 1 <= Len(w) /\ m - 1 \notin Bad
  BY <1>1, <1>3, <1>4, <1>5
<1>7. PICK f : KeptUpTo(f, w, t, m - 1)
  BY <1>6
<1> DEFINE g == [n \in 0..m |-> IF n < m THEN f[n]
                                ELSE IF w[m] = t THEN f[m - 1] ELSE Append(f[m - 1], w[m])]
<1>8. \A n \in 0..(m - 1) : f[n] = IF n = 0 THEN <<>>
                        ELSE IF w[n] = t THEN f[n - 1] ELSE Append(f[n - 1], w[n])
  BY <1>7 DEF KeptUpTo
<1>9. \A n \in 0..m : g[n] = IF n = 0 THEN <<>>
                        ELSE IF w[n] = t THEN g[n - 1] ELSE Append(g[n - 1], w[n])
  BY <1>4, <1>5, <1>8
<1>10. KeptUpTo(g, w, t, m)
  <2>1. g = [n \in 0..m |-> g[n]]
    OBVIOUS
  <2> HIDE DEF g
  <2> QED
    BY <1>9, <2>1 DEF KeptUpTo
<1> QED
  BY <1>4, <1>10

LEMMA KeptEquation ==
    ASSUME NEW slots, Window(slots) \in Seq(Slot)
    PROVE  \E f : KeptUpTo(f, Window(slots), Torn, Len(Window(slots)))
                  /\ Live(slots) = f[Len(Window(slots))]
<1> DEFINE w == Window(slots)
           f == CHOOSE x : x = [n \in 0..Len(w) |-> IF n = 0 THEN <<>>
                        ELSE IF w[n] = Torn THEN x[n - 1] ELSE Append(x[n - 1], w[n])]
<1>1. Live(slots) = f[Len(w)]
  BY Zenon DEF Live
<1>2. KeptUpTo(f, w, Torn, Len(w))
  <2>1. \E x : KeptUpTo(x, w, Torn, Len(w))
    BY KeptExists
  <2> HIDE DEF w
  <2> QED
    BY <2>1, Zenon DEF KeptUpTo
<1> HIDE DEF f
<1> QED
  BY <1>1, <1>2

LEMMA WindowFacts ==
    ASSUME NEW slots \in Seq(Slot)
    PROVE  /\ Window(slots) \in Seq(Slot) /\ Len(Window(slots)) \in Nat
           /\ Len(Window(slots)) <= Keep /\ Len(Window(slots)) <= Len(slots)
           /\ Len(slots) <= Keep => Window(slots) = slots
           /\ Len(slots) >= Keep => Len(Window(slots)) = Keep
           /\ \A i \in 1..Len(Window(slots)) :
                 /\ (Len(slots) - Len(Window(slots))) + i \in 1..Len(slots)
                 /\ Window(slots)[i] = slots[(Len(slots) - Len(Window(slots))) + i]
<1>1. Len(slots) \in Nat /\ Keep \in Nat
  BY SeqLen, Constants
<1>2. CASE Len(slots) <= Keep
  BY <1>1, <1>2 DEF Window
<1>3. CASE Len(slots) > Keep
  <2> DEFINE u == SubSeq(slots, Len(slots) - Keep + 1, Len(slots))
  <2>1. Window(slots) = u
    BY <1>1, <1>3 DEF Window
  <2>2. u \in Seq(Slot) /\ Len(u) = Keep
    BY <1>1, <1>3
  <2>3. \A i \in 1..Keep : u[i] = slots[(Len(slots) - Keep) + i] /\ (Len(slots) - Keep) + i \in 1..Len(slots)
    BY <1>1, <1>3
  <2> HIDE DEF u
  <2> QED
    BY <1>1, <1>3, <2>1, <2>2, <2>3
<1> QED
  BY <1>1, <1>2, <1>3

\* A sound list: without unreadable items, of items of the first m of w.
Picked(l, w, m) ==
    /\ l \in Seq(Slot) /\ Len(l) <= m
    /\ \A i \in 1..Len(l) : l[i] # Torn /\ \E j \in 1..m : l[i] = w[j]
    /\ UniqueIn(w) => UniqueIn(l)

LEMMA PickedMore ==
    ASSUME NEW w \in Seq(Slot), NEW m \in Nat, m + 1 <= Len(w), NEW l, Picked(l, w, m),
           NEW k, k = IF w[m + 1] = Torn THEN l ELSE Append(l, w[m + 1])
    PROVE  Picked(k, w, m + 1)
<1>1. /\ Len(w) \in Nat /\ \A i \in 1..Len(w) : w[i] \in Slot
      /\ l \in Seq(Slot) /\ Len(l) \in Nat /\ Len(l) <= m
      /\ \A i \in 1..Len(l) : l[i] # Torn /\ \E j \in 1..m : l[i] = w[j]
      /\ UniqueIn(w) => UniqueIn(l)
  BY SeqLen DEF Picked
<1>2. CASE w[m + 1] = Torn
  BY <1>1, <1>2 DEF Picked
<1>3. CASE w[m + 1] # Torn
  <2> DEFINE e == w[m + 1]
  <2>1. m + 1 \in 1..Len(w) /\ e \in Slot
    BY <1>1
  <2>2. /\ k \in Seq(Slot) /\ Len(k) = Len(l) + 1 /\ k[Len(l) + 1] = e
        /\ \A i \in 1..Len(l) : k[i] = l[i]
    BY <1>1, <1>3, <2>1, AppendFacts
  <2>3. \A i \in 1..Len(k) : k[i] # Torn /\ \E j \in 1..(m + 1) : k[i] = w[j]
    BY <1>1, <1>3, <2>1, <2>2
  <2>4. ASSUME UniqueIn(w) PROVE UniqueIn(k)
    <3> SUFFICES ASSUME NEW i \in 1..Len(k), NEW j \in 1..Len(k), i # j,
                        k[i].msg = k[j].msg, k[i].msg > NumLegacy
                 PROVE  FALSE
      BY Zenon DEF UniqueIn
    <3>1. CASE i <= Len(l) /\ j <= Len(l)
      BY <1>1, <2>2, <2>4, <3>1 DEF UniqueIn
    <3>2. CASE i = Len(l) + 1 /\ j <= Len(l)
      <4>1. PICK x \in 1..m : l[j] = w[x]
        BY <1>1, <2>2, <3>2
      <4>2. k[i] = w[m + 1] /\ k[j] = w[x] /\ x # m + 1 /\ x \in 1..Len(w)
        BY <1>1, <2>2, <3>2, <4>1
      <4> QED
        BY <2>1, <2>4, <4>2 DEF UniqueIn
    <3>3. CASE j = Len(l) + 1 /\ i <= Len(l)
      <4>1. PICK x \in 1..m : l[i] = w[x]
        BY <1>1, <2>2, <3>3
      <4>2. k[j] = w[m + 1] /\ k[i] = w[x] /\ x # m + 1 /\ x \in 1..Len(w)
        BY <1>1, <2>2, <3>3, <4>1
      <4> QED
        BY <2>1, <2>4, <4>2 DEF UniqueIn
    <3> QED
      BY <1>1, <2>2, <3>1, <3>2, <3>3
  <2> QED
    BY <1>1, <2>2, <2>3, <2>4 DEF Picked
<1> QED
  BY <1>2, <1>3

LEMMA KeptIsPicked ==
    ASSUME NEW w \in Seq(Slot), NEW f, KeptUpTo(f, w, Torn, Len(w))
    PROVE  Picked(f[Len(w)], w, Len(w))
<1> DEFINE Bad == {m \in Nat : m <= Len(w) /\ ~Picked(f[m], w, m)}
<1>1. Len(w) \in Nat
  BY SeqLen
<1>2. SUFFICES ASSUME Bad # {} PROVE FALSE
  BY <1>1
<1>3. PICK m \in Bad : \A n \in Bad : m <= n
  <2> HIDE DEF Bad
  <2>1. Bad \in SUBSET Nat
    BY DEF Bad
  <2> QED
    BY <1>2, <2>1, LeastExists
<1>4. m \in Nat /\ m <= Len(w) /\ ~Picked(f[m], w, m)
  OBVIOUS
<1>5. \A n \in 0..Len(w) : f[n] = IF n = 0 THEN <<>>
                        ELSE IF w[n] = Torn THEN f[n - 1] ELSE Append(f[n - 1], w[n])
  BY DEF KeptUpTo
<1>6. m # 0
  <2>1. f[0] = <<>>
    BY <1>1, <1>5
  <2>2. Picked(<<>>, w, 0)
    BY DEF Picked, UniqueIn
  <2> QED
    BY <1>4, <2>1, <2>2
<1> DEFINE p == m - 1
<1>7. p \in Nat /\ p + 1 = m /\ p + 1 <= Len(w) /\ p \notin Bad
  BY <1>1, <1>3, <1>4, <1>6
<1>8. Picked(f[p], w, p)
  BY <1>1, <1>7
<1>9. f[p + 1] = IF w[p + 1] = Torn THEN f[p] ELSE Append(f[p], w[p + 1])
  BY <1>1, <1>5, <1>7
<1> HIDE DEF p
<1>10. Picked(f[p + 1], w, p + 1)
  BY <1>7, <1>8, <1>9, PickedMore
<1> QED
  BY <1>4, <1>7, <1>10

\* What gather_live returns: at most Keep readable items, in their order.
LEMMA LiveFacts ==
    ASSUME NEW slots \in Seq(Slot)
    PROVE  /\ Live(slots) \in Seq(Slot) /\ Len(Live(slots)) \in Nat /\ Len(Live(slots)) <= Keep
           /\ \A i \in 1..Len(Live(slots)) :
                 Live(slots)[i] # Torn /\ \E j \in 1..Len(slots) : Live(slots)[i] = slots[j]
           /\ UniqueIn(slots) => UniqueIn(Live(slots))
<1> DEFINE w == Window(slots)
           l == Live(slots)
<1>1. /\ w \in Seq(Slot) /\ Len(w) \in Nat /\ Len(w) <= Keep /\ Keep \in Nat /\ Len(slots) \in Nat
      /\ Len(w) <= Len(slots)
      /\ \A i \in 1..Len(w) : /\ (Len(slots) - Len(w)) + i \in 1..Len(slots)
                              /\ w[i] = slots[(Len(slots) - Len(w)) + i]
  BY WindowFacts, Constants, SeqLen
<1>2. Picked(l, w, Len(w))
  BY <1>1, KeptEquation, KeptIsPicked
<1> HIDE DEF w, l
<1>3. /\ l \in Seq(Slot) /\ Len(l) \in Nat /\ Len(l) <= Len(w)
      /\ \A i \in 1..Len(l) : l[i] # Torn /\ \E j \in 1..Len(w) : l[i] = w[j]
      /\ UniqueIn(w) => UniqueIn(l)
  BY <1>2, SeqLen DEF Picked
<1>4. ASSUME UniqueIn(slots) PROVE UniqueIn(w)
  <2> DEFINE d == Len(slots) - Len(w)
  <2> SUFFICES ASSUME NEW i \in 1..Len(w), NEW j \in 1..Len(w), i # j,
                      w[i].msg = w[j].msg, w[i].msg > NumLegacy
               PROVE  FALSE
    BY Zenon DEF UniqueIn
  <2>1. w[i] = slots[d + i] /\ w[j] = slots[d + j] /\ d + i \in 1..Len(slots) /\ d + j \in 1..Len(slots)
    BY <1>1
  <2>2. d + i # d + j
    BY <1>1
  <2> QED
    BY <1>4, <2>1, <2>2 DEF UniqueIn
<1>5. \A i \in 1..Len(l) : l[i] # Torn /\ \E j \in 1..Len(slots) : l[i] = slots[j]
  BY <1>1, <1>3
<1>6. Len(l) <= Keep
  BY <1>1, <1>3
<1> QED
  BY <1>3, <1>4, <1>5, <1>6 DEF l

-----------------------------------------------------------------------------
(***************************************************************************)
(* Sectors, and what a command does to one.                                *)
(***************************************************************************)
Put(fl, r, s, x) == [fl EXCEPT ![r][s] = x]

LEMMA SectorFields ==
    ASSUME NEW sec \in Sector
    PROVE  sec.conv \in Convs \cup {NoConv} /\ sec.gen \in Gens /\ sec.slots \in Seq(Slot)
  BY Zenon DEF Sector, Slot

LEMMA WithSlots ==
    ASSUME NEW sec \in Sector, NEW l \in Seq(Slot), NEW x, x = [sec EXCEPT !.slots = l]
    PROVE  x \in Sector /\ x.conv = sec.conv /\ x.gen = sec.gen /\ x.slots = l
<1>1. l \in Seq(Entries \cup {Torn, Garbage})
  BY Zenon DEF Slot
<1> DEFINE Q == Seq(Entries \cup {Torn, Garbage})
<1> HIDE DEF Q
<1>2. l \in Q /\ Sector = [conv : Convs \cup {NoConv}, gen : Gens, slots : Q]
  BY <1>1, Zenon DEF Q, Sector
<1> QED
  BY <1>2

Headed(sec, c, g) == [sec EXCEPT !.conv = c, !.gen = g]

LEMMA WithHeader ==
    ASSUME NEW sec \in Sector, NEW c \in Convs, NEW g \in Gens,
           NEW x, x = Headed(sec, c, g)
    PROVE  x \in Sector /\ x.conv = c /\ x.gen = g /\ x.slots = sec.slots
<1> DEFINE Q == Seq(Entries \cup {Torn, Garbage})
<1> HIDE DEF Q
<1>1. Sector = [conv : Convs \cup {NoConv}, gen : Gens, slots : Q]
  BY Zenon DEF Q, Sector
<1> QED
  BY <1>1 DEF Headed

LEMMA ErasedFacts ==
    ASSUME NEW n \in Nat
    PROVE  /\ Erased \in Sector /\ Erased.conv = NoConv /\ Erased.slots = <<>>
           /\ Junk \in Sector /\ Junk.conv = NoConv
           /\ SectorOK(Erased, n) /\ SectorOK(Junk, n)
<1> DEFINE Q == Seq(Entries \cup {Torn, Garbage})
           j == [i \in 1..Slots |-> Torn]
<1>1. 0 \in Gens /\ Slots \in Nat
  BY Constants DEF Gens
<1>2. <<>> \in Q
  OBVIOUS
<1>3. j \in Seq(Slot) /\ Len(j) = Slots /\ \A i \in 1..Slots : j[i] = Torn
  BY <1>1, SlotFacts
<1>4. j \in Q
  BY <1>3, Zenon DEF Slot
<1>5. Sector = [conv : Convs \cup {NoConv}, gen : Gens, slots : Q]
  BY Zenon DEF Sector
<1> HIDE DEF Q, j
<1>6. Erased \in Sector /\ Erased.conv = NoConv /\ Erased.slots = <<>>
  BY <1>1, <1>2, <1>5 DEF Erased
<1>7. Junk = [conv |-> NoConv, gen |-> 0, slots |-> j]
  BY Zenon DEF Junk, j
<1>8. Junk \in Sector /\ Junk.conv = NoConv /\ Junk.slots = j
  BY <1>1, <1>4, <1>5, <1>7
<1>9. SectorOK(Erased, n)
  BY <1>1, <1>6 DEF SectorOK, UniqueIn
<1>10. SectorOK(Junk, n)
  BY <1>1, <1>3, <1>8, SlotFacts, Constants DEF SectorOK, UniqueIn
<1> QED
  BY <1>6, <1>8, <1>9, <1>10

LEMMA EraseFacts ==
    ASSUME NEW sec, NEW r, NEW s, NEW cmd, cmd = Erase(r, s)
    PROVE  /\ cmd.cmd = "erase" /\ cmd.r = r /\ cmd.s = s
           /\ Done(sec, cmd) = Erased /\ Partial(sec, cmd) = {sec, Junk, Erased}
<1>1. cmd.cmd = "erase" /\ cmd.r = r /\ cmd.s = s
  BY DEF Erase
<1> QED
  BY <1>1 DEF Done, Partial

LEMMA WriteFacts ==
    ASSUME NEW sec, NEW r, NEW s, NEW e, NEW cmd, cmd = Write(r, s, e)
    PROVE  /\ cmd.cmd = "write" /\ cmd.r = r /\ cmd.s = s
           /\ Done(sec, cmd) = [sec EXCEPT !.slots = Append(@, e)]
           /\ Done(sec, cmd) \in Partial(sec, cmd)
           /\ \A x \in Partial(sec, cmd) :
                 \/ x = sec
                 \/ \E y \in {e, Torn, Garbage} : x = [sec EXCEPT !.slots = Append(@, y)]
<1>1. cmd.cmd = "write" /\ cmd.r = r /\ cmd.s = s /\ cmd.entry = e
  BY DEF Write
<1>2. Done(sec, cmd) = [sec EXCEPT !.slots = Append(@, e)]
  BY <1>1 DEF Done
<1>3. Partial(sec, cmd) =
         {sec, Done(sec, cmd)} \cup {[sec EXCEPT !.slots = Append(@, x)] : x \in {Torn, Garbage}}
  BY <1>1 DEF Partial
<1> QED
  BY <1>1, <1>2, <1>3, Zenon

LEMMA HeaderFacts ==
    ASSUME NEW sec, NEW r, NEW s, NEW c, NEW g, NEW cmd, cmd = Header(r, s, c, g)
    PROVE  /\ cmd.cmd = "header" /\ cmd.r = r /\ cmd.s = s
           /\ Done(sec, cmd) = Headed(sec, c, g)
           /\ Partial(sec, cmd) = {sec, Done(sec, cmd)}
<1>1. cmd.cmd = "header" /\ cmd.r = r /\ cmd.s = s /\ cmd.conv = c /\ cmd.gen = g
  BY DEF Header
<1> QED
  BY <1>1 DEF Done, Partial, Headed

LEMMA SectorPair ==
    ASSUME NEW s \in Sectors
    PROVE  /\ 1 - s \in Sectors /\ 1 - s # s /\ 1 - (1 - s) = s
           /\ \A t \in Sectors : t = s \/ t = 1 - s
  BY DEF Sectors

LEMMA PutFacts ==
    ASSUME NEW fl \in [Regions -> [Sectors -> Sector]], NEW r \in Regions, NEW s \in Sectors,
           NEW x \in Sector
    PROVE  /\ Put(fl, r, s, x) \in [Regions -> [Sectors -> Sector]] /\ Put(fl, r, s, x)[r][s] = x
           /\ \A q \in Regions, t \in Sectors :
                 (q # r \/ t # s) => Put(fl, r, s, x)[q][t] = fl[q][t]
  BY DEF Put

\* What is known of a sector of a sound flash.
LEMMA FlashFacts ==
    ASSUME NEW n, NEW fl, FlashInv(fl, n), NEW r \in Regions, NEW s \in Sectors
    PROVE  /\ fl[r][s] \in Sector
           /\ fl[r][s].conv \in Convs \cup {NoConv} /\ fl[r][s].gen \in Gens
           /\ fl[r][s].slots \in Seq(Slot) /\ Len(fl[r][s].slots) \in Nat
           /\ Len(fl[r][s].slots) <= Slots
           /\ Claimed(fl, r, s) => /\ fl[r][s].conv \in Convs
                                   /\ \A i \in 1..Len(fl[r][s].slots) :
                                         fl[r][s].slots[i] \in Adds(fl[r][s].conv)
           /\ UniqueIn(fl[r][s].slots)
           /\ \A i \in 1..Len(fl[r][s].slots) : fl[r][s].slots[i].msg <= n
<1>1. SectorOK(fl[r][s], n)
  BY Zenon DEF FlashInv
<1>2. fl[r][s] \in Sector
  BY <1>1, Zenon DEF SectorOK
<1>3. /\ fl[r][s].conv \in Convs \cup {NoConv} /\ fl[r][s].gen \in Gens
      /\ fl[r][s].slots \in Seq(Slot) /\ Len(fl[r][s].slots) \in Nat
  BY <1>2, SectorFields, SeqLen, Zenon
<1> QED
  BY <1>1, <1>2, <1>3, Zenon DEF SectorOK, Claimed

-----------------------------------------------------------------------------
(***************************************************************************)
(* One command, completed or cut short, keeps the flash and the directory  *)
(* sound if it is one of these.                                            *)
(***************************************************************************)
\* An entry for a sector with room, where its message is not yet.
WriteOK(fl, n, r, s, e) ==
    /\ e \in Slot /\ e.msg <= n
    /\ Len(fl[r][s].slots) < Slots
    /\ Claimed(fl, r, s) => e \in Adds(fl[r][s].conv)
    /\ e.msg > NumLegacy => \A i \in 1..Len(fl[r][s].slots) : fl[r][s].slots[i].msg # e.msg

\* A header for an unclaimed sector with entries of its conversation, which
\* no other region has.
HeaderOK(fl, r, s, c, g) ==
    /\ c \in Convs /\ g \in Gens
    /\ fl[r][s].conv = NoConv
    /\ \A i \in 1..Len(fl[r][s].slots) : fl[r][s].slots[i] \in Adds(c)
    /\ Claimed(fl, r, 1 - s) =>
          /\ fl[r][1 - s].conv = c
          /\ g = (fl[r][1 - s].gen + 1) % GenMod
    /\ \A q \in Regions, t \in Sectors : q # r => fl[q][t].conv # c

HeadOK(fl, n, cmd) ==
    \E r \in Regions, s \in Sectors :
        \/ cmd = Erase(r, s)
        \/ \E e \in Slot : cmd = Write(r, s, e) /\ WriteOK(fl, n, r, s, e)
        \/ \E c \in Convs, g \in Gens : cmd = Header(r, s, c, g) /\ HeaderOK(fl, r, s, c, g)

\* Sectors that stay as they are or lose their claim keep the directory sound.
LEMMA DirKeeps ==
    ASSUME NEW fl, NEW fm, DirInv(fl),
           \A q \in Regions, t \in Sectors :
              fm[q][t].conv = NoConv
                 \/ (fm[q][t].conv = fl[q][t].conv /\ fm[q][t].gen = fl[q][t].gen)
    PROVE  DirInv(fm)
<1>1. \A t \in Sectors : 1 - t \in Sectors
  BY SectorPair
<1>2. PairInv(fm)
  BY <1>1 DEF DirInv, PairInv, Claimed
<1>3. OwnInv(fm)
  BY DEF DirInv, OwnInv, Claimed
<1> QED
  BY <1>2, <1>3 DEF DirInv

LEMMA FlashPut ==
    ASSUME NEW n, NEW fl, FlashInv(fl, n), NEW r \in Regions, NEW s \in Sectors,
           NEW x, SectorOK(x, n)
    PROVE  FlashInv(Put(fl, r, s, x), n)
<1>1. x \in Sector /\ fl \in [Regions -> [Sectors -> Sector]]
  BY Zenon DEF SectorOK, FlashInv
<1>2. /\ Put(fl, r, s, x) \in [Regions -> [Sectors -> Sector]] /\ Put(fl, r, s, x)[r][s] = x
      /\ \A q \in Regions, t \in Sectors :
            (q # r \/ t # s) => Put(fl, r, s, x)[q][t] = fl[q][t]
  BY <1>1, PutFacts
<1> QED
  BY <1>2, Zenon DEF FlashInv

LEMMA SlotWritten ==
    ASSUME NEW n \in Nat, NEW sec, SectorOK(sec, n), Len(sec.slots) < Slots,
           NEW e \in Slot, e.msg <= n, sec.conv # NoConv => e \in Adds(sec.conv),
           e.msg > NumLegacy => \A i \in 1..Len(sec.slots) : sec.slots[i].msg # e.msg,
           NEW x, x = [sec EXCEPT !.slots = Append(@, e)]
    PROVE  /\ SectorOK(x, n) /\ x.conv = sec.conv /\ x.gen = sec.gen
           /\ x.slots = Append(sec.slots, e) /\ Len(x.slots) = Len(sec.slots) + 1
           /\ x.slots[Len(x.slots)] = e
           /\ \A i \in 1..Len(sec.slots) : x.slots[i] = sec.slots[i]
<1> DEFINE l == sec.slots
           k == Append(l, e)
<1>1. /\ sec \in Sector /\ l \in Seq(Slot) /\ Len(l) \in Nat
      /\ sec.conv # NoConv => \A i \in 1..Len(l) : l[i] \in Adds(sec.conv)
      /\ UniqueIn(l) /\ \A i \in 1..Len(l) : l[i].msg <= n /\ l[i] \in Slot
  BY SectorFields, SeqLen DEF SectorOK
<1>2. x = [sec EXCEPT !.slots = k]
  OBVIOUS
<1>3. /\ k \in Seq(Slot) /\ Len(k) = Len(l) + 1 /\ k[Len(l) + 1] = e
      /\ \A i \in 1..Len(l) : k[i] = l[i]
  BY <1>1, AppendFacts
<1> HIDE DEF k
<1>4. x \in Sector /\ x.conv = sec.conv /\ x.gen = sec.gen /\ x.slots = k
  BY <1>1, <1>2, <1>3, WithSlots
<1>5. UniqueIn(k)
  <2> SUFFICES ASSUME NEW i \in 1..Len(k), NEW j \in 1..Len(k), i # j,
                      k[i].msg = k[j].msg, k[i].msg > NumLegacy
               PROVE  FALSE
    BY Zenon DEF UniqueIn
  <2>1. CASE i <= Len(l) /\ j <= Len(l)
    BY <1>1, <1>3, <2>1 DEF UniqueIn
  <2>2. CASE i = Len(l) + 1 /\ j <= Len(l)
    BY <1>1, <1>3, <2>2
  <2>3. CASE j = Len(l) + 1 /\ i <= Len(l)
    BY <1>1, <1>3, <2>3
  <2> QED
    BY <1>1, <1>3, <2>1, <2>2, <2>3
<1>6. Len(k) <= Slots
  BY <1>1, <1>3, Constants
<1>7. \A i \in 1..Len(k) : k[i].msg <= n /\ (sec.conv # NoConv => k[i] \in Adds(sec.conv))
  BY <1>1, <1>3
<1>8. SectorOK(x, n)
  BY <1>4, <1>5, <1>6, <1>7, Zenon DEF SectorOK
<1> QED
  BY <1>1, <1>3, <1>4, <1>8 DEF k

\* What a command makes of its sector, and that it keeps the rest sound.
LEMMA Touch ==
    ASSUME NEW n \in Nat, NEW fl, FlashInv(fl, n), DirInv(fl), NEW cmd, HeadOK(fl, n, cmd),
           NEW x \in Partial(fl[cmd.r][cmd.s], cmd)
    PROVE  /\ FlashInv(Put(fl, cmd.r, cmd.s, x), n)
           /\ DirInv(Put(fl, cmd.r, cmd.s, x))
           /\ cmd.r \in Regions /\ cmd.s \in Sectors /\ x \in Sector
<1>1. PICK r \in Regions, s \in Sectors :
        \/ cmd = Erase(r, s)
        \/ \E e \in Slot : cmd = Write(r, s, e) /\ WriteOK(fl, n, r, s, e)
        \/ \E c \in Convs, g \in Gens : cmd = Header(r, s, c, g) /\ HeaderOK(fl, r, s, c, g)
  BY Zenon DEF HeadOK
<1> DEFINE sec == fl[r][s]
           fm == Put(fl, r, s, x)
<1>2. cmd.r = r /\ cmd.s = s
  <2>1. CASE cmd = Erase(r, s)
    BY <2>1, EraseFacts
  <2>2. ASSUME NEW e, cmd = Write(r, s, e) PROVE cmd.r = r /\ cmd.s = s
    BY <2>2, WriteFacts
  <2>3. ASSUME NEW c, NEW g, cmd = Header(r, s, c, g) PROVE cmd.r = r /\ cmd.s = s
    BY <2>3, HeaderFacts
  <2> QED
    BY <1>1, <2>1, <2>2, <2>3
<1>3. SectorOK(sec, n) /\ fl \in [Regions -> [Sectors -> Sector]] /\ x \in Partial(sec, cmd)
  BY <1>2, Zenon DEF FlashInv
<1>4. SUFFICES SectorOK(x, n) /\ DirInv(fm)
  <2>1. x \in Sector
    BY <1>4, Zenon DEF SectorOK
  <2>2. FlashInv(fm, n)
    BY <1>4, FlashPut
  <2> QED
    BY <1>2, <1>4, <2>1, <2>2
<1>5. ASSUME x \in Sector
      PROVE  fm[r][s] = x /\ \A q \in Regions, t \in Sectors : (q # r \/ t # s) => fm[q][t] = fl[q][t]
  BY <1>3, <1>5, PutFacts
<1> HIDE DEF fm
<1>6. ASSUME SectorOK(x, n), x.conv = NoConv \/ (x.conv = sec.conv /\ x.gen = sec.gen)
      PROVE  DirInv(fm)
  <2>1. x \in Sector
    BY <1>6, Zenon DEF SectorOK
  <2>2. \A q \in Regions, t \in Sectors :
           fm[q][t].conv = NoConv
                 \/ (fm[q][t].conv = fl[q][t].conv /\ fm[q][t].gen = fl[q][t].gen)
    BY <1>5, <1>6, <2>1, Zenon
  <2> QED
    BY <2>2, DirKeeps, Zenon
<1>7. CASE cmd = Erase(r, s)
  <2>1. x \in {sec, Junk, Erased}
    BY <1>3, <1>7, EraseFacts
  <2>2. SectorOK(x, n) /\ (x.conv = NoConv \/ x = sec)
    BY <1>3, <2>1, ErasedFacts, Zenon
  <2> QED
    BY <1>6, <2>2, Zenon
<1>8. ASSUME NEW e \in Slot, cmd = Write(r, s, e), WriteOK(fl, n, r, s, e)
      PROVE  SectorOK(x, n) /\ DirInv(fm)
  <2>1. x = sec \/ \E y \in {e, Torn, Garbage} : x = [sec EXCEPT !.slots = Append(@, y)]
    BY <1>3, <1>8, WriteFacts
  <2>2. CASE x = sec
    BY <1>3, <1>6, <2>2, Zenon
  <2>3. ASSUME NEW y \in {e, Torn, Garbage}, x = [sec EXCEPT !.slots = Append(@, y)]
        PROVE  SectorOK(x, n) /\ x.conv = sec.conv /\ x.gen = sec.gen
    <3>1. sec.conv # NoConv => sec.conv \in Convs
      BY FlashFacts, Zenon DEF Claimed
    <3>2. y \in Slot /\ y.msg <= n /\ (sec.conv # NoConv => y \in Adds(sec.conv))
      <4>1. CASE y = e
        BY <1>8, <4>1 DEF WriteOK, Claimed
      <4>2. CASE y = Torn
        BY <3>1, <4>2, SlotFacts
      <4>3. CASE y = Garbage
        BY <3>1, <4>3, SlotFacts
      <4> QED
        BY <2>3, <4>1, <4>2, <4>3
    <3>3. y.msg > NumLegacy => \A i \in 1..Len(sec.slots) : sec.slots[i].msg # y.msg
      <4>1. CASE y = e
        BY <1>8, <4>1 DEF WriteOK
      <4>2. CASE y # e
        <5>1. y.msg = 0
          BY <2>3, <4>2, SlotFacts
        <5> QED
          BY <5>1, Constants
      <4> QED
        BY <4>1, <4>2
    <3>4. Len(sec.slots) < Slots
      BY <1>8 DEF WriteOK
    <3> HIDE DEF sec
    <3> QED
      BY <1>3, <2>3, <3>2, <3>3, <3>4, SlotWritten
  <2> QED
    BY <1>6, <2>1, <2>2, <2>3, Zenon
<1>9. ASSUME NEW c \in Convs, NEW g \in Gens, cmd = Header(r, s, c, g), HeaderOK(fl, r, s, c, g)
      PROVE  SectorOK(x, n) /\ DirInv(fm)
  <2>1. x = sec \/ x = Headed(sec, c, g)
    BY <1>3, <1>9, HeaderFacts
  <2>2. CASE x = sec
    BY <1>3, <1>6, <2>2, Zenon
  <2>3. CASE x = Headed(sec, c, g)
    <3>1. x \in Sector /\ x.conv = c /\ x.gen = g /\ x.slots = sec.slots
      <4> HIDE DEF sec
      <4>1. sec \in Sector
        BY <1>3, Zenon DEF SectorOK
      <4> QED
        BY <2>3, <4>1, WithHeader
    <3>2. SectorOK(x, n)
      BY <1>3, <1>9, <3>1 DEF SectorOK, HeaderOK
    <3>3. fm[r][s] = x /\ \A q \in Regions, t \in Sectors : (q # r \/ t # s) => fm[q][t] = fl[q][t]
      BY <1>5, <3>1
    <3>4. PairInv(fm)
      <4> SUFFICES ASSUME NEW q \in Regions, NEW t \in Sectors, Claimed(fm, q, t), Claimed(fm, q, 1 - t)
                   PROVE  /\ fm[q][t].conv = fm[q][1 - t].conv
                          /\ \/ fm[q][t].gen = (fm[q][1 - t].gen + 1) % GenMod
                             \/ fm[q][1 - t].gen = (fm[q][t].gen + 1) % GenMod
        BY Zenon DEF PairInv
      <4>1. 1 - t \in Sectors /\ 1 - t # t /\ 1 - (1 - t) = t
        BY SectorPair
      <4>2. CASE q # r
        BY <3>3, <4>1, <4>2 DEF DirInv, PairInv, Claimed
      <4>3. CASE q = r /\ t = s
        BY <1>9, <3>1, <3>3, <4>1, <4>3 DEF HeaderOK, Claimed
      <4>4. CASE q = r /\ 1 - t = s
        BY <1>9, <3>1, <3>3, <4>1, <4>4 DEF HeaderOK, Claimed
      <4> QED
        BY <4>1, <4>2, <4>3, <4>4, SectorPair
    <3>5. OwnInv(fm)
      BY <1>9, <3>1, <3>3 DEF HeaderOK, OwnInv, DirInv, Claimed
    <3> QED
      BY <3>2, <3>4, <3>5 DEF DirInv
  <2> QED
    BY <2>1, <2>2, <2>3
<1> QED
  BY <1>1, <1>7, <1>8, <1>9

-----------------------------------------------------------------------------
(***************************************************************************)
(* The active sector of a region.                                          *)
(***************************************************************************)
LEMMA ActiveFacts ==
    ASSUME NEW fl, NEW r
    PROVE  /\ \A s \in Active(fl, r) :
                 s \in Sectors /\ Claimed(fl, r, s) /\ Active(fl, r) = {s} /\ ActiveOf(fl, r) = s
           /\ \A s \in Sectors : Claimed(fl, r, s) => Active(fl, r) # {}
           /\ \A s \in Sectors : Claimed(fl, r, s) /\ ~Claimed(fl, r, 1 - s) => Active(fl, r) = {s}
<1> DEFINE newer == IsNewer(fl[r][1].gen, fl[r][0].gen)
<1>1. newer \in BOOLEAN
  BY DEF IsNewer
<1>2. Active(fl, r) = {s \in Sectors : /\ Claimed(fl, r, s)
                                       /\ Claimed(fl, r, 1 - s) => (s = 1 <=> newer)}
  BY Zenon DEF Active
<1> HIDE DEF newer
<1>3. \A s \in Active(fl, r) : s \in Sectors /\ Claimed(fl, r, s) /\ Active(fl, r) = {s}
  BY <1>1, <1>2 DEF Sectors
<1>4. \A s \in Active(fl, r) : ActiveOf(fl, r) = s
  BY <1>3 DEF ActiveOf
<1>5. ASSUME NEW s \in Sectors, Claimed(fl, r, s) PROVE Active(fl, r) # {}
  <2>1. CASE ~Claimed(fl, r, 1 - s)
    BY <1>2, <1>5, <2>1
  <2>2. CASE Claimed(fl, r, 1 - s)
    <3>1. Claimed(fl, r, 0) /\ Claimed(fl, r, 1)
      BY <1>5, <2>2 DEF Sectors
    <3>2. (newer => 1 \in Active(fl, r)) /\ (~newer => 0 \in Active(fl, r))
      BY <1>2, <3>1 DEF Sectors
    <3> QED
      BY <3>2
  <2> QED
    BY <2>1, <2>2
<1>6. ASSUME NEW s \in Sectors, Claimed(fl, r, s), ~Claimed(fl, r, 1 - s)
      PROVE  Active(fl, r) = {s}
  <2>1. s \in Active(fl, r)
    BY <1>2, <1>6
  <2> QED
    BY <1>3, <2>1
<1> QED
  BY <1>3, <1>4, <1>5, <1>6

\* When both sectors are claimed, the one of the next generation counts.
LEMMA ActiveNext ==
    ASSUME NEW fl, NEW r, NEW s \in Sectors, Claimed(fl, r, s), Claimed(fl, r, 1 - s),
           fl[r][s].gen \in Gens, fl[r][1 - s].gen = (fl[r][s].gen + 1) % GenMod
    PROVE  Active(fl, r) = {1 - s}
<1>1. /\ IsNewer(fl[r][1 - s].gen, fl[r][s].gen)
      /\ ~IsNewer(fl[r][s].gen, fl[r][1 - s].gen)
  BY NewerFact
<1>2. 1 - s \in Active(fl, r)
  <2>1. CASE s = 0
    BY <1>1, <2>1 DEF Active, Sectors
  <2>2. CASE s = 1
    BY <1>1, <2>2 DEF Active, Sectors
  <2> QED
    BY <2>1, <2>2 DEF Sectors
<1> QED
  BY <1>2, ActiveFacts

\* Which sector counts is read from the two headers.
LEMMA ActiveSame ==
    ASSUME NEW fl, NEW fm, NEW r,
           \A t \in Sectors : fm[r][t].conv = fl[r][t].conv /\ fm[r][t].gen = fl[r][t].gen
    PROVE  Active(fm, r) = Active(fl, r)
<1>1. \A t \in Sectors : 1 - t \in Sectors
  BY SectorPair
<1>2. 0 \in Sectors /\ 1 \in Sectors
  BY DEF Sectors
<1> QED
  BY <1>1, <1>2, Zenon DEF Active, Claimed

-----------------------------------------------------------------------------
(***************************************************************************)
(* The lists a rewrite copies.                                             *)
(***************************************************************************)
LEMMA MaxFacts ==
    ASSUME NEW N \in Nat, NEW S \in SUBSET (1..N), S # {}
    PROVE  Max(S) \in S /\ \A y \in S : Max(S) >= y
<1> DEFINE D == {d \in 0..N : N - d \in S}
<1>1. D \in SUBSET Nat
  OBVIOUS
<1>2. D # {}
  <2>1. PICK y \in S : TRUE
    OBVIOUS
  <2>2. N - y \in 0..N /\ N - (N - y) = y
    OBVIOUS
  <2> QED
    BY <2>2
<1>3. PICK d \in D : \A x \in D : d <= x
  <2> HIDE DEF D
  <2> QED
    BY <1>1, <1>2, LeastExists
<1>4. \A y \in S : N - d >= y
  <2> SUFFICES ASSUME NEW y \in S PROVE N - d >= y
    OBVIOUS
  <2>1. N - y \in D
    <3>1. N - y \in 0..N /\ N - (N - y) = y
      OBVIOUS
    <3> QED
      BY <3>1
  <2>2. d <= N - y /\ d \in 0..N
    BY <1>3, <2>1
  <2> QED
    BY <2>2
<1>5. \E x \in S : \A y \in S : x >= y
  BY <1>4
<1> QED
  BY <1>5 DEF Max

\* Setting an ack bit changes one entry of the list, and not its message.
LEMMA MarkedFacts ==
    ASSUME NEW l \in Seq(Slot), NEW k, k = Log!Marked(l)
    PROVE  /\ k \in Seq(Slot) /\ Len(k) = Len(l)
           /\ \A i \in 1..Len(l) : k[i].msg = l[i].msg
           /\ \A c \in Convs : \A i \in 1..Len(l) : l[i] \in Adds(c) => k[i] \in Adds(c)
<1> DEFINE U == Log!Unacked(l)
           m == Max(U)
<1>1. Len(l) \in Nat /\ \A i \in 1..Len(l) : l[i] \in Slot
  BY SeqLen
<1>2. U = {i \in 1..Len(l) : l[i].ours /\ ~l[i].acked}
  BY Zenon DEF Log!Unacked
<1>3. k = IF U = {} THEN l ELSE [l EXCEPT ![m].acked = TRUE]
  BY Zenon DEF Log!Marked, Log!Max, Max
<1> HIDE DEF U
<1>4. CASE U = {}
  BY <1>3, <1>4
<1>5. CASE U # {}
  <2>1. m \in U
    <3>1. U \in SUBSET (1..Len(l))
      BY <1>2
    <3> QED
      BY <1>1, <1>5, <3>1, MaxFacts
  <2>2. m \in 1..Len(l) /\ l[m].ours /\ ~l[m].acked
    BY <1>2, <2>1
  <2> HIDE DEF m
  <2> DEFINE e == [l[m] EXCEPT !.acked = TRUE]
  <2>3. l[m] \in Entries
    <3>1. l[m] \in Entries \/ l[m] = Torn \/ l[m] = Garbage
      BY <1>1, <2>2 DEF Slot
    <3>2. Torn.ours = FALSE /\ Garbage.acked = TRUE
      BY DEF Torn, Garbage
    <3> QED
      BY <2>2, <3>1, <3>2
  <2>4. e \in Entries /\ e.msg = l[m].msg /\ e.conv = l[m].conv
    BY <2>3 DEF Entries
  <2>5. k = [l EXCEPT ![m] = e]
    BY <1>3, <1>5, <2>2
  <2> HIDE DEF e
  <2>6. e \in Slot
    BY <2>4, SlotFacts
  <2>7. k \in Seq(Slot) /\ Len(k) = Len(l) /\ k[m] = e /\ \A i \in 1..Len(l) : i # m => k[i] = l[i]
    BY <2>2, <2>5, <2>6
  <2>8. \A i \in 1..Len(l) : k[i].msg = l[i].msg
    BY <2>4, <2>7
  <2>9. ASSUME NEW c \in Convs, NEW i \in 1..Len(l), l[i] \in Adds(c) PROVE k[i] \in Adds(c)
    <3>1. CASE i # m
      BY <2>7, <2>9, <3>1
    <3>2. CASE i = m
      <4>1. l[m].conv = c
        <5>1. Torn.conv = NoConv /\ Garbage.conv = NoConv /\ l[m].conv # NoConv
          BY <2>3, SlotFacts, Constants DEF Torn, Garbage
        <5> QED
          BY <2>9, <3>2, <5>1, Zenon DEF Adds
      <4> QED
        BY <2>4, <2>7, <3>2, <4>1, Zenon DEF Adds
    <3> QED
      BY <3>1, <3>2
  <2> QED
    BY <2>7, <2>8, <2>9
<1> QED
  BY <1>4, <1>5

LEMMA CopiesFacts ==
    ASSUME NEW slots \in Seq(Slot), UniqueIn(slots), NEW live \in Copies(slots)
    PROVE  /\ live \in Seq(Slot) /\ Len(live) \in Nat /\ Len(live) <= Keep /\ UniqueIn(live)
           /\ \A i \in 1..Len(live) : live[i] \in Slot /\ \E j \in 1..Len(slots) : live[i].msg = slots[j].msg
           /\ \A c \in Convs : (\A j \in 1..Len(slots) : slots[j] \in Adds(c)) =>
                               (\A i \in 1..Len(live) : live[i] \in Adds(c))
<1> DEFINE l == Live(slots)
<1>1. /\ l \in Seq(Slot) /\ Len(l) \in Nat /\ Len(l) <= Keep /\ UniqueIn(l)
      /\ \A i \in 1..Len(l) : l[i] \in Slot /\ \E j \in 1..Len(slots) : l[i] = slots[j]
  BY LiveFacts, SeqLen
<1>2. live = l \/ live = Log!Marked(l)
  BY Zenon DEF Copies
<1> HIDE DEF l
<1>3. CASE live = l
  BY <1>1, <1>3
<1>4. CASE live = Log!Marked(l)
  <2>1. /\ live \in Seq(Slot) /\ Len(live) = Len(l)
        /\ \A i \in 1..Len(l) : live[i].msg = l[i].msg
        /\ \A c \in Convs : \A i \in 1..Len(l) : l[i] \in Adds(c) => live[i] \in Adds(c)
    BY <1>1, <1>4, MarkedFacts
  <2>2. UniqueIn(live)
    BY <1>1, <2>1 DEF UniqueIn
  <2>3. \A i \in 1..Len(live) : live[i] \in Slot
    BY <2>1, SeqLen
  <2> QED
    BY <1>1, <2>1, <2>2, <2>3
<1> QED
  BY <1>2, <1>3, <1>4

-----------------------------------------------------------------------------
(***************************************************************************)
(* The next command of a plan is one of the harmless ones, and once it is  *)
(* done the rest is a plan.                                                *)
(***************************************************************************)
After(fl, cmd) == Put(fl, cmd.r, cmd.s, Done(fl[cmd.r][cmd.s], cmd))

PlanStep(fl, n, td) == HeadOK(fl, n, td[1]) /\ Plan(After(fl, td[1]), n, Tail(td))

\* Only sector s of region r changes, and to messages that were in flash before.
NoNews(fl, fm, r, s) ==
    /\ \A q \in Regions, t \in Sectors : (q # r \/ t # s) => fm[q][t] = fl[q][t]
    /\ \A i \in 1..Len(fm[r][s].slots) :
          \E q \in Regions, t \in Sectors : \E j \in 1..Len(fl[q][t].slots) :
             fm[r][s].slots[i].msg = fl[q][t].slots[j].msg

\* An entry on its way stays so if the change brings no message into flash.
LEMMA PendingKeeps ==
    ASSUME NEW n, NEW fl, NEW fm, NEW r \in Regions, NEW s \in Sectors,
           NoNews(fl, fm, r, s)
    PROVE  /\ Pending(fl, n) \subseteq Pending(fm, n)
           /\ \A c : Extras(fl, n, c) \subseteq Extras(fm, n, c)
<1>1. Pending(fl, n) \subseteq Pending(fm, n)
  <2> SUFFICES ASSUME NEW e \in Pending(fl, n), e.msg > NumLegacy,
                      NEW q \in Regions, NEW t \in Sectors, NEW i \in 1..Len(fm[q][t].slots)
               PROVE  fm[q][t].slots[i].msg # e.msg
    BY Zenon DEF Pending
  <2>1. \A p \in Regions, u \in Sectors : \A j \in 1..Len(fl[p][u].slots) : fl[p][u].slots[j].msg # e.msg
    BY Zenon DEF Pending
  <2>2. CASE q = r /\ t = s
    BY <2>1, <2>2 DEF NoNews
  <2>3. CASE q # r \/ t # s
    <3>1. fm[q][t] = fl[q][t]
      BY <2>3 DEF NoNews
    <3> QED
      BY <2>1, <3>1
  <2> QED
    BY <2>2, <2>3
<1> QED
  BY <1>1, Zenon DEF Extras

LEMMA PendingFacts ==
    ASSUME NEW n, NEW fl, NEW e \in Pending(fl, n)
    PROVE  /\ e \in Entries /\ e \in Slot /\ e.msg <= n /\ e.conv \in Convs
           /\ e \in Adds(e.conv)
           /\ e.msg > NumLegacy =>
                \A r \in Regions, s \in Sectors :
                   \A i \in 1..Len(fl[r][s].slots) : fl[r][s].slots[i].msg # e.msg
<1>1. e \in Entries
  BY Zenon DEF Pending
<1> QED
  BY <1>1, SlotFacts, Zenon DEF Pending, Adds

LEMMA ExtrasFacts ==
    ASSUME NEW n, NEW fl, NEW c, NEW extra \in Extras(fl, n, c)
    PROVE  /\ Len(extra) \in {0, 1}
           /\ Len(extra) = 1 => extra[1] \in Pending(fl, n) /\ extra[1].conv = c
<1>1. extra = <<>> \/ \E e \in Pending(fl, n) : e.conv = c /\ extra = <<e>>
  BY Zenon DEF Extras
<1> QED
  BY <1>1

LEMMA AfterFacts ==
    ASSUME NEW n, NEW fl, FlashInv(fl, n), NEW r \in Regions, NEW s \in Sectors, NEW cmd,
           cmd.r = r, cmd.s = s, Done(fl[r][s], cmd) \in Sector
    PROVE  /\ After(fl, cmd) = Put(fl, r, s, Done(fl[r][s], cmd))
           /\ After(fl, cmd)[r][s] = Done(fl[r][s], cmd)
           /\ \A q \in Regions, t \in Sectors : (q # r \/ t # s) => After(fl, cmd)[q][t] = fl[q][t]
<1>1. fl \in [Regions -> [Sectors -> Sector]]
  BY Zenon DEF FlashInv
<1>2. After(fl, cmd) = Put(fl, r, s, Done(fl[r][s], cmd))
  BY DEF After
<1> QED
  BY <1>1, <1>2, PutFacts

\* The effects of the three commands.
ErasedAt(fl, fm, n, r, s) ==
    /\ fm[r][s] = Erased
    /\ \A q \in Regions, t \in Sectors : (q # r \/ t # s) => fm[q][t] = fl[q][t]
    /\ Pending(fl, n) \subseteq Pending(fm, n)
    /\ \A c : Extras(fl, n, c) \subseteq Extras(fm, n, c)

WrittenAt(fl, fm, r, s, e) ==
    /\ fm[r][s].conv = fl[r][s].conv /\ fm[r][s].gen = fl[r][s].gen
    /\ Len(fm[r][s].slots) = Len(fl[r][s].slots) + 1
    /\ fm[r][s].slots[Len(fl[r][s].slots) + 1] = e
    /\ \A i \in 1..Len(fl[r][s].slots) : fm[r][s].slots[i] = fl[r][s].slots[i]
    /\ \A q \in Regions, t \in Sectors : (q # r \/ t # s) => fm[q][t] = fl[q][t]

HeadedAt(fl, fm, n, r, s, c, g) ==
    /\ fm[r][s].conv = c /\ fm[r][s].gen = g /\ fm[r][s].slots = fl[r][s].slots
    /\ \A q \in Regions, t \in Sectors : (q # r \/ t # s) => fm[q][t] = fl[q][t]
    /\ Pending(fl, n) \subseteq Pending(fm, n)
    /\ \A d : Extras(fl, n, d) \subseteq Extras(fm, n, d)

LEMMA AfterErase ==
    ASSUME NEW n \in Nat, NEW fl, FlashInv(fl, n), NEW r \in Regions, NEW s \in Sectors,
           NEW cmd, cmd = Erase(r, s)
    PROVE  /\ HeadOK(fl, n, cmd)
           /\ ErasedAt(fl, After(fl, cmd), n, r, s)
<1>1. HeadOK(fl, n, cmd)
  BY Zenon DEF HeadOK
<1>2. cmd.r = r /\ cmd.s = s /\ Done(fl[r][s], cmd) = Erased /\ Erased \in Sector /\ Erased.slots = <<>>
  BY EraseFacts, ErasedFacts
<1> DEFINE fm == After(fl, cmd)
<1>3. /\ fm[r][s] = Erased
      /\ \A q \in Regions, t \in Sectors : (q # r \/ t # s) => fm[q][t] = fl[q][t]
  BY <1>2, AfterFacts
<1> HIDE DEF fm
<1>4. NoNews(fl, fm, r, s)
  <2>1. Len(fm[r][s].slots) = 0
    BY <1>2, <1>3
  <2> QED
    BY <1>3, <2>1 DEF NoNews
<1>5. /\ Pending(fl, n) \subseteq Pending(fm, n)
      /\ \A c : Extras(fl, n, c) \subseteq Extras(fm, n, c)
  BY <1>4, PendingKeeps
<1> QED
  BY <1>1, <1>3, <1>5 DEF fm, ErasedAt

LEMMA AfterWrite ==
    ASSUME NEW n \in Nat, NEW fl, FlashInv(fl, n), NEW r \in Regions, NEW s \in Sectors,
           NEW e \in Slot, WriteOK(fl, n, r, s, e), NEW cmd, cmd = Write(r, s, e)
    PROVE  /\ HeadOK(fl, n, cmd)
           /\ WrittenAt(fl, After(fl, cmd), r, s, e)
<1> DEFINE sec == fl[r][s]
           x == Done(fl[r][s], cmd)
<1>1. HeadOK(fl, n, cmd)
  BY Zenon DEF HeadOK
<1>2. cmd.r = r /\ cmd.s = s /\ x = [sec EXCEPT !.slots = Append(@, e)]
  BY WriteFacts
<1>3. SectorOK(sec, n)
  BY Zenon DEF FlashInv
<1>4. /\ SectorOK(x, n) /\ x.conv = sec.conv /\ x.gen = sec.gen
      /\ Len(x.slots) = Len(sec.slots) + 1 /\ x.slots[Len(x.slots)] = e
      /\ \A i \in 1..Len(sec.slots) : x.slots[i] = sec.slots[i]
  <2>1. /\ Len(sec.slots) < Slots /\ e.msg <= n /\ (sec.conv # NoConv => e \in Adds(sec.conv))
        /\ e.msg > NumLegacy => \A i \in 1..Len(sec.slots) : sec.slots[i].msg # e.msg
    BY Zenon DEF WriteOK, Claimed
  <2> HIDE DEF x, sec
  <2> QED
    BY <1>2, <1>3, <2>1, SlotWritten
<1>5. x \in Sector
  BY <1>4, Zenon DEF SectorOK
<1>6. After(fl, cmd)[r][s] = x
      /\ \A q \in Regions, t \in Sectors : (q # r \/ t # s) => After(fl, cmd)[q][t] = fl[q][t]
  BY <1>2, <1>5, AfterFacts
<1> HIDE DEF x
<1> QED
  BY <1>1, <1>4, <1>6 DEF WrittenAt

LEMMA AfterHeader ==
    ASSUME NEW n \in Nat, NEW fl, FlashInv(fl, n), NEW r \in Regions, NEW s \in Sectors,
           NEW c \in Convs, NEW g \in Gens, HeaderOK(fl, r, s, c, g),
           NEW cmd, cmd = Header(r, s, c, g)
    PROVE  /\ HeadOK(fl, n, cmd)
           /\ HeadedAt(fl, After(fl, cmd), n, r, s, c, g)
<1> DEFINE sec == fl[r][s]
           x == Done(fl[r][s], cmd)
           fm == After(fl, cmd)
<1>1. HeadOK(fl, n, cmd)
  BY Zenon DEF HeadOK
<1>2. cmd.r = r /\ cmd.s = s /\ x = Headed(sec, c, g)
  BY HeaderFacts
<1>3. sec \in Sector
  BY FlashFacts
<1>4. x \in Sector /\ x.conv = c /\ x.gen = g /\ x.slots = sec.slots
  <2> HIDE DEF x, sec
  <2> QED
    BY <1>2, <1>3, WithHeader
<1>5. fm[r][s] = x /\ \A q \in Regions, t \in Sectors : (q # r \/ t # s) => fm[q][t] = fl[q][t]
  BY <1>2, <1>4, AfterFacts
<1> HIDE DEF x, fm
<1>6. /\ Pending(fl, n) \subseteq Pending(fm, n)
      /\ \A d : Extras(fl, n, d) \subseteq Extras(fm, n, d)
  <2>1. NoNews(fl, fm, r, s)
    BY <1>4, <1>5 DEF NoNews
  <2> QED
    BY <2>1, PendingKeeps
<1> QED
  BY <1>1, <1>4, <1>5, <1>6 DEF fm, HeadedAt

LEMMA WriteStep ==
    ASSUME NEW n \in Nat, NEW fl, FlashInv(fl, n), DirInv(fl), NEW td,
           NEW r \in Regions, NEW s \in Sectors, NEW e \in Pending(fl, n),
           WritePlan(fl, td, r, s, e)
    PROVE  PlanStep(fl, n, td) /\ WriteOK(fl, n, r, s, e)
<1>1. /\ td = <<Write(r, s, e)>> /\ fl[r][s].conv = e.conv
      /\ Len(fl[r][s].slots) < Slots
  BY Zenon DEF WritePlan
<1>2. td[1] = Write(r, s, e) /\ Tail(td) = <<>>
  BY <1>1
<1>3. WriteOK(fl, n, r, s, e)
  BY <1>1, PendingFacts, Zenon DEF WriteOK
<1>4. HeadOK(fl, n, td[1])
  BY <1>2, <1>3, PendingFacts, AfterWrite
<1> QED
  BY <1>2, <1>3, <1>4, Zenon DEF PlanStep, Plan

LEMMA ClaimStep ==
    ASSUME NEW n \in Nat, NEW fl, FlashInv(fl, n), DirInv(fl), NEW td,
           NEW r \in Regions, NEW e \in Pending(fl, n), ClaimPlan(fl, td, r, e)
    PROVE  PlanStep(fl, n, td)
<1> DEFINE c == e.conv
           fm == After(fl, td[1])
<1>1. /\ \A q \in Regions, t \in Sectors : fl[q][t].conv # c
      /\ fl[r][0].conv = NoConv /\ fl[r][1].conv = NoConv
  BY Zenon DEF ClaimPlan
<1>2. 0 \in Sectors /\ 1 \in Sectors /\ 0 # 1
  BY DEF Sectors
<1>3. c \in Convs /\ c # NoConv /\ e \in Entries
  BY PendingFacts, Constants
<1>4. Erased.conv = NoConv /\ Erased.slots = <<>>
  BY ErasedFacts
<1>5. CASE td = <<Erase(r, 0), Erase(r, 1), Header(r, 0, c, 0), Write(r, 0, e)>>
  <2>1. td[1] = Erase(r, 0) /\ Tail(td) = <<Erase(r, 1), Header(r, 0, c, 0), Write(r, 0, e)>>
    BY <1>5
  <2>2. /\ HeadOK(fl, n, td[1]) /\ fm[r][0] = Erased
        /\ \A q \in Regions, t \in Sectors : (q # r \/ t # 0) => fm[q][t] = fl[q][t]
        /\ Pending(fl, n) \subseteq Pending(fm, n)
    <3>1. HeadOK(fl, n, td[1]) /\ ErasedAt(fl, fm, n, r, 0)
      BY <1>2, <2>1, AfterErase
    <3> QED
      BY <3>1, Zenon DEF ErasedAt
  <2> HIDE DEF fm
  <2>3. ClaimPlan(fm, Tail(td), r, e)
    BY <1>1, <1>2, <1>3, <1>4, <2>1, <2>2, Zenon DEF ClaimPlan
  <2>4. Plan(fm, n, Tail(td))
    BY <2>2, <2>3, Zenon DEF Plan
  <2> QED
    BY <2>2, <2>4 DEF PlanStep, fm
<1>6. CASE td = <<Erase(r, 1), Header(r, 0, c, 0), Write(r, 0, e)>> /\ fl[r][0] = Erased
  <2>1. td[1] = Erase(r, 1) /\ Tail(td) = <<Header(r, 0, c, 0), Write(r, 0, e)>>
    BY <1>6
  <2>2. /\ HeadOK(fl, n, td[1]) /\ fm[r][1] = Erased
        /\ \A q \in Regions, t \in Sectors : (q # r \/ t # 1) => fm[q][t] = fl[q][t]
        /\ Pending(fl, n) \subseteq Pending(fm, n)
    <3>1. HeadOK(fl, n, td[1]) /\ ErasedAt(fl, fm, n, r, 1)
      BY <1>2, <2>1, AfterErase
    <3> QED
      BY <3>1, Zenon DEF ErasedAt
  <2> HIDE DEF fm
  <2>3. fm[r][0] = Erased
    BY <1>2, <1>6, <2>2
  <2>4. ClaimPlan(fm, Tail(td), r, e)
    BY <1>1, <1>2, <1>3, <1>4, <2>1, <2>2, <2>3, Zenon DEF ClaimPlan
  <2>5. Plan(fm, n, Tail(td))
    BY <2>2, <2>4, Zenon DEF Plan
  <2> QED
    BY <2>2, <2>5 DEF PlanStep, fm
<1>7. CASE td = <<Header(r, 0, c, 0), Write(r, 0, e)>> /\ fl[r][0] = Erased
  <2>1. td[1] = Header(r, 0, c, 0) /\ Tail(td) = <<Write(r, 0, e)>>
    BY <1>7
  <2>2. 0 \in Gens /\ 0 < Slots
    BY Constants DEF Gens
  <2>3. HeaderOK(fl, r, 0, c, 0)
    BY <1>1, <1>2, <1>3, <1>4, <1>7, <2>2 DEF HeaderOK, Claimed
  <2>4. /\ HeadOK(fl, n, td[1]) /\ fm[r][0].conv = c /\ fm[r][0].slots = fl[r][0].slots
        /\ \A q \in Regions, t \in Sectors : (q # r \/ t # 0) => fm[q][t] = fl[q][t]
        /\ Pending(fl, n) \subseteq Pending(fm, n)
    BY <1>2, <1>3, <2>1, <2>2, <2>3, AfterHeader DEF HeadedAt
  <2> HIDE DEF fm
  <2>5. Claimed(fm, r, 0) /\ ~Claimed(fm, r, 1)
    BY <1>1, <1>2, <1>3, <2>4 DEF Claimed
  <2>6. 0 \in Active(fm, r)
    BY <1>2, <2>5, ActiveFacts
  <2>7. Len(fm[r][0].slots) < Slots
    BY <1>4, <1>7, <2>2, <2>4
  <2>8. WritePlan(fm, Tail(td), r, 0, e)
    BY <2>1, <2>4, <2>6, <2>7, Zenon DEF WritePlan
  <2>9. Plan(fm, n, Tail(td))
    BY <1>2, <2>4, <2>8, Zenon DEF Plan
  <2> QED
    BY <2>4, <2>9 DEF PlanStep, fm
<1> QED
  BY <1>5, <1>6, <1>7, Zenon DEF ClaimPlan

LEMMA EraseFirstStep ==
    ASSUME NEW n \in Nat, NEW fl, FlashInv(fl, n), DirInv(fl), NEW td,
           NEW r \in Regions, NEW s \in Sectors, NEW live \in Copies(fl[r][s].slots),
           NEW extra \in Extras(fl, n, fl[r][s].conv), EraseFirstPlan(fl, td, r, s, live, extra)
    PROVE  PlanStep(fl, n, td)
<1> DEFINE fm == After(fl, td[1])
           u == 1 - s
<1>1. /\ s \in Active(fl, r) /\ td[1] = Erase(r, u)
      /\ Copying(Tail(td), r, s, fl[r][s].conv, fl[r][s].gen, live, 0, extra)
  BY Zenon DEF EraseFirstPlan
<1>2. u \in Sectors /\ u # s /\ Claimed(fl, r, s)
  BY <1>1, SectorPair, ActiveFacts
<1>3. /\ HeadOK(fl, n, td[1]) /\ fm[r][u] = Erased
      /\ \A q \in Regions, t \in Sectors : (q # r \/ t # u) => fm[q][t] = fl[q][t]
      /\ \A c : Extras(fl, n, c) \subseteq Extras(fm, n, c)
  <2>1. HeadOK(fl, n, td[1]) /\ ErasedAt(fl, fm, n, r, u)
    BY <1>1, <1>2, AfterErase
  <2> QED
    BY <2>1, Zenon DEF ErasedAt
<1> HIDE DEF fm
<1>4. fm[r][s] = fl[r][s]
  BY <1>2, <1>3
<1>5. fm[r][u].conv = NoConv /\ Len(fm[r][u].slots) = 0
  <2>1. Erased.conv = NoConv /\ Erased.slots = <<>>
    BY ErasedFacts
  <2> QED
    BY <1>3, <2>1
<1>6. s \in Active(fm, r)
  BY <1>2, <1>4, <1>5, ActiveFacts DEF Claimed
<1>7. Len(live) \in Nat
  BY FlashFacts, CopiesFacts
<1>8. CopyPlan(fm, Tail(td), r, s, live, 0, extra)
  <2>1. 0 <= Len(live) /\ \A i \in 1..0 : fm[r][u].slots[i] = live[i]
    BY <1>7
  <2> QED
    BY <1>1, <1>4, <1>5, <1>6, <2>1, Zenon DEF CopyPlan
<1>9. 0 \in 0..Keep
  BY Constants
<1>10. Plan(fm, n, Tail(td))
  BY <1>3, <1>4, <1>8, <1>9, Zenon DEF Plan
<1> QED
  BY <1>3, <1>10 DEF PlanStep, fm

\* The plan of a rewrite that has copied k entries, taken apart.
LEMMA CopyPlanFacts ==
    ASSUME NEW n \in Nat, NEW fl, FlashInv(fl, n), DirInv(fl), NEW td \in Seq(Cmds),
           NEW r \in Regions, NEW s \in Sectors, NEW live \in Copies(fl[r][s].slots),
           NEW extra \in Extras(fl, n, fl[r][s].conv), NEW k \in 0..Keep,
           CopyPlan(fl, td, r, s, live, k, extra)
    PROVE  /\ s \in Active(fl, r) /\ Claimed(fl, r, s) /\ fl[r][s].conv \in Convs
           /\ fl[r][1 - s].conv = NoConv /\ ~Claimed(fl, r, 1 - s)
           /\ k <= Len(live) /\ Len(fl[r][1 - s].slots) = k
           /\ \A i \in 1..k : fl[r][1 - s].slots[i] = live[i]
           /\ live \in Seq(Slot) /\ Len(live) \in Nat /\ Len(live) <= Keep /\ UniqueIn(live)
           /\ \A i \in 1..Len(live) : /\ live[i] \in Adds(fl[r][s].conv) /\ live[i] \in Slot
                                      /\ \E j \in 1..Len(fl[r][s].slots) :
                                            live[i].msg = fl[r][s].slots[j].msg
           /\ k < Len(live) => td[1] = Write(r, 1 - s, live[k + 1])
           /\ k = Len(live) =>
                td[1] = Header(r, 1 - s, fl[r][s].conv, (fl[r][s].gen + 1) % GenMod)
           /\ Len(td) \in Nat /\ Len(td) > 0 /\ td # <<>>
<1>1. /\ s \in Active(fl, r) /\ fl[r][1 - s].conv = NoConv
      /\ k <= Len(live) /\ Len(fl[r][1 - s].slots) = k
      /\ Copying(td, r, s, fl[r][s].conv, fl[r][s].gen, live, k, extra)
      /\ \A i \in 1..k : fl[r][1 - s].slots[i] = live[i]
  BY Zenon DEF CopyPlan
<1>2. Claimed(fl, r, s) /\ ~Claimed(fl, r, 1 - s)
  BY <1>1, ActiveFacts DEF Claimed
<1>3. /\ fl[r][s].conv \in Convs /\ fl[r][s].slots \in Seq(Slot) /\ UniqueIn(fl[r][s].slots)
      /\ \A i \in 1..Len(fl[r][s].slots) : fl[r][s].slots[i] \in Adds(fl[r][s].conv)
  BY <1>2, FlashFacts
<1>4. /\ live \in Seq(Slot) /\ Len(live) \in Nat /\ Len(live) <= Keep /\ UniqueIn(live)
      /\ \A i \in 1..Len(live) : /\ live[i] \in Slot
                                 /\ \E j \in 1..Len(fl[r][s].slots) : live[i].msg = fl[r][s].slots[j].msg
      /\ \A i \in 1..Len(live) : live[i] \in Adds(fl[r][s].conv)
  BY <1>3, CopiesFacts
<1>5. Len(extra) \in {0, 1}
  BY ExtrasFacts
<1>6. /\ Len(td) = (Len(live) - k) + 2 + Len(extra)
      /\ \A i \in 1..(Len(live) - k) : td[i] = Write(r, 1 - s, live[k + i])
      /\ td[(Len(live) - k) + 1] = Header(r, 1 - s, fl[r][s].conv, (fl[r][s].gen + 1) % GenMod)
  BY <1>1, Zenon DEF Copying
<1>7. k < Len(live) => td[1] = Write(r, 1 - s, live[k + 1])
  <2>1. SUFFICES ASSUME k < Len(live) PROVE td[1] = Write(r, 1 - s, live[k + 1])
    OBVIOUS
  <2>2. 1 \in 1..(Len(live) - k)
    BY <1>4, <2>1
  <2> QED
    BY <1>6, <2>2
<1>8. k = Len(live) => td[1] = Header(r, 1 - s, fl[r][s].conv, (fl[r][s].gen + 1) % GenMod)
  <2>1. SUFFICES ASSUME k = Len(live)
                 PROVE  td[1] = Header(r, 1 - s, fl[r][s].conv, (fl[r][s].gen + 1) % GenMod)
    OBVIOUS
  <2>2. (Len(live) - k) + 1 = 1
    BY <1>4, <2>1
  <2> QED
    BY <1>6, <2>2
<1>9. Len(td) \in Nat /\ Len(td) > 0 /\ td # <<>>
  BY <1>1, <1>4, <1>5, <1>6
<1> QED
  BY <1>1, <1>2, <1>3, <1>4, <1>7, <1>8, <1>9

LEMMA CopyStep ==
    ASSUME NEW n \in Nat, NEW fl, FlashInv(fl, n), DirInv(fl), NEW td \in Seq(Cmds),
           NEW r \in Regions, NEW s \in Sectors, NEW live \in Copies(fl[r][s].slots),
           NEW extra \in Extras(fl, n, fl[r][s].conv), NEW k \in 0..Keep,
           CopyPlan(fl, td, r, s, live, k, extra), k < Len(live)
    PROVE  PlanStep(fl, n, td)
<1> DEFINE fm == After(fl, td[1])
           u == 1 - s
           e == live[k + 1]
           m == Len(live) - k
<1>1. /\ s \in Active(fl, r) /\ Claimed(fl, r, s) /\ ~Claimed(fl, r, u)
      /\ fl[r][u].conv = NoConv /\ Len(fl[r][u].slots) = k
      /\ \A i \in 1..k : fl[r][u].slots[i] = live[i]
      /\ live \in Seq(Slot) /\ Len(live) \in Nat /\ Len(live) <= Keep /\ UniqueIn(live)
      /\ td[1] = Write(r, u, e) /\ Len(td) \in Nat /\ td # <<>>
  BY CopyPlanFacts
<1>2. u \in Sectors /\ u # s
  BY SectorPair
<1>3. k + 1 \in 1..Len(live) /\ k \in Nat /\ k < Slots
  BY <1>1, Constants
<1>4. PICK j \in 1..Len(fl[r][s].slots) : e \in Slot /\ e.msg = fl[r][s].slots[j].msg
  BY <1>3, CopyPlanFacts
<1>5. e.msg <= n
  BY <1>4, FlashFacts
<1>6. WriteOK(fl, n, r, u, e)
  <2>1. e.msg > NumLegacy => \A i \in 1..k : fl[r][u].slots[i].msg # e.msg
    <3> SUFFICES ASSUME e.msg > NumLegacy, NEW i \in 1..k, fl[r][u].slots[i].msg = e.msg
                 PROVE  FALSE
      OBVIOUS
    <3>1. i \in 1..Len(live) /\ i # k + 1 /\ live[i].msg = live[k + 1].msg
      BY <1>1, <1>3
    <3> QED
      BY <1>1, <1>3, <3>1 DEF UniqueIn
  <2> QED
    BY <1>1, <1>3, <1>4, <1>5, <2>1 DEF WriteOK
<1> HIDE DEF e
<1>7. /\ HeadOK(fl, n, td[1])
      /\ fm[r][u].conv = NoConv /\ Len(fm[r][u].slots) = k + 1
      /\ fm[r][u].slots[k + 1] = e
      /\ \A i \in 1..k : fm[r][u].slots[i] = fl[r][u].slots[i]
      /\ \A q \in Regions, t \in Sectors : (q # r \/ t # u) => fm[q][t] = fl[q][t]
  <2>1. HeadOK(fl, n, td[1]) /\ WrittenAt(fl, fm, r, u, e)
    BY <1>1, <1>2, <1>4, <1>6, AfterWrite
  <2> HIDE DEF fm
  <2> QED
    BY <1>1, <2>1 DEF WrittenAt
<1> HIDE DEF fm, u
<1>8. \A i \in 1..(k + 1) : fm[r][u].slots[i] = live[i]
  BY <1>1, <1>3, <1>7 DEF e
<1>9. fm[r][s] = fl[r][s]
  BY <1>2, <1>7
<1>10. s \in Active(fm, r)
  BY <1>1, <1>7, <1>9, ActiveFacts DEF Claimed, u
<1>11. \A c : Extras(fl, n, c) \subseteq Extras(fm, n, c)
  <2>1. \A i \in 1..Len(fm[r][u].slots) :
           \E q \in Regions, t \in Sectors : \E x \in 1..Len(fl[q][t].slots) :
              fm[r][u].slots[i].msg = fl[q][t].slots[x].msg
    <3> SUFFICES ASSUME NEW i \in 1..(k + 1)
                 PROVE  \E q \in Regions, t \in Sectors : \E x \in 1..Len(fl[q][t].slots) :
                           fm[r][u].slots[i].msg = fl[q][t].slots[x].msg
      BY <1>7
    <3>1. CASE i = k + 1
      BY <1>4, <1>7, <3>1
    <3>2. CASE i # k + 1
      <4>1. i \in 1..k /\ i \in 1..Len(fl[r][u].slots)
        BY <1>1, <1>3, <3>2
      <4> QED
        BY <1>2, <1>7, <4>1
    <3> QED
      BY <3>1, <3>2
  <2>2. NoNews(fl, fm, r, u)
    BY <1>7, <2>1, Zenon DEF NoNews
  <2> QED
    BY <1>2, <2>2, PendingKeeps
<1>12. Copying(Tail(td), r, s, fl[r][s].conv, fl[r][s].gen, live, k + 1, extra)
  <2>1. /\ Len(td) = m + 2 + Len(extra)
        /\ \A i \in 1..m : td[i] = Write(r, u, live[k + i])
        /\ td[m + 1] = Header(r, u, fl[r][s].conv, (fl[r][s].gen + 1) % GenMod)
        /\ td[m + 2] = Erase(r, s)
        /\ Len(extra) = 1 => td[m + 3] = Write(r, u, extra[1])
    BY Zenon DEF CopyPlan, Copying, u
  <2>2. Len(extra) \in {0, 1} /\ m \in Nat /\ m > 0 /\ Len(live) - (k + 1) = m - 1
    BY <1>1, <1>3, ExtrasFacts
  <2>3. Len(Tail(td)) = Len(td) - 1 /\ \A i \in 1..(Len(td) - 1) : Tail(td)[i] = td[i + 1]
    BY <1>1, TailFacts
  <2> HIDE DEF m
  <2>4. Len(Tail(td)) = (m - 1) + 2 + Len(extra)
    BY <1>1, <2>1, <2>2, <2>3
  <2>5. \A i \in 1..(m - 1) : Tail(td)[i] = Write(r, u, live[(k + 1) + i])
    <3> SUFFICES ASSUME NEW i \in 1..(m - 1) PROVE Tail(td)[i] = Write(r, u, live[(k + 1) + i])
      OBVIOUS
    <3>1. i \in 1..(Len(td) - 1) /\ i + 1 \in 1..m /\ k + (i + 1) = (k + 1) + i
      <4>1. Len(td) = m + 2 + Len(extra)
        BY <2>1
      <4> QED
        BY <1>3, <2>2, <4>1
    <3> QED
      BY <2>1, <2>3, <3>1
  <2>6. Tail(td)[(m - 1) + 1] = td[m + 1] /\ Tail(td)[(m - 1) + 2] = td[m + 2]
        /\ (Len(extra) = 1 => Tail(td)[(m - 1) + 3] = td[m + 3])
    <3>1. /\ m \in 1..(Len(td) - 1) /\ m + 1 \in 1..(Len(td) - 1)
          /\ (m - 1) + 1 = m /\ (m - 1) + 2 = m + 1 /\ (m - 1) + 3 = m + 2
          /\ (m + 1) + 1 = m + 2 /\ (m + 2) + 1 = m + 3
          /\ Len(extra) = 1 => m + 2 \in 1..(Len(td) - 1)
      BY <2>1, <2>2
    <3> QED
      BY <2>3, <3>1
  <2> QED
    BY <2>1, <2>2, <2>4, <2>5, <2>6 DEF Copying, u
<1>13. CopyPlan(fm, Tail(td), r, s, live, k + 1, extra)
  <2>1. k + 1 <= Len(live)
    BY <1>3
  <2> QED
    BY <1>7, <1>8, <1>9, <1>10, <1>12, <2>1, Zenon DEF CopyPlan, u
<1>14. k + 1 \in 0..Keep
  BY <1>1, <1>3, Constants
<1>15. Plan(fm, n, Tail(td))
  BY <1>9, <1>11, <1>13, <1>14, Zenon DEF Plan
<1> QED
  BY <1>7, <1>15 DEF PlanStep, fm

LEMMA HeaderStep ==
    ASSUME NEW n \in Nat, NEW fl, FlashInv(fl, n), DirInv(fl), NEW td \in Seq(Cmds),
           NEW r \in Regions, NEW s \in Sectors, NEW live \in Copies(fl[r][s].slots),
           NEW extra \in Extras(fl, n, fl[r][s].conv), NEW k \in 0..Keep,
           CopyPlan(fl, td, r, s, live, k, extra), k = Len(live)
    PROVE  PlanStep(fl, n, td)
<1> DEFINE fm == After(fl, td[1])
           u == 1 - s
           c == fl[r][s].conv
           g == (fl[r][s].gen + 1) % GenMod
<1>1. /\ s \in Active(fl, r) /\ Claimed(fl, r, s) /\ ~Claimed(fl, r, u) /\ c \in Convs
      /\ fl[r][u].conv = NoConv /\ Len(fl[r][u].slots) = k
      /\ \A i \in 1..k : fl[r][u].slots[i] = live[i] /\ live[i] \in Adds(c)
      /\ td[1] = Header(r, u, c, g) /\ Len(td) \in Nat /\ td # <<>>
  BY CopyPlanFacts
<1>2. u \in Sectors /\ u # s /\ 1 - u = s
  BY SectorPair
<1>3. fl[r][s].gen \in Gens /\ g \in Gens
  BY FlashFacts, NewerFact
<1>4. HeaderOK(fl, r, u, c, g)
  <2>1. \A q \in Regions, t \in Sectors : q # r => fl[q][t].conv # c
    BY <1>1, Constants DEF DirInv, OwnInv, Claimed
  <2> QED
    BY <1>1, <1>2, <1>3, <2>1 DEF HeaderOK, Claimed
<1> HIDE DEF g
<1>5. /\ HeadOK(fl, n, td[1])
      /\ fm[r][u].conv = c /\ fm[r][u].gen = g /\ fm[r][u].slots = fl[r][u].slots
      /\ \A q \in Regions, t \in Sectors : (q # r \/ t # u) => fm[q][t] = fl[q][t]
      /\ \A d : Extras(fl, n, d) \subseteq Extras(fm, n, d)
  BY <1>1, <1>2, <1>3, <1>4, AfterHeader DEF HeadedAt
<1> HIDE DEF fm, u
<1>6. fm[r][s] = fl[r][s]
  BY <1>2, <1>5
<1>7. u \in Active(fm, r)
  <2>1. Claimed(fm, r, s) /\ Claimed(fm, r, u)
    BY <1>1, <1>5, <1>6, Constants DEF Claimed
  <2> QED
    BY <1>3, <1>5, <1>6, <2>1, ActiveNext DEF g, u
<1>8. HandOff(Tail(td), r, s, extra)
  <2>1. /\ Len(td) = (Len(live) - k) + 2 + Len(extra)
        /\ td[(Len(live) - k) + 2] = Erase(r, s)
        /\ Len(extra) = 1 => td[(Len(live) - k) + 3] = Write(r, u, extra[1])
    BY Zenon DEF CopyPlan, Copying, u
  <2>2. Len(extra) \in {0, 1} /\ Len(live) - k = 0
    BY <1>1, ExtrasFacts
  <2>3. Len(Tail(td)) = Len(td) - 1 /\ \A i \in 1..(Len(td) - 1) : Tail(td)[i] = td[i + 1]
    BY <1>1, TailFacts
  <2>4. Len(td) = 2 + Len(extra) /\ td[2] = Erase(r, s) /\ (Len(extra) = 1 => td[3] = Write(r, u, extra[1]))
    BY <2>1, <2>2
  <2> QED
    BY <2>2, <2>3, <2>4 DEF HandOff, u
<1>9. HandOffPlan(fm, Tail(td), r, s, extra)
  <2>1. Len(fm[r][u].slots) <= Keep
    BY <1>1, <1>5
  <2> QED
    BY <1>7, <1>8, <2>1, Zenon DEF HandOffPlan, u
<1>10. Plan(fm, n, Tail(td))
  <2>1. extra \in Extras(fm, n, fm[r][1 - s].conv)
    BY <1>5, Zenon DEF u
  <2> QED
    BY <1>9, <2>1, Zenon DEF Plan
<1> QED
  BY <1>5, <1>10 DEF PlanStep, fm

LEMMA HandOffStep ==
    ASSUME NEW n \in Nat, NEW fl, FlashInv(fl, n), DirInv(fl), NEW td \in Seq(Cmds),
           NEW r \in Regions, NEW s \in Sectors,
           NEW extra \in Extras(fl, n, fl[r][1 - s].conv), HandOffPlan(fl, td, r, s, extra)
    PROVE  PlanStep(fl, n, td)
<1> DEFINE fm == After(fl, td[1])
           u == 1 - s
<1>1. /\ u \in Active(fl, r) /\ Len(fl[r][u].slots) <= Keep
      /\ Len(td) = 1 + Len(extra) /\ td[1] = Erase(r, s)
      /\ Len(extra) = 1 => td[2] = Write(r, u, extra[1])
  BY Zenon DEF HandOffPlan, HandOff
<1>2. u \in Sectors /\ u # s /\ 1 - u = s /\ Claimed(fl, r, u)
  BY <1>1, SectorPair, ActiveFacts
<1>3. /\ HeadOK(fl, n, td[1]) /\ fm[r][s] = Erased
      /\ \A q \in Regions, t \in Sectors : (q # r \/ t # s) => fm[q][t] = fl[q][t]
      /\ Pending(fl, n) \subseteq Pending(fm, n)
  <2>1. HeadOK(fl, n, Erase(r, s)) /\ ErasedAt(fl, After(fl, Erase(r, s)), n, r, s)
    BY AfterErase
  <2>2. HeadOK(fl, n, td[1]) /\ ErasedAt(fl, fm, n, r, s)
    BY <1>1, <2>1, Zenon
  <2> QED
    BY <2>2, Zenon DEF ErasedAt
<1> HIDE DEF fm, u
<1>4. fm[r][u] = fl[r][u]
  BY <1>2, <1>3
<1>5. u \in Active(fm, r)
  <2>1. Claimed(fm, r, u) /\ ~Claimed(fm, r, s)
    BY <1>2, <1>3, <1>4, ErasedFacts DEF Claimed
  <2> QED
    BY <1>2, <2>1, ActiveFacts
<1>6. Plan(fm, n, Tail(td))
  <2>1. /\ Len(extra) \in {0, 1}
        /\ Len(extra) = 1 => extra[1] \in Pending(fl, n) /\ extra[1].conv = fl[r][u].conv
    BY ExtrasFacts DEF u
  <2>2. /\ Tail(td) \in Seq(Cmds) /\ Len(Tail(td)) = Len(extra)
        /\ Len(extra) = 1 => Tail(td)[1] = td[2]
    <3>1. td # <<>>
      BY <1>1, <2>1
    <3> QED
      BY <1>1, <2>1, <3>1, TailFacts
  <2>3. CASE Len(extra) = 0
    <3>1. Tail(td) = <<>>
      BY <1>1, <2>3, <2>2, ShortSeq
    <3> QED
      BY <3>1, Zenon DEF Plan
  <2>4. CASE Len(extra) = 1
    <3> DEFINE e == extra[1]
    <3>1. Tail(td) = <<Write(r, u, e)>>
      BY <1>1, <2>4, <2>2, ShortSeq
    <3>2. Len(fm[r][u].slots) < Slots
      <4>1. Len(fl[r][u].slots) \in Nat
        BY <1>2, FlashFacts
      <4> QED
        BY <1>1, <1>4, <4>1, Constants
    <3>3. WritePlan(fm, Tail(td), r, u, e)
      BY <1>4, <1>5, <2>1, <2>4, <3>1, <3>2, Zenon DEF WritePlan
    <3>4. e \in Pending(fm, n)
      BY <1>3, <2>1, <2>4
    <3> QED
      BY <1>2, <3>3, <3>4, Zenon DEF Plan
  <2> QED
    BY <2>1, <2>3, <2>4
<1> QED
  BY <1>3, <1>6 DEF PlanStep, fm

\* Every command of a plan may be issued, and leaves a plan behind.
LEMMA PlanGoesOn ==
    ASSUME NEW n \in Nat, NEW fl, FlashInv(fl, n), DirInv(fl), NEW td \in Seq(Cmds),
           Plan(fl, n, td), td # <<>>
    PROVE  PlanStep(fl, n, td)
<1>1. CASE \E r \in Regions, s \in Sectors, e \in Pending(fl, n) : WritePlan(fl, td, r, s, e)
  BY <1>1, WriteStep
<1>2. CASE \E r \in Regions, e \in Pending(fl, n) : ClaimPlan(fl, td, r, e)
  BY <1>2, ClaimStep
<1>3. ASSUME NEW r \in Regions, NEW s \in Sectors, NEW live \in Copies(fl[r][s].slots),
             NEW extra \in Extras(fl, n, fl[r][s].conv)
      PROVE  /\ EraseFirstPlan(fl, td, r, s, live, extra) => PlanStep(fl, n, td)
             /\ \A k \in 0..Keep : CopyPlan(fl, td, r, s, live, k, extra) => PlanStep(fl, n, td)
  <2>1. EraseFirstPlan(fl, td, r, s, live, extra) => PlanStep(fl, n, td)
    BY EraseFirstStep
  <2>2. ASSUME NEW k \in 0..Keep, CopyPlan(fl, td, r, s, live, k, extra)
        PROVE  PlanStep(fl, n, td)
    <3>1. k <= Len(live) /\ Len(live) \in Nat
      BY <2>2, CopyPlanFacts
    <3>2. CASE k < Len(live)
      BY <2>2, <3>2, CopyStep
    <3>3. CASE k = Len(live)
      BY <2>2, <3>3, HeaderStep
    <3> QED
      BY <3>1, <3>2, <3>3
  <2> QED
    BY <2>1, <2>2
<1>4. ASSUME NEW r \in Regions, NEW s \in Sectors, NEW extra \in Extras(fl, n, fl[r][1 - s].conv),
             HandOffPlan(fl, td, r, s, extra)
      PROVE  PlanStep(fl, n, td)
  BY <1>4, HandOffStep
<1> QED
  BY <1>1, <1>2, <1>3, <1>4, Zenon DEF Plan

-----------------------------------------------------------------------------
(***************************************************************************)
(* What an operation is compiled into is a plan.                           *)
(***************************************************************************)
LEMMA CmdFacts ==
    ASSUME NEW r \in Regions, NEW s \in Sectors
    PROVE  /\ Erase(r, s) \in Cmds
           /\ \A e \in Slot : Write(r, s, e) \in Cmds
           /\ \A c \in Convs, g \in Gens : Header(r, s, c, g) \in Cmds
<1>1. Erase(r, s) \in Cmds
  BY DEF Erase, Cmds
<1>2. \A e \in Slot : Write(r, s, e) \in Cmds
  BY DEF Write, Cmds
<1>3. \A c \in Convs, g \in Gens : Header(r, s, c, g) \in Cmds
  BY DEF Header, Cmds
<1> QED
  BY <1>1, <1>2, <1>3

Joined(S, x, s, t) ==
    /\ x \in Seq(S) /\ Len(x) = Len(s) + Len(t)
    /\ \A i \in 1..Len(s) : x[i] = s[i]
    /\ \A i \in 1..Len(t) : x[Len(s) + i] = t[i]

LEMMA ConcatFacts ==
    ASSUME NEW S, NEW s \in Seq(S), NEW t \in Seq(S), NEW x, x = s \o t
    PROVE  Joined(S, x, s, t)
  BY DEF Joined

LEMMA MinFacts ==
    ASSUME NEW S \in SUBSET Nat, S # {}
    PROVE  Min(S) \in S
<1>1. \E x \in S : \A y \in S : x =< y
  BY LeastExists
<1> QED
  BY <1>1 DEF Min

\* A claimed sector makes its region the one of its conversation.
LEMMA OwnRegion ==
    ASSUME NEW fl, DirInv(fl), NEW c \in Convs, NEW r \in Regions, NEW s \in Sectors,
           fl[r][s].conv = c
    PROVE  /\ ClaimedBy(fl, c) = {r} /\ Min(ClaimedBy(fl, c)) = r
           /\ \E a \in Active(fl, r) : a \in Sectors /\ fl[r][a].conv = c /\ ActiveOf(fl, r) = a
<1>1. c # NoConv /\ Claimed(fl, r, s)
  BY Constants DEF Claimed
<1>2. PICK a \in Active(fl, r) : TRUE
  BY <1>1, ActiveFacts
<1>3. a \in Sectors /\ Claimed(fl, r, a) /\ ActiveOf(fl, r) = a
  BY ActiveFacts
<1>4. fl[r][a].conv = c
  <2>1. CASE a = s
    BY <2>1
  <2>2. CASE a = 1 - s
    BY <1>1, <1>3, <2>2 DEF DirInv, PairInv
  <2> QED
    BY <1>3, <2>1, <2>2, SectorPair
<1>5. ASSUME NEW q \in Regions, NEW t \in Active(fl, q), fl[q][t].conv = c PROVE q = r
  <2>1. t \in Sectors /\ Claimed(fl, q, t)
    BY ActiveFacts
  <2> QED
    BY <1>1, <1>5, <2>1 DEF DirInv, OwnInv
<1>6. ClaimedBy(fl, c) = {r}
  BY <1>2, <1>4, <1>5, Zenon DEF ClaimedBy
<1>7. Min({r}) = r
  <2>1. r \in Nat
    BY DEF Regions
  <2> QED
    BY <2>1 DEF Min
<1> QED
  BY <1>3, <1>4, <1>6, <1>7

LEMMA OwnFacts ==
    ASSUME NEW fl, DirInv(fl), NEW c \in Convs
    PROVE  \/ /\ ClaimedBy(fl, c) = {}
              /\ \A q \in Regions, t \in Sectors : fl[q][t].conv # c
           \/ \E r \in Regions, s \in Sectors :
                 /\ ClaimedBy(fl, c) = {r} /\ Min(ClaimedBy(fl, c)) = r /\ s \in Active(fl, r)
                 /\ fl[r][s].conv = c /\ ActiveOf(fl, r) = s
<1>1. CASE \E r \in Regions, s \in Sectors : fl[r][s].conv = c
  <2>1. PICK r \in Regions, s \in Sectors : fl[r][s].conv = c
    BY <1>1
  <2> QED
    BY <2>1, OwnRegion
<1>2. CASE \A q \in Regions, t \in Sectors : fl[q][t].conv # c
  <2>1. \A q : \A t \in Active(fl, q) : t \in Sectors
    BY ActiveFacts
  <2> QED
    BY <1>2, <2>1, Zenon DEF ClaimedBy
<1> QED
  BY <1>1, <1>2

\* The commands of rewrite_region, by position.
LEMMA RewriteFacts ==
    ASSUME NEW r \in Regions, NEW s \in Sectors, ActiveOf(flash, r) = s, NEW live \in Seq(Slot),
           flash[r][s].conv \in Convs, flash[r][s].gen \in Gens
    PROVE  /\ Rewrite(r, live) \in Seq(Cmds) /\ Len(Rewrite(r, live)) = Len(live) + 3
           /\ Rewrite(r, live)[1] = Erase(r, 1 - s)
           /\ \A i \in 1..Len(live) : Rewrite(r, live)[i + 1] = Write(r, 1 - s, live[i])
           /\ Rewrite(r, live)[Len(live) + 2] =
                Header(r, 1 - s, flash[r][s].conv, (flash[r][s].gen + 1) % GenMod)
           /\ Rewrite(r, live)[Len(live) + 3] = Erase(r, s)
<1> DEFINE L == Len(live)
           h == Header(r, 1 - s, flash[r][s].conv, (flash[r][s].gen + 1) % GenMod)
           a == <<Erase(r, 1 - s)>>
           b == [i \in 1..L |-> Write(r, 1 - s, live[i])]
           d == <<h, Erase(r, s)>>
<1>1. L \in Nat /\ \A i \in 1..L : live[i] \in Slot
  BY SeqLen
<1>2. 1 - s \in Sectors /\ (flash[r][s].gen + 1) % GenMod \in Gens
  BY SectorPair, NewerFact
<1>3. /\ Erase(r, 1 - s) \in Cmds /\ Erase(r, s) \in Cmds /\ h \in Cmds
      /\ \A i \in 1..L : Write(r, 1 - s, live[i]) \in Cmds
  BY <1>1, <1>2, CmdFacts
<1>4. Rewrite(r, live) = a \o b \o d
  BY Zenon DEF Rewrite
<1>5. a \in Seq(Cmds) /\ Len(a) = 1 /\ a[1] = Erase(r, 1 - s)
  BY <1>3
<1>6. b \in Seq(Cmds) /\ Len(b) = L /\ \A i \in 1..L : b[i] = Write(r, 1 - s, live[i])
  BY <1>1, <1>3
<1>7. d \in Seq(Cmds) /\ Len(d) = 2 /\ d[1] = h /\ d[2] = Erase(r, s)
  BY <1>3
<1> HIDE DEF a, b, d, h, L
<1> DEFINE ab == a \o b
           x == ab \o d
<1>8. ab = a \o b
  OBVIOUS
<1> HIDE DEF ab
<1>9. x = ab \o d
  OBVIOUS
<1> HIDE DEF x
<1>10. /\ ab \in Seq(Cmds) /\ Len(ab) = 1 + L /\ ab[1] = a[1]
       /\ \A i \in 1..L : ab[1 + i] = b[i]
  <2>1. Joined(Cmds, ab, a, b)
    BY <1>5, <1>6, <1>8, ConcatFacts, Zenon
  <2>2. 1 \in 1..Len(a)
    BY <1>5
  <2> QED
    BY <1>5, <1>6, <2>1, <2>2 DEF Joined
<1>11. /\ x \in Seq(Cmds) /\ Len(x) = (1 + L) + 2
       /\ \A i \in 1..(1 + L) : x[i] = ab[i]
       /\ \A i \in 1..2 : x[(1 + L) + i] = d[i]
  <2>1. Joined(Cmds, x, ab, d)
    BY <1>7, <1>9, <1>10, ConcatFacts, Zenon
  <2> QED
    BY <1>7, <1>10, <2>1 DEF Joined
<1>12. Rewrite(r, live) = x
  BY <1>4 DEF x, ab
<1>13. /\ Len(x) = L + 3 /\ x[1] = Erase(r, 1 - s)
       /\ x[L + 2] = h /\ x[L + 3] = Erase(r, s)
  <2>1. 1 \in 1..(1 + L) /\ 1 \in 1..2 /\ 2 \in 1..2 /\ (1 + L) + 1 = L + 2 /\ (1 + L) + 2 = L + 3
    BY <1>1
  <2> QED
    BY <1>5, <1>7, <1>10, <1>11, <2>1
<1>14. \A i \in 1..L : x[i + 1] = Write(r, 1 - s, live[i])
  <2> SUFFICES ASSUME NEW i \in 1..L PROVE x[i + 1] = Write(r, 1 - s, live[i])
    OBVIOUS
  <2>1. i + 1 \in 1..(1 + L) /\ i + 1 = 1 + i
    BY <1>1
  <2> QED
    BY <1>6, <1>10, <1>11, <2>1
<1> QED
  BY <1>11, <1>12, <1>13, <1>14 DEF h, L

LEMMA RewritePlan ==
    ASSUME NEW n \in Nat, FlashInv(flash, n), DirInv(flash), NEW r \in Regions, NEW s \in Sectors,
           s \in Active(flash, r), NEW live \in Copies(flash[r][s].slots)
    PROVE  /\ /\ Rewrite(r, live) \in Seq(Cmds) /\ Rewrite(r, live) # <<>>
              /\ Plan(flash, n, Rewrite(r, live))
           /\ \A e \in Pending(flash, n) : e.conv = flash[r][s].conv =>
                /\ Rewrite(r, live) \o <<Write(r, 1 - s, e)>> \in Seq(Cmds)
                /\ Rewrite(r, live) \o <<Write(r, 1 - s, e)>> # <<>>
                /\ Plan(flash, n, Rewrite(r, live) \o <<Write(r, 1 - s, e)>>)
<1> DEFINE L == Len(live)
           u == 1 - s
           x == Rewrite(r, live)
           h == Header(r, u, flash[r][s].conv, (flash[r][s].gen + 1) % GenMod)
<1>1. ActiveOf(flash, r) = s /\ Claimed(flash, r, s)
  BY ActiveFacts
<1>2. /\ flash[r][s].conv \in Convs /\ flash[r][s].gen \in Gens
      /\ flash[r][s].slots \in Seq(Slot) /\ UniqueIn(flash[r][s].slots)
  BY <1>1, FlashFacts
<1>3. live \in Seq(Slot) /\ L \in Nat
  BY <1>2, CopiesFacts
<1>4. /\ x \in Seq(Cmds) /\ Len(x) = L + 3 /\ x[1] = Erase(r, u)
      /\ \A i \in 1..L : x[i + 1] = Write(r, u, live[i])
      /\ x[L + 2] = h /\ x[L + 3] = Erase(r, s)
  BY <1>1, <1>2, <1>3, RewriteFacts
<1> HIDE DEF x, L, h
<1>5. ASSUME NEW y \in Seq(Cmds), NEW extra \in Extras(flash, n, flash[r][s].conv),
             Len(y) = Len(x) + Len(extra), \A i \in 1..Len(x) : y[i] = x[i],
             Len(extra) = 1 => y[Len(x) + 1] = Write(r, u, extra[1])
      PROVE  Plan(flash, n, y) /\ y # <<>>
  <2>1. Len(extra) \in {0, 1}
    BY ExtrasFacts
  <2>2. Len(y) = L + 3 + Len(extra) /\ y # <<>>
    BY <1>3, <1>4, <1>5, <2>1
  <2>3. Len(Tail(y)) = Len(y) - 1 /\ \A i \in 1..(Len(y) - 1) : Tail(y)[i] = y[i + 1]
    BY <1>5, <2>2, TailFacts
  <2>4. \A i \in 1..L : Tail(y)[i] = Write(r, u, live[i])
    <3> SUFFICES ASSUME NEW i \in 1..L PROVE Tail(y)[i] = Write(r, u, live[i])
      OBVIOUS
    <3>1. i \in 1..(Len(y) - 1) /\ i + 1 \in 1..Len(x)
      BY <1>3, <1>4, <2>1, <2>2
    <3> QED
      BY <1>4, <1>5, <2>3, <3>1
  <2>5. Tail(y)[L + 1] = h /\ Tail(y)[L + 2] = Erase(r, s)
    <3>1. /\ L + 1 \in 1..(Len(y) - 1) /\ L + 2 \in 1..(Len(y) - 1)
          /\ L + 2 \in 1..Len(x) /\ L + 3 \in 1..Len(x)
          /\ (L + 1) + 1 = L + 2 /\ (L + 2) + 1 = L + 3
      BY <1>3, <1>4, <2>1, <2>2
    <3> QED
      BY <1>4, <1>5, <2>3, <3>1
  <2>6. Len(extra) = 1 => Tail(y)[L + 3] = Write(r, u, extra[1])
    <3>1. Len(extra) = 1 => L + 3 \in 1..(Len(y) - 1) /\ (L + 3) + 1 = Len(x) + 1
      BY <1>3, <1>4, <2>1, <2>2
    <3> QED
      BY <1>5, <2>3, <3>1
  <2>7. Copying(Tail(y), r, s, flash[r][s].conv, flash[r][s].gen, live, 0, extra)
    <3>1. Len(Tail(y)) = (L - 0) + 2 + Len(extra) /\ L - 0 = L /\ \A i \in 1..L : 0 + i = i
      BY <1>3, <2>1, <2>2, <2>3
    <3> QED
      BY <2>4, <2>5, <2>6, <3>1 DEF Copying, L, h
  <2>8. y[1] = Erase(r, u) /\ Len(y) > 0
    BY <1>3, <1>4, <1>5, <2>1, <2>2
  <2>9. EraseFirstPlan(flash, y, r, s, live, extra)
    BY <2>7, <2>8, Zenon DEF EraseFirstPlan
  <2> QED
    BY <1>5, <2>2, <2>9, Zenon DEF Plan
<1>6. Plan(flash, n, x) /\ x # <<>>
  <2>1. <<>> \in Extras(flash, n, flash[r][s].conv)
    BY Zenon DEF Extras
  <2>2. Len(<<>>) = 0 /\ Len(x) = Len(x) + 0
    BY <1>3, <1>4
  <2> QED
    BY <1>4, <1>5, <2>1, <2>2
<1>7. ASSUME NEW e \in Pending(flash, n), e.conv = flash[r][s].conv
      PROVE  /\ x \o <<Write(r, u, e)>> \in Seq(Cmds)
             /\ x \o <<Write(r, u, e)>> # <<>>
             /\ Plan(flash, n, x \o <<Write(r, u, e)>>)
  <2> DEFINE w == <<Write(r, u, e)>>
             y == x \o w
  <2>1. <<e>> \in Extras(flash, n, flash[r][s].conv) /\ Len(<<e>>) = 1 /\ <<e>>[1] = e
    BY <1>7 DEF Extras
  <2>2. Write(r, u, e) \in Cmds
    BY SectorPair, PendingFacts, CmdFacts
  <2>3. w \in Seq(Cmds) /\ Len(w) = 1 /\ w[1] = Write(r, u, e)
    BY <2>2
  <2> HIDE DEF w
  <2>4. y = x \o w
    OBVIOUS
  <2> HIDE DEF y
  <2>5. /\ y \in Seq(Cmds) /\ Len(y) = Len(x) + 1
        /\ \A i \in 1..Len(x) : y[i] = x[i]
        /\ y[Len(x) + 1] = Write(r, u, e)
    <3>1. Joined(Cmds, y, x, w)
      BY <1>4, <2>3, <2>4, ConcatFacts, Zenon
    <3>2. 1 \in 1..Len(w)
      BY <2>3
    <3> QED
      BY <2>3, <3>1, <3>2 DEF Joined
  <2>6. Plan(flash, n, y) /\ y # <<>>
    BY <1>5, <2>1, <2>5
  <2> QED
    BY <2>5, <2>6 DEF y, w
<1> QED
  BY <1>4, <1>6, <1>7 DEF x

LEMMA AppendPlan ==
    ASSUME NEW n \in Nat, FlashInv(flash, n), DirInv(flash), NEW e \in Pending(flash, n)
    PROVE  AppendCommands(e) \in Seq(Cmds) /\ Plan(flash, n, AppendCommands(e))
<1> DEFINE c == e.conv
           td == AppendCommands(e)
<1>1. c \in Convs /\ e \in Slot
  BY PendingFacts
<1>2. CASE ClaimedBy(flash, c) = {} /\ \A q \in Regions, t \in Sectors : flash[q][t].conv # c
  <2>1. td = ClaimAndWrite(e)
    BY <1>2, Zenon DEF AppendCommands
  <2>2. CASE Unclaimed(flash) = {}
    <3>1. td = <<>>
      BY <2>1, <2>2, Zenon DEF ClaimAndWrite
    <3> QED
      BY <3>1 DEF Plan
  <2>3. CASE Unclaimed(flash) # {}
    <3> DEFINE r == Min(Unclaimed(flash))
    <3>1. r \in Unclaimed(flash)
      <4>1. Unclaimed(flash) \in SUBSET Nat
        BY DEF Unclaimed, Regions
      <4> QED
        BY <2>3, <4>1, MinFacts
    <3>2. r \in Regions /\ Active(flash, r) = {}
      BY <3>1, Zenon DEF Unclaimed
    <3>3. td = <<Erase(r, 0), Erase(r, 1), Header(r, 0, c, 0)>> \o <<Write(r, 0, e)>>
      BY <2>1, <2>3, Zenon DEF ClaimAndWrite, Claim
    <3> HIDE DEF r
    <3>4. 0 \in Sectors /\ 1 \in Sectors /\ 0 \in Gens
      BY Constants DEF Sectors, Gens
    <3>5. Erase(r, 0) \in Cmds /\ Erase(r, 1) \in Cmds /\ Header(r, 0, c, 0) \in Cmds /\ Write(r, 0, e) \in Cmds
      BY <1>1, <3>2, <3>4, CmdFacts
    <3> HIDE DEF td
    <3>6. ASSUME NEW p \in Cmds, NEW q \in Cmds, NEW x \in Cmds, NEW y \in Cmds
          PROVE  <<p, q, x>> \o <<y>> = <<p, q, x, y>> /\ <<p, q, x, y>> \in Seq(Cmds)
      <4> DEFINE v == <<p, q, x>>
                 w == <<y>>
                 z == <<p, q, x, y>>
                 j == v \o w
      <4>1. v \in Seq(Cmds) /\ Len(v) = 3 /\ v[1] = p /\ v[2] = q /\ v[3] = x
        OBVIOUS
      <4>2. w \in Seq(Cmds) /\ Len(w) = 1 /\ w[1] = y
        OBVIOUS
      <4>3. z \in Seq(Cmds) /\ Len(z) = 4 /\ z[1] = p /\ z[2] = q /\ z[3] = x /\ z[4] = y
        OBVIOUS
      <4> HIDE DEF v, w, z
      <4>4. Joined(Cmds, j, v, w)
        BY <4>1, <4>2, ConcatFacts, Zenon
      <4> HIDE DEF j
      <4>5. j \in Seq(Cmds) /\ Len(j) = 4 /\ j[1] = p /\ j[2] = q /\ j[3] = x /\ j[4] = y
        <5>1. 1 \in 1..3 /\ 2 \in 1..3 /\ 3 \in 1..3 /\ 1 \in 1..1 /\ 3 + 1 = 4
          OBVIOUS
        <5> QED
          BY <4>1, <4>2, <4>4, <5>1 DEF Joined
      <4>6. j = z
        <5>1. \A i \in 1..Len(j) : i = 1 \/ i = 2 \/ i = 3 \/ i = 4
          BY <4>5
        <5>2. \A i \in 1..Len(j) : j[i] = z[i]
          BY <4>3, <4>5, <5>1
        <5> QED
          BY <4>3, <4>5, <5>2, SameSeq
      <4> QED
        BY <4>3, <4>6 DEF v, w, z, j
    <3>7. /\ td = <<Erase(r, 0), Erase(r, 1), Header(r, 0, c, 0), Write(r, 0, e)>>
          /\ td \in Seq(Cmds)
      BY <3>3, <3>5, <3>6
    <3>8. flash[r][0].conv = NoConv /\ flash[r][1].conv = NoConv
      BY <3>2, <3>4, ActiveFacts DEF Claimed
    <3> HIDE DEF td
    <3>9. ClaimPlan(flash, td, r, e)
      BY <1>2, <3>7, <3>8, Zenon DEF ClaimPlan
    <3>10. Plan(flash, n, td)
      BY <3>2, <3>9, Zenon DEF Plan
    <3> QED
      BY <3>7, <3>10 DEF td
  <2> QED
    BY <2>2, <2>3
<1>3. ASSUME NEW r \in Regions, NEW s \in Sectors,
             ClaimedBy(flash, c) = {r}, Min(ClaimedBy(flash, c)) = r, s \in Active(flash, r),
             flash[r][s].conv = c, ActiveOf(flash, r) = s
      PROVE  td \in Seq(Cmds) /\ Plan(flash, n, td)
  <2>1. td = IF Len(flash[r][s].slots) < Slots THEN <<Write(r, s, e)>>
             ELSE Rewrite(r, Live(flash[r][s].slots)) \o <<Write(r, 1 - s, e)>>
    <3>1. {r} # {}
      OBVIOUS
    <3> QED
      BY <1>3, <3>1, Zenon DEF AppendCommands
  <2> HIDE DEF td
  <2>2. CASE Len(flash[r][s].slots) < Slots
    <3>1. td = <<Write(r, s, e)>>
      BY <2>1, <2>2
    <3>2. Write(r, s, e) \in Cmds
      BY <1>1, CmdFacts
    <3>3. td \in Seq(Cmds)
      BY <3>1, <3>2
    <3>4. WritePlan(flash, td, r, s, e)
      BY <1>3, <2>2, <3>1, Zenon DEF WritePlan
    <3> QED
      BY <3>3, <3>4, Zenon DEF Plan
  <2>3. CASE ~(Len(flash[r][s].slots) < Slots)
    <3>1. Live(flash[r][s].slots) \in Copies(flash[r][s].slots)
      BY Zenon DEF Copies
    <3> DEFINE l == Live(flash[r][s].slots)
    <3> HIDE DEF l
    <3>2. td = Rewrite(r, l) \o <<Write(r, 1 - s, e)>> /\ l \in Copies(flash[r][s].slots)
      BY <2>1, <2>3, <3>1 DEF l
    <3> QED
      BY <1>3, <3>2, RewritePlan
  <2> QED
    BY <2>2, <2>3
<1> QED
  BY <1>1, <1>2, <1>3, OwnFacts

LEMMA MarkPlan ==
    ASSUME NEW n \in Nat, FlashInv(flash, n), DirInv(flash), NEW c \in Convs
    PROVE  MarkCommands(c) \in Seq(Cmds) /\ Plan(flash, n, MarkCommands(c))
<1> DEFINE td == MarkCommands(c)
<1>1. CASE td = <<>>
  BY <1>1 DEF Plan
<1>2. CASE td # <<>>
  <2>1. ClaimedBy(flash, c) # {}
    BY <1>2, Zenon DEF MarkCommands
  <2>2. PICK r \in Regions, s \in Sectors :
               /\ ClaimedBy(flash, c) = {r} /\ Min(ClaimedBy(flash, c)) = r /\ s \in Active(flash, r)
               /\ flash[r][s].conv = c /\ ActiveOf(flash, r) = s
    BY <2>1, OwnFacts
  <2> DEFINE live == Live(flash[r][s].slots)
  <2>3. /\ Markable(live) # {}
        /\ td = Rewrite(r, [live EXCEPT ![Max(Markable(live))].acked = TRUE])
    <3>1. td = IF ClaimedBy(flash, c) = {} THEN <<>>
               ELSE IF Markable(live) = {} THEN <<>>
               ELSE Rewrite(r, [live EXCEPT ![Max(Markable(live))].acked = TRUE])
      BY <2>2, Zenon DEF MarkCommands
    <3> HIDE DEF td, live
    <3> QED
      BY <1>2, <2>1, <3>1
  <2>4. Log!Unacked(live) = Markable(live)
    BY Zenon DEF Log!Unacked, Markable
  <2>5. [live EXCEPT ![Max(Markable(live))].acked = TRUE] = Log!Marked(live)
    <3>1. Log!Marked(live) = IF Log!Unacked(live) = {} THEN live
                             ELSE [live EXCEPT ![Max(Log!Unacked(live))].acked = TRUE]
      BY Zenon DEF Log!Marked, Log!Max, Max
    <3> HIDE DEF live
    <3> QED
      BY <2>3, <2>4, <3>1
  <2>6. Log!Marked(live) \in Copies(flash[r][s].slots)
    BY Zenon DEF Copies
  <2> DEFINE k == Log!Marked(live)
  <2>7. td = Rewrite(r, k)
    BY <2>3, <2>5
  <2> HIDE DEF live, k, td
  <2>8. k \in Copies(flash[r][s].slots)
    BY <2>6 DEF k
  <2>9. td \in Seq(Cmds) /\ Plan(flash, n, td)
    BY <2>2, <2>7, <2>8, RewritePlan
  <2> QED
    BY <2>9 DEF td
<1> QED
  BY <1>1, <1>2

LEMMA ClearCommandsFacts ==
    ClearCommands \in Seq(Cmds) /\ ClearPlan(ClearCommands) /\ ClearCommands # <<>>
<1> DEFINE N == 2 * NumRegions
<1>1. N \in Nat /\ N > 0 /\ NumRegions \in Nat
  BY Constants
<1>2. \A i \in 1..N : (i + 1) \div 2 \in Regions /\ (i + 1) % 2 \in Sectors
  BY <1>1 DEF Regions, Sectors
<1>3. \A i \in 1..N : Erase((i + 1) \div 2, (i + 1) % 2) \in Cmds
  BY <1>2, CmdFacts
<1>4. ClearCommands = [i \in 1..N |-> Erase((i + 1) \div 2, (i + 1) % 2)]
  BY Zenon DEF ClearCommands
<1> HIDE DEF N
<1>5. ClearCommands \in Seq(Cmds) /\ Len(ClearCommands) = N
  BY <1>1, <1>3, <1>4
<1>6. \A i \in 1..N : ClearCommands[i] = Erase((i + 1) \div 2, (i + 1) % 2)
  BY <1>4
<1>7. ClearPlan(ClearCommands)
  BY <1>2, <1>5, <1>6, Zenon DEF ClearPlan
<1>8. ClearCommands # <<>>
  BY <1>1, <1>5
<1> QED
  BY <1>5, <1>7, <1>8

-----------------------------------------------------------------------------
(***************************************************************************)
(* The inductive invariant.                                                *)
(***************************************************************************)
LEMMA InitIInv == Init => IInv
<1> SUFFICES ASSUME Init PROVE IInv
  OBVIOUS
<1>1. /\ flash = [r \in Regions |-> [s \in Sectors |-> Junk]] /\ todo = <<>> /\ op = "idle"
      /\ migrating = 1 /\ marker = FALSE /\ appended \in [1..NumLegacy -> Convs]
      /\ clears = 0 /\ faults = 0
  BY DEF Init
<1>2. appended \in Seq(Convs) /\ Len(appended) = NumLegacy
  BY <1>1, Constants
<1>3. /\ Junk \in Sector /\ Junk.conv = NoConv /\ SectorOK(Junk, Len(appended))
  BY <1>2, Constants, ErasedFacts
<1>4. \A r \in Regions, s \in Sectors : flash[r][s] = Junk
  BY <1>1
<1>5. FlashInv(flash, Len(appended))
  BY <1>1, <1>3, <1>4, Zenon DEF FlashInv
<1>6. DirInv(flash)
  <2>1. \A r \in Regions, s \in Sectors : ~Claimed(flash, r, s)
    BY <1>3, <1>4 DEF Claimed
  <2> QED
    BY <2>1, Zenon DEF DirInv, PairInv, OwnInv
<1>7. PlanInv(flash, Len(appended), todo, op)
  BY <1>1, Zenon DEF PlanInv, Plan
<1>8. Counters
  <2>1. <<>> \in Seq(Cmds)
    OBVIOUS
  <2>2. Len(appended) \in NumLegacy..(NumLegacy + MaxAppends) /\ 1 \in 1..(NumLegacy + 1)
        /\ 0 \in 0..MaxClears /\ 0 \in 0..MaxFaults
    BY <1>2, Constants
  <2>3. op \in Ops /\ marker \in BOOLEAN
    BY <1>1, Zenon DEF Ops
  <2> QED
    BY <1>1, <1>2, <2>1, <2>2, <2>3, Zenon DEF Counters
<1> QED
  BY <1>5, <1>6, <1>7, <1>8, Zenon DEF IInv

LEMMA FlashGrows ==
    ASSUME NEW fl, NEW n \in Nat, NEW m \in Nat, n <= m, FlashInv(fl, n)
    PROVE  FlashInv(fl, m)
<1> SUFFICES ASSUME NEW r \in Regions, NEW s \in Sectors PROVE SectorOK(fl[r][s], m)
  BY Zenon DEF FlashInv
<1>1. SectorOK(fl[r][s], n)
  BY Zenon DEF FlashInv
<1>2. /\ fl[r][s].slots \in Seq(Slot)
      /\ \A i \in 1..Len(fl[r][s].slots) : fl[r][s].slots[i] \in Slot /\ fl[r][s].slots[i].msg <= n
  BY FlashFacts, SeqLen
<1>3. \A i \in 1..Len(fl[r][s].slots) : fl[r][s].slots[i].msg <= m
  BY <1>2, SlotFacts
<1> QED
  BY <1>1, <1>3, Zenon DEF SectorOK

\* What IInv says, with the types of its parts.
LEMMA IInvFacts ==
    ASSUME IInv
    PROVE  /\ FlashInv(flash, Len(appended)) /\ DirInv(flash) /\ Counters
           /\ Len(appended) \in Nat /\ Len(appended) >= NumLegacy
           /\ Len(appended) <= NumLegacy + MaxAppends
           /\ appended \in Seq(Convs) /\ todo \in Seq(Cmds)
           /\ op = "clear" => ClearPlan(todo)
           /\ op # "clear" => Plan(flash, Len(appended), todo)
  BY SeqLen, Constants DEF IInv, Counters, PlanInv

\* An operation starts: the flash stays, the commands are a plan.
LEMMA StartKeeps ==
    ASSUME IInv, NEW o \in {"append", "mark", "clear"}, NEW cmds \in Seq(Cmds), Start(o, cmds),
           appended' \in Seq(Convs), Len(appended') \in Nat, Len(appended) <= Len(appended'),
           Len(appended') <= NumLegacy + MaxAppends,
           IF o = "clear" THEN ClearPlan(cmds) ELSE Plan(flash, Len(appended'), cmds),
           migrating' \in 1..(NumLegacy + 1), clears' \in 0..MaxClears
    PROVE  IInv'
<1>1. todo' = cmds /\ op' = (IF cmds = <<>> THEN "idle" ELSE o)
      /\ flash' = flash /\ marker' = marker /\ faults' = faults
  BY DEF Start
<1>2. FlashInv(flash', Len(appended')) /\ DirInv(flash')
  BY <1>1, IInvFacts, FlashGrows
<1>3. PlanInv(flash', Len(appended'), todo', op')
  <2>1. CASE cmds = <<>>
    BY <1>1, <2>1 DEF PlanInv, Plan
  <2>2. CASE cmds # <<>>
    BY <1>1, <2>2 DEF PlanInv
  <2> QED
    BY <2>1, <2>2
<1>4. Counters'
  BY <1>1, IInvFacts, Constants DEF Counters, Ops
<1> QED
  BY <1>2, <1>3, <1>4 DEF IInv

LEMMA MigrateStep == IInv /\ Migrate => IInv'
<1> SUFFICES ASSUME IInv, Migrate PROVE IInv'
  OBVIOUS
<1> DEFINE e == [msg |-> migrating, ours |-> FALSE, conv |-> appended[migrating], acked |-> TRUE]
<1>1. /\ migrating <= NumLegacy /\ Start("append", AppendCommands(e))
      /\ migrating' = migrating + 1 /\ appended' = appended /\ clears' = clears
  BY Zenon DEF Migrate
<1>2. migrating \in Nat /\ migrating >= 1 /\ clears \in 0..MaxClears
  BY IInvFacts, Constants DEF Counters
<1>3. e \in Pending(flash, Len(appended))
  <2>1. migrating \in 1..Len(appended) /\ migrating \in Msgs
    BY <1>1, <1>2, IInvFacts, Constants DEF Msgs
  <2>2. appended[migrating] \in Convs
    BY <2>1, IInvFacts, SeqLen
  <2>3. e \in Entries /\ e.msg = migrating
    BY <2>1, <2>2 DEF Entries
  <2> HIDE DEF e
  <2>4. e.msg <= Len(appended) /\ ~(e.msg > NumLegacy)
    BY <1>1, <1>2, <2>1, <2>3, IInvFacts, Constants
  <2> QED
    BY <2>3, <2>4, Zenon DEF Pending
<1> HIDE DEF e
<1>4. AppendCommands(e) \in Seq(Cmds) /\ Plan(flash, Len(appended), AppendCommands(e))
  BY <1>3, IInvFacts, AppendPlan
<1>5. migrating' \in 1..(NumLegacy + 1) /\ Len(appended) <= Len(appended')
  BY <1>1, <1>2, IInvFacts, Constants
<1> QED
  BY <1>1, <1>2, <1>4, <1>5, IInvFacts, StartKeeps

LEMMA AppendStep ==
    ASSUME IInv, NEW c \in Convs, NEW ours \in BOOLEAN, AppendConversation(c, ours)
    PROVE  IInv'
<1> DEFINE m == Len(appended) + 1
           e == [msg |-> m, conv |-> c, ours |-> ours, acked |-> ~ours]
<1>1. /\ Len(appended) < NumLegacy + MaxAppends /\ Start("append", AppendCommands(e))
      /\ appended' = Append(appended, c) /\ migrating' = migrating /\ clears' = clears
  BY Zenon DEF AppendConversation
<1>2. /\ appended' \in Seq(Convs) /\ Len(appended') = m /\ m \in Nat /\ Len(appended) <= m
      /\ m <= NumLegacy + MaxAppends
  BY <1>1, IInvFacts, Constants, AppendFacts
<1>3. m \in Msgs
  BY <1>2, Constants DEF Msgs
<1> HIDE DEF m
<1>4. e \in Entries /\ e.msg = m
  BY <1>3 DEF Entries
<1> HIDE DEF e
<1>5. FlashInv(flash, m) /\ DirInv(flash)
  BY <1>2, IInvFacts, FlashGrows
<1>6. e \in Pending(flash, m)
  <2>1. \A r \in Regions, s \in Sectors : \A i \in 1..Len(flash[r][s].slots) :
           flash[r][s].slots[i].msg # e.msg
    <3> SUFFICES ASSUME NEW r \in Regions, NEW s \in Sectors, NEW i \in 1..Len(flash[r][s].slots)
                 PROVE  flash[r][s].slots[i].msg # e.msg
      OBVIOUS
    <3>1. flash[r][s].slots[i].msg <= Len(appended) /\ flash[r][s].slots \in Seq(Slot)
      BY IInvFacts, FlashFacts
    <3>2. flash[r][s].slots[i].msg \in Nat
      BY <3>1, SeqLen, SlotFacts
    <3> QED
      BY <1>4, <3>1, <3>2, IInvFacts DEF m
  <2>2. e.msg <= m
    BY <1>2, <1>4
  <2> QED
    BY <1>4, <2>1, <2>2, Zenon DEF Pending
<1>7. AppendCommands(e) \in Seq(Cmds) /\ Plan(flash, m, AppendCommands(e))
  BY <1>2, <1>5, <1>6, AppendPlan
<1>8. migrating \in 1..(NumLegacy + 1) /\ clears \in 0..MaxClears
  BY IInvFacts DEF Counters
<1> QED
  BY <1>1, <1>2, <1>7, <1>8, StartKeeps

LEMMA MarkStep ==
    ASSUME IInv, NEW c \in Convs, MarkLastOursAcked(c)
    PROVE  IInv'
<1>1. /\ Start("mark", MarkCommands(c)) /\ migrating' = migrating /\ appended' = appended
      /\ clears' = clears
  BY Zenon DEF MarkLastOursAcked
<1>2. MarkCommands(c) \in Seq(Cmds) /\ Plan(flash, Len(appended), MarkCommands(c))
  BY IInvFacts, MarkPlan
<1>3. migrating \in 1..(NumLegacy + 1) /\ clears \in 0..MaxClears /\ Len(appended) <= Len(appended')
  BY <1>1, IInvFacts DEF Counters
<1> QED
  BY <1>1, <1>2, <1>3, IInvFacts, StartKeeps

LEMMA ClearStep == IInv /\ ClearAll => IInv'
<1> SUFFICES ASSUME IInv, ClearAll PROVE IInv'
  OBVIOUS
<1>1. /\ clears < MaxClears /\ clears' = clears + 1 /\ Start("clear", ClearCommands)
      /\ migrating' = migrating /\ appended' = appended
  BY Zenon DEF ClearAll
<1>2. /\ migrating \in 1..(NumLegacy + 1) /\ clears' \in 0..MaxClears
      /\ Len(appended) <= Len(appended')
  BY <1>1, IInvFacts, Constants DEF Counters
<1> QED
  BY <1>1, <1>2, IInvFacts, ClearCommandsFacts, StartKeeps

LEMMA MigrationDoneStep == IInv /\ MigrationDone => IInv'
<1> SUFFICES ASSUME IInv, MigrationDone PROVE IInv'
  OBVIOUS
<1>1. /\ marker' = TRUE /\ flash' = flash /\ todo' = todo /\ op' = op /\ migrating' = migrating
      /\ appended' = appended /\ clears' = clears /\ faults' = faults
  BY DEF MigrationDone
<1>2. Counters'
  BY <1>1 DEF IInv, Counters
<1> QED
  BY <1>1, <1>2 DEF IInv

\* The head of the running operation's commands is harmless, and a completed
\* command is one of the outcomes of a cut-short one.
LEMMA HeadFacts ==
    ASSUME IInv, todo # <<>>
    PROVE  /\ HeadOK(flash, Len(appended), todo[1]) /\ Head(todo) = todo[1]
           /\ \A sec : Done(sec, todo[1]) \in Partial(sec, todo[1])
           /\ op = "clear" => \E r \in Regions, s \in Sectors : todo[1] = Erase(r, s)
<1> DEFINE n == Len(appended)
           cmd == todo[1]
<1>1. todo \in Seq(Cmds) /\ Len(todo) > 0 /\ Head(todo) = cmd /\ 1 \in 1..Len(todo)
  BY IInvFacts, TailFacts
<1>2. op = "clear" => \E r \in Regions, s \in Sectors : cmd = Erase(r, s)
  BY <1>1, IInvFacts DEF ClearPlan
<1>3. HeadOK(flash, n, cmd)
  <2>1. CASE op = "clear"
    BY <1>2, <2>1, Zenon DEF HeadOK
  <2>2. CASE op # "clear"
    BY <2>2, IInvFacts, PlanGoesOn DEF PlanStep
  <2> QED
    BY <2>1, <2>2
<1> HIDE DEF cmd
<1>4. ASSUME NEW sec PROVE Done(sec, cmd) \in Partial(sec, cmd)
  <2>1. PICK r \in Regions, s \in Sectors :
          \/ cmd = Erase(r, s)
          \/ \E e \in Slot : cmd = Write(r, s, e)
          \/ \E c \in Convs, g \in Gens : cmd = Header(r, s, c, g)
    BY <1>3, Zenon DEF HeadOK
  <2>2. CASE cmd = Erase(r, s)
    BY <2>2, EraseFacts
  <2>3. ASSUME NEW e \in Slot, cmd = Write(r, s, e) PROVE Done(sec, cmd) \in Partial(sec, cmd)
    BY <2>3, WriteFacts
  <2>4. ASSUME NEW c \in Convs, NEW g \in Gens, cmd = Header(r, s, c, g)
        PROVE  Done(sec, cmd) \in Partial(sec, cmd)
    BY <2>4, HeaderFacts
  <2> QED
    BY <2>1, <2>2, <2>3, <2>4
<1> QED
  BY <1>1, <1>2, <1>3, <1>4 DEF cmd

LEMMA DoStep == IInv /\ Do => IInv'
<1> SUFFICES ASSUME IInv, Do PROVE IInv'
  OBVIOUS
<1> DEFINE n == Len(appended)
           cmd == todo[1]
<1>1. /\ todo # <<>> /\ flash' = [flash EXCEPT ![Head(todo).r][Head(todo).s] = Done(@, Head(todo))]
      /\ todo' = Tail(todo) /\ op' = (IF Len(todo) = 1 THEN "idle" ELSE op)
      /\ migrating' = migrating /\ marker' = marker /\ appended' = appended
      /\ clears' = clears /\ faults' = faults
  BY Zenon DEF Do
<1>2. /\ HeadOK(flash, n, cmd) /\ Head(todo) = cmd
      /\ Done(flash[cmd.r][cmd.s], cmd) \in Partial(flash[cmd.r][cmd.s], cmd)
  BY <1>1, HeadFacts
<1>3. flash' = After(flash, cmd)
  BY <1>1, <1>2 DEF After, Put
<1>4. FlashInv(flash', n) /\ DirInv(flash')
  BY <1>2, <1>3, IInvFacts, Touch DEF After
<1>5. /\ Tail(todo) \in Seq(Cmds) /\ Len(todo) \in Nat /\ Len(Tail(todo)) = Len(todo) - 1
      /\ \A i \in 1..(Len(todo) - 1) : Tail(todo)[i] = todo[i + 1]
  BY <1>1, IInvFacts, SeqLen, TailFacts
<1>6. Len(todo) = 1 <=> Tail(todo) = <<>>
  <2> DEFINE tl == Tail(todo)
  <2>1. tl \in Seq(Cmds) /\ Len(tl) = Len(todo) - 1
    BY <1>5
  <2> HIDE DEF tl
  <2>2. (Len(tl) = 0 => tl = <<>>) /\ (tl = <<>> => Len(tl) = 0)
    BY <2>1, ShortSeq
  <2>3. Len(todo) = 1 <=> tl = <<>>
    BY <1>5, <2>1, <2>2
  <2> QED
    BY <2>3 DEF tl
<1>7. PlanInv(flash', n, todo', op')
  <2>1. CASE op' = "idle"
    <3>1. todo' = <<>>
      BY <1>1, <1>6, <2>1 DEF IInv, Counters
    <3> QED
      BY <2>1, <3>1 DEF PlanInv, Plan
  <2>2. CASE op' = "clear"
    <3>1. op = "clear"
      BY <1>1, <2>2
    <3>2. ClearPlan(Tail(todo))
      <4>1. ClearPlan(todo)
        BY <3>1, IInvFacts
      <4> QED
        BY <1>5, <4>1 DEF ClearPlan
    <3> QED
      BY <1>1, <2>2, <3>2 DEF PlanInv
  <2>3. CASE op' # "idle" /\ op' # "clear"
    <3>1. op # "clear"
      BY <1>1, <2>3
    <3>2. Plan(flash', n, Tail(todo))
      <4>1. PlanStep(flash, n, todo)
        BY <1>1, <3>1, IInvFacts, PlanGoesOn
      <4> QED
        BY <1>3, <4>1 DEF PlanStep
    <3> QED
      BY <1>1, <2>3, <3>2 DEF PlanInv
  <2> QED
    BY <2>1, <2>2, <2>3
<1>8. Counters'
  <2>1. op' \in Ops /\ (op' = "idle" <=> todo' = <<>>)
    BY <1>1, <1>6 DEF IInv, Counters, Ops
  <2> QED
    BY <1>1, <1>5, <2>1 DEF IInv, Counters
<1> QED
  BY <1>1, <1>4, <1>7, <1>8 DEF IInv

LEMMA FailStep ==
    ASSUME IInv, NEW reboot \in BOOLEAN, Fail(reboot)
    PROVE  IInv'
<1> DEFINE n == Len(appended)
           cmd == todo[1]
<1>1. /\ todo # <<>> /\ faults < MaxFaults /\ faults' = faults + 1
      /\ \E sector \in Partial(flash[Head(todo).r][Head(todo).s], Head(todo)) :
            flash' = [flash EXCEPT ![Head(todo).r][Head(todo).s] = sector]
      /\ todo' = <<>> /\ op' = "idle" /\ migrating' \in {1, migrating} /\ marker' = marker
      /\ appended' = appended /\ clears' = clears
  BY DEF Fail
<1>2. HeadOK(flash, n, cmd) /\ Head(todo) = cmd
  BY <1>1, HeadFacts
<1>3. PICK x \in Partial(flash[cmd.r][cmd.s], cmd) : flash' = Put(flash, cmd.r, cmd.s, x)
  BY <1>1, <1>2 DEF Put
<1>4. FlashInv(flash', n) /\ DirInv(flash')
  BY <1>2, <1>3, IInvFacts, Touch
<1>5. PlanInv(flash', n, todo', op')
  BY <1>1 DEF PlanInv, Plan
<1>6. Counters'
  <2>1. migrating' \in 1..(NumLegacy + 1) /\ faults' \in 0..MaxFaults /\ todo' \in Seq(Cmds)
    <3>1. migrating \in 1..(NumLegacy + 1) /\ faults \in 0..MaxFaults /\ NumLegacy \in Nat /\ MaxFaults \in Nat
      BY Constants DEF IInv, Counters
    <3>2. <<>> \in Seq(Cmds)
      OBVIOUS
    <3>3. migrating' \in 1..(NumLegacy + 1) /\ faults' \in 0..MaxFaults
      BY <1>1, <3>1
    <3> QED
      BY <1>1, <3>2, <3>3
  <2> QED
    BY <1>1, <2>1 DEF IInv, Counters, Ops
<1> QED
  BY <1>1, <1>4, <1>5, <1>6 DEF IInv

LEMMA Invariant == Spec => []IInv
<1>1. Init => IInv
  BY InitIInv
<1>2. IInv /\ [Next]_vars => IInv'
  <2> SUFFICES ASSUME IInv, [Next]_vars PROVE IInv'
    OBVIOUS
  <2>1. CASE Next
    BY <2>1, MigrateStep, MigrationDoneStep, AppendStep, MarkStep, ClearStep, DoStep, FailStep
       DEF Next
  <2>2. CASE UNCHANGED vars
    BY <2>2 DEF vars, IInv, Counters
  <2> QED
    BY <2>1, <2>2
<1> QED
  BY <1>1, <1>2, PTL DEF Spec

LEMMA IInvRegion == IInv => RegionInv
<1> SUFFICES ASSUME IInv PROVE RegionInv
  OBVIOUS
<1>1. FlashInv(flash, Len(appended)) /\ DirInv(flash) /\ todo \in Seq(Cmds)
  BY IInvFacts
<1>2. TypeOK
  <2>1. flash \in [Regions -> [Sectors -> Sector]]
    BY <1>1, Zenon DEF FlashInv
  <2>2. \A r \in Regions, s \in Sectors : Len(flash[r][s].slots) <= Slots
    BY <1>1, FlashFacts
  <2>3. \A i \in 1..Len(todo) : todo[i].r \in Regions /\ todo[i].s \in Sectors
    <3>1. \A c \in Cmds : c.r \in Regions /\ c.s \in Sectors
      BY DEF Cmds
    <3> QED
      BY <1>1, <3>1, SeqLen
  <2> QED
    BY <2>1, <2>2, <2>3 DEF TypeOK, IInv, Counters
<1>3. OneRegionPerConversation
  <2> SUFFICES ASSUME NEW c \in Convs, NEW q \in Regions, NEW r \in Regions,
                      NEW s \in Active(flash, q), NEW t \in Active(flash, r),
                      flash[q][s].conv = c, flash[r][t].conv = c
               PROVE  q = r
    BY Zenon DEF OneRegionPerConversation
  <2>1. s \in Sectors /\ t \in Sectors /\ Claimed(flash, q, s) /\ Claimed(flash, r, t)
    BY ActiveFacts
  <2> QED
    BY <1>1, <2>1 DEF DirInv, OwnInv
<1>4. HandOffPair
  <2> SUFFICES ASSUME NEW r \in Regions, Claimed(flash, r, 0), Claimed(flash, r, 1)
               PROVE  /\ flash[r][0].conv = flash[r][1].conv
                      /\ \E s \in Sectors : flash[r][s].gen = (flash[r][1 - s].gen + 1) % GenMod
    BY DEF HandOffPair
  <2>1. 0 \in Sectors /\ 1 \in Sectors /\ 1 - 0 = 1 /\ 1 - 1 = 0
    BY DEF Sectors
  <2> QED
    BY <1>1, <2>1 DEF DirInv, PairInv
<1> QED
  BY <1>2, <1>3, <1>4 DEF RegionInv

\* Whatever is interrupted, and however often, no conversation gets a second
\* region and two claimed sectors of a region are the two ends of one hand-off
\* (claim_region, rewrite_region, active_sector).
THEOREM RegionsHold == Spec => []RegionInv
  BY Invariant, IInvRegion, PTL

-----------------------------------------------------------------------------
\* A message that is in flash once stays there once: the active sector of a
\* region never holds a message twice, so no reader is shown one twice.
LEMMA IInvNoDuplicates == IInv => NoDuplicates
<1> SUFFICES ASSUME IInv, NEW c \in Convs, NEW i \in 1..Len(Places(c)), NEW j \in 1..Len(Places(c)),
                    Places(c)[i].msg = Places(c)[j].msg, Places(c)[i].msg > NumLegacy
             PROVE  i = j
  BY Zenon DEF NoDuplicates
<1>1. FlashInv(flash, Len(appended)) /\ DirInv(flash)
  BY IInvFacts
<1>2. CASE ClaimedBy(flash, c) = {}
  <2>1. Places(c) = <<>>
    BY <1>2, Zenon DEF Places
  <2> QED
    BY <2>1
<1>3. ASSUME NEW r \in Regions, NEW s \in Sectors, ClaimedBy(flash, c) = {r},
             Min(ClaimedBy(flash, c)) = r, ActiveOf(flash, r) = s
      PROVE  i = j
  <2> DEFINE slots == flash[r][s].slots
             w == Window(slots)
  <2>1. Places(c) = w
    <3>1. {r} # {}
      OBVIOUS
    <3> QED
      BY <1>3, <3>1, Zenon DEF Places
  <2>2. slots \in Seq(Slot) /\ UniqueIn(slots) /\ Len(slots) \in Nat
    BY <1>1, FlashFacts
  <2> HIDE DEF slots
  <2> DEFINE d == Len(slots) - Len(w)
  <2>3. /\ Len(w) \in Nat /\ Len(w) <= Len(slots)
        /\ \A x \in 1..Len(w) : d + x \in 1..Len(slots) /\ w[x] = slots[d + x]
    BY <2>2, WindowFacts
  <2> HIDE DEF w
  <2>4. d \in Nat /\ i \in 1..Len(w) /\ j \in 1..Len(w)
    BY <2>1, <2>2, <2>3
  <2>5. d + i = d + j
    BY <2>1, <2>2, <2>3, <2>4 DEF UniqueIn
  <2> QED
    BY <2>4, <2>5
<1> QED
  BY <1>1, <1>2, <1>3, OwnFacts

\* No interrupted hand-off shows a reader a message twice (rewrite_region,
\* load_all_conversations).
THEOREM NoDuplicatesHolds == Spec => []NoDuplicates
  BY Invariant, IInvNoDuplicates, PTL

-----------------------------------------------------------------------------
(***************************************************************************)
(* What a reader sees, and what a command changes of it.                   *)
(***************************************************************************)
\* Places, for any flash.
View(fl, c) ==
    IF ClaimedBy(fl, c) = {} THEN <<>>
    ELSE Window(fl[Min(ClaimedBy(fl, c))][ActiveOf(fl, Min(ClaimedBy(fl, c)))].slots)

LEMMA ViewIs ==
    ASSUME NEW fl, DirInv(fl), NEW r \in Regions, NEW s \in Active(fl, r), NEW c \in Convs,
           fl[r][s].conv = c
    PROVE  View(fl, c) = Window(fl[r][s].slots)
<1>1. s \in Sectors /\ ActiveOf(fl, r) = s
  BY ActiveFacts
<1>2. ClaimedBy(fl, c) = {r} /\ Min(ClaimedBy(fl, c)) = r
  BY <1>1, OwnRegion
<1>3. {r} # {}
  OBVIOUS
<1> QED
  BY <1>1, <1>2, <1>3, Zenon DEF View

LEMMA ViewNone ==
    ASSUME NEW fl, NEW c, \A q \in Regions, t \in Sectors : fl[q][t].conv # c
    PROVE  View(fl, c) = <<>>
<1>1. \A q : \A t \in Active(fl, q) : t \in Sectors
  BY ActiveFacts
<1>2. ClaimedBy(fl, c) = {}
  BY <1>1, Zenon DEF ClaimedBy
<1> QED
  BY <1>2, Zenon DEF View

\* The two flashes differ only in region r.
Elsewhere(fl, fm, r) == \A q \in Regions, t \in Sectors : q # r => fm[q][t] = fl[q][t]

LEMMA ViewElsewhere ==
    ASSUME NEW fl, NEW fm, DirInv(fl), DirInv(fm), NEW r \in Regions, Elsewhere(fl, fm, r),
           NEW c \in Convs, \A t \in Sectors : fl[r][t].conv # c /\ fm[r][t].conv # c
    PROVE  View(fm, c) = View(fl, c)
<1>1. CASE \A q \in Regions, t \in Sectors : fl[q][t].conv # c
  <2>1. \A q \in Regions, t \in Sectors : fm[q][t].conv # c
    <3> SUFFICES ASSUME NEW q \in Regions, NEW t \in Sectors PROVE fm[q][t].conv # c
      OBVIOUS
    <3>1. CASE q = r
      BY <3>1
    <3>2. CASE q # r
      BY <1>1, <3>2 DEF Elsewhere
    <3> QED
      BY <3>1, <3>2
  <2> QED
    BY <1>1, <2>1, ViewNone
<1>2. ASSUME NEW q \in Regions, NEW s \in Sectors, s \in Active(fl, q), fl[q][s].conv = c
      PROVE  View(fm, c) = View(fl, c)
  <2>1. q # r
    BY <1>2
  <2>2. \A t \in Sectors : fm[q][t] = fl[q][t]
    BY <2>1 DEF Elsewhere
  <2>3. Active(fm, q) = Active(fl, q)
    BY <2>2, ActiveSame
  <2>4. View(fl, c) = Window(fl[q][s].slots)
    BY <1>2, ViewIs
  <2>5. fm[q][s] = fl[q][s] /\ s \in Active(fm, q)
    BY <1>2, <2>2, <2>3
  <2>6. View(fm, c) = Window(fm[q][s].slots)
    BY <1>2, <2>5, ViewIs
  <2> QED
    BY <2>4, <2>5, <2>6
<1> QED
  BY <1>1, <1>2, OwnFacts

\* The sectors of a region with an active one are of its conversation.
LEMMA RegionConv ==
    ASSUME NEW fl, DirInv(fl), NEW r \in Regions, NEW s \in Active(fl, r), NEW t \in Sectors
    PROVE  fl[r][t].conv = NoConv \/ fl[r][t].conv = fl[r][s].conv
<1>1. s \in Sectors /\ Claimed(fl, r, s)
  BY ActiveFacts
<1>2. t = s \/ t = 1 - s
  BY <1>1, SectorPair
<1> QED
  BY <1>1, <1>2 DEF DirInv, PairInv, Claimed

LEMMA RegionNone ==
    ASSUME NEW fl, NEW r, Active(fl, r) = {}, NEW t \in Sectors
    PROVE  fl[r][t].conv = NoConv
  BY ActiveFacts DEF Claimed

\* One region changes and keeps its conversation: so does one log.
LEMMA ViewChanged ==
    ASSUME NEW fl, NEW fm, DirInv(fl), DirInv(fm), NEW r \in Regions, Elsewhere(fl, fm, r),
           NEW s \in Active(fl, r), NEW t \in Active(fm, r), NEW c \in Convs,
           fl[r][s].conv = c, fm[r][t].conv = c
    PROVE  /\ View(fl, c) = Window(fl[r][s].slots) /\ View(fm, c) = Window(fm[r][t].slots)
           /\ \A d \in Convs : d # c => View(fm, d) = View(fl, d)
<1>1. View(fl, c) = Window(fl[r][s].slots) /\ View(fm, c) = Window(fm[r][t].slots)
  BY ViewIs
<1>2. ASSUME NEW d \in Convs, d # c PROVE View(fm, d) = View(fl, d)
  <2>1. \A x \in Sectors : fl[r][x].conv # d /\ fm[r][x].conv # d
    BY <1>2, RegionConv, Constants
  <2> QED
    BY <2>1, ViewElsewhere
<1> QED
  BY <1>1, <1>2

Same(fl, fm) == \A c \in Convs : View(fm, c) = View(fl, c)

LEMMA ViewSame ==
    ASSUME NEW fl, NEW fm, DirInv(fl), DirInv(fm), NEW r \in Regions, Elsewhere(fl, fm, r),
           NEW s \in Active(fl, r), s \in Active(fm, r), fl[r][s].conv \in Convs, fm[r][s] = fl[r][s]
    PROVE  Same(fl, fm)
<1> DEFINE c == fl[r][s].conv
<1>1. /\ View(fl, c) = Window(fl[r][s].slots) /\ View(fm, c) = Window(fm[r][s].slots)
      /\ \A d \in Convs : d # c => View(fm, d) = View(fl, d)
  BY ViewChanged
<1> QED
  BY <1>1 DEF Same

\* An unclaimed region that stays so, or is claimed with an empty sector.
LEMMA ViewUnclaimed ==
    ASSUME NEW fl, NEW fm, DirInv(fl), DirInv(fm), NEW r \in Regions, Elsewhere(fl, fm, r),
           Active(fl, r) = {},
           \A t \in Active(fm, r) : fm[r][t].slots = <<>> /\ fm[r][t].conv \in Convs
              /\ \A q \in Regions, x \in Sectors : fl[q][x].conv # fm[r][t].conv
    PROVE  Same(fl, fm)
<1> SUFFICES ASSUME NEW c \in Convs PROVE View(fm, c) = View(fl, c)
  BY DEF Same
<1>1. \A t \in Sectors : fl[r][t].conv # c
  BY RegionNone, Constants
<1>2. CASE \A t \in Sectors : fm[r][t].conv # c
  BY <1>1, <1>2, ViewElsewhere
<1>3. CASE \E t \in Sectors : fm[r][t].conv = c
  <2>1. PICK s \in Active(fm, r) : TRUE
    BY <1>3, Constants, RegionNone
  <2>2. fm[r][s].conv = c
    BY <1>3, <2>1, RegionConv, Constants
  <2>3. View(fm, c) = Window(<<>>)
    BY <2>1, <2>2, ViewIs
  <2>4. Window(<<>>) = <<>>
    BY Constants DEF Window
  <2>5. View(fl, c) = <<>>
    BY <2>1, <2>2, ViewNone
  <2> QED
    BY <2>3, <2>4, <2>5
<1> QED
  BY <1>2, <1>3

\* A command cut short before it did anything.
LEMMA PutNothing ==
    ASSUME NEW n, NEW fl, FlashInv(fl, n), NEW r \in Regions, NEW s \in Sectors
    PROVE  Put(fl, r, s, fl[r][s]) = fl
<1>1. fl \in [Regions -> [Sectors -> Sector]]
  BY Zenon DEF FlashInv
<1> QED
  BY <1>1 DEF Put

LEMMA PutElsewhere ==
    ASSUME NEW n, NEW fl, FlashInv(fl, n), NEW r \in Regions, NEW s \in Sectors, NEW x \in Sector
    PROVE  /\ Elsewhere(fl, Put(fl, r, s, x), r)
           /\ Put(fl, r, s, x)[r][s] = x
           /\ Put(fl, r, s, x)[r][1 - s] = fl[r][1 - s]
<1>1. fl \in [Regions -> [Sectors -> Sector]]
  BY Zenon DEF FlashInv
<1>2. /\ Put(fl, r, s, x)[r][s] = x
      /\ \A q \in Regions, t \in Sectors : (q # r \/ t # s) => Put(fl, r, s, x)[q][t] = fl[q][t]
  BY <1>1, PutFacts
<1> QED
  BY <1>2, SectorPair DEF Elsewhere

LEMMA FullWindow ==
    ASSUME NEW l \in Seq(Slot), Len(l) >= Keep
    PROVE  /\ Window(l) \in Seq(Slot) /\ Len(Window(l)) = Keep
           /\ \A i \in 1..Keep : Window(l)[i] = l[(Len(l) - Keep) + i]
<1>1. Window(l) \in Seq(Slot) /\ Len(Window(l)) = Keep
  BY WindowFacts
<1>2. \A i \in 1..Len(Window(l)) : Window(l)[i] = l[(Len(l) - Len(Window(l))) + i]
  BY WindowFacts
<1> QED
  BY <1>1, <1>2

\* The newest places after an append are those of the newest before it.
LEMMA WindowAppend ==
    ASSUME NEW l \in Seq(Slot), NEW e \in Slot
    PROVE  Window(Append(l, e)) = Window(Append(Window(l), e))
<1> DEFINE w == Window(l)
           a == Append(l, e)
           b == Append(w, e)
<1>1. /\ w \in Seq(Slot) /\ Len(w) \in Nat /\ Len(w) <= Keep /\ Len(w) <= Len(l)
      /\ Len(l) <= Keep => w = l
      /\ Len(l) >= Keep => Len(w) = Keep
      /\ \A i \in 1..Len(w) : w[i] = l[(Len(l) - Len(w)) + i]
      /\ Len(l) \in Nat /\ Keep \in Nat /\ Keep > 0
  BY WindowFacts, SeqLen, Constants
<1>2. CASE Len(l) <= Keep
  BY <1>1, <1>2
<1>3. CASE Len(l) > Keep
  <2>1. /\ a \in Seq(Slot) /\ Len(a) = Len(l) + 1 /\ a[Len(l) + 1] = e
        /\ \A i \in 1..Len(l) : a[i] = l[i]
    BY AppendFacts
  <2>2. /\ b \in Seq(Slot) /\ Len(b) = Keep + 1 /\ b[Keep + 1] = e
        /\ \A i \in 1..Keep : b[i] = w[i]
    BY <1>1, <1>3, AppendFacts
  <2> HIDE DEF a, b
  <2>3. /\ Window(a) \in Seq(Slot) /\ Len(Window(a)) = Keep
        /\ \A i \in 1..Keep : Window(a)[i] = a[(Len(a) - Keep) + i]
    <3>1. Len(a) >= Keep
      BY <1>1, <1>3, <2>1
    <3> QED
      BY <2>1, <3>1, FullWindow
  <2>4. /\ Window(b) \in Seq(Slot) /\ Len(Window(b)) = Keep
        /\ \A i \in 1..Keep : Window(b)[i] = b[(Len(b) - Keep) + i]
    <3>1. Len(b) >= Keep
      BY <1>1, <2>2
    <3> QED
      BY <2>2, <3>1, FullWindow
  <2> HIDE DEF w
  <2>5. \A i \in 1..Keep : Window(a)[i] = Window(b)[i]
    <3> SUFFICES ASSUME NEW i \in 1..Keep PROVE Window(a)[i] = Window(b)[i]
      OBVIOUS
    <3>1. /\ (Len(a) - Keep) + i = (Len(l) - Keep) + (i + 1)
          /\ (Len(b) - Keep) + i = i + 1
      BY <1>1, <2>1, <2>2
    <3>2. CASE i = Keep
      <4>1. (Len(l) - Keep) + (i + 1) = Len(l) + 1
        BY <1>1, <3>2
      <4> QED
        BY <2>1, <2>2, <2>3, <2>4, <3>1, <3>2, <4>1
    <3>3. CASE i < Keep
      <4>1. i + 1 \in 1..Keep /\ (Len(l) - Keep) + (i + 1) \in 1..Len(l)
        BY <1>1, <1>3, <3>3
      <4>2. w[i + 1] = l[(Len(l) - Keep) + (i + 1)]
        BY <1>1, <1>3, <4>1
      <4> QED
        BY <2>1, <2>2, <2>3, <2>4, <3>1, <4>1, <4>2
    <3> QED
      BY <1>1, <3>2, <3>3
  <2>6. Window(a) = Window(b)
    BY <2>3, <2>4, <2>5, SameSeq
  <2> QED
    BY <2>6 DEF a, b, w
<1> QED
  BY <1>1, <1>2, <1>3

\* The log operations of HistoryLog, on views.
OneLog(fl, fm, c) ==
    /\ \A d \in Convs : d # c => View(fm, d) = View(fl, d)
    /\ \/ \E e \in Adds(c) : View(fm, c) = Log!Newest(Append(View(fl, c), e))
       \/ View(fm, c) = Log!Tidied(View(fl, c))
       \/ View(fm, c) = Log!Marked(Log!Tidied(View(fl, c)))

\* What a command, completed or cut short, does to the logs.
Seen(fl, cmd, x) ==
    LET fm == Put(fl, cmd.r, cmd.s, x)
    IN  Same(fl, fm) \/ \E c \in Convs : OneLog(fl, fm, c)

\* A cut-short or completed command in region r, with the flash it leaves.
Touched(fl, fm, n, r, s, x) ==
    /\ FlashInv(fl, n) /\ DirInv(fl) /\ FlashInv(fm, n) /\ DirInv(fm)
    /\ x \in Sector /\ fm = Put(fl, r, s, x)
    /\ Elsewhere(fl, fm, r) /\ fm[r][s] = x /\ fm[r][1 - s] = fl[r][1 - s]

LEMMA TouchedFacts ==
    ASSUME NEW n \in Nat, NEW fl, FlashInv(fl, n), DirInv(fl), NEW r \in Regions, NEW s \in Sectors,
           NEW cmd, cmd.r = r, cmd.s = s, HeadOK(fl, n, cmd), NEW x \in Partial(fl[r][s], cmd)
    PROVE  Touched(fl, Put(fl, r, s, x), n, r, s, x)
<1>1. FlashInv(Put(fl, r, s, x), n) /\ DirInv(Put(fl, r, s, x)) /\ x \in Sector
  BY Touch
<1>2. /\ Elsewhere(fl, Put(fl, r, s, x), r) /\ Put(fl, r, s, x)[r][s] = x
      /\ Put(fl, r, s, x)[r][1 - s] = fl[r][1 - s]
  BY <1>1, PutElsewhere
<1> QED
  BY <1>1, <1>2 DEF Touched

LEMMA NothingSeen ==
    ASSUME NEW n, NEW fl, FlashInv(fl, n), NEW r \in Regions, NEW s \in Sectors,
           NEW cmd, cmd.r = r, cmd.s = s, NEW x, x = fl[r][s]
    PROVE  Seen(fl, cmd, x)
<1>1. Put(fl, r, s, x) = fl
  BY PutNothing
<1> QED
  BY <1>1, Zenon DEF Seen, Same

\* An active sector that is not touched, beside one that stays or becomes
\* unclaimed: readers see no difference.
LEMMA SpareSeen ==
    ASSUME NEW n \in Nat, NEW fl, NEW fm, NEW r \in Regions, NEW s \in Sectors, NEW x,
           Touched(fl, fm, n, r, 1 - s, x), s \in Active(fl, r), x.conv = NoConv
    PROVE  Same(fl, fm)
<1>1. 1 - s \in Sectors /\ 1 - s # s /\ 1 - (1 - s) = s
  BY SectorPair
<1>2. Claimed(fl, r, s) /\ fl[r][s].conv \in Convs
  <2>1. Claimed(fl, r, s)
    BY ActiveFacts
  <2> QED
    BY <2>1, FlashFacts DEF Touched
<1>3. fm[r][s] = fl[r][s] /\ fm[r][1 - s].conv = NoConv
  BY <1>1 DEF Touched
<1>4. s \in Active(fm, r)
  BY <1>2, <1>3, ActiveFacts DEF Claimed
<1> QED
  BY <1>2, <1>3, <1>4, ViewSame DEF Touched

LEMMA EraseSeen ==
    ASSUME NEW n \in Nat, NEW fl, FlashInv(fl, n), DirInv(fl), NEW r \in Regions, NEW s \in Sectors,
           s \in Active(fl, r), NEW cmd, cmd = Erase(r, 1 - s),
           NEW x \in Partial(fl[r][1 - s], cmd)
    PROVE  Seen(fl, cmd, x)
<1> DEFINE u == 1 - s
           fm == Put(fl, r, u, x)
<1>1. u \in Sectors
  BY SectorPair
<1>2. cmd.r = r /\ cmd.s = u /\ x \in {fl[r][u], Junk, Erased}
  BY EraseFacts
<1>3. CASE x = fl[r][u]
  BY <1>1, <1>2, <1>3, NothingSeen
<1>4. CASE x.conv = NoConv
  <2>1. HeadOK(fl, n, cmd)
    BY <1>1, Zenon DEF HeadOK
  <2>2. Touched(fl, fm, n, r, u, x)
    BY <1>1, <1>2, <2>1, TouchedFacts
  <2>3. Same(fl, fm)
    BY <1>4, <2>2, SpareSeen
  <2> QED
    BY <1>2, <2>3, Zenon DEF Seen
<1> QED
  BY <1>2, <1>3, <1>4, ErasedFacts

LEMMA WriteSeen ==
    ASSUME NEW n \in Nat, NEW fl, FlashInv(fl, n), DirInv(fl), NEW td,
           NEW r \in Regions, NEW s \in Sectors, NEW e \in Pending(fl, n),
           WritePlan(fl, td, r, s, e), NEW x \in Partial(fl[r][s], td[1])
    PROVE  Seen(fl, td[1], x)
<1> DEFINE cmd == td[1]
           fm == Put(fl, r, s, x)
           c == e.conv
           l == fl[r][s].slots
<1>1. td = <<Write(r, s, e)>> /\ s \in Active(fl, r) /\ fl[r][s].conv = c
  BY Zenon DEF WritePlan
<1>2. cmd = Write(r, s, e)
  BY <1>1
<1> HIDE DEF cmd
<1>3. /\ cmd.r = r /\ cmd.s = s
      /\ \/ x = fl[r][s]
         \/ \E y \in {e, Torn, Garbage} : x = [fl[r][s] EXCEPT !.slots = Append(@, y)]
  BY <1>2, WriteFacts DEF cmd
<1>4. HeadOK(fl, n, cmd)
  BY WriteStep DEF PlanStep, cmd
<1>5. c \in Convs /\ e \in Adds(c) /\ e \in Slot
  BY PendingFacts
<1>6. ASSUME NEW y \in {e, Torn, Garbage}, x = [fl[r][s] EXCEPT !.slots = Append(@, y)]
      PROVE  OneLog(fl, fm, c)
  <2>1. Touched(fl, fm, n, r, s, x)
    BY <1>3, <1>4, TouchedFacts DEF cmd
  <2>2. y \in Adds(c) /\ y \in Slot
    BY <1>5, <1>6, SlotFacts
  <2>3. fl[r][s] \in Sector /\ l \in Seq(Slot)
    BY FlashFacts
  <2>4. x.conv = fl[r][s].conv /\ x.gen = fl[r][s].gen /\ x.slots = Append(l, y)
    <3> DEFINE k == Append(l, y)
               sec == fl[r][s]
    <3>1. k \in Seq(Slot) /\ x = [sec EXCEPT !.slots = k]
      BY <1>6, <2>2, <2>3, AppendFacts
    <3> HIDE DEF k, sec
    <3>2. x.conv = sec.conv /\ x.gen = sec.gen /\ x.slots = k
      BY <2>3, <3>1, WithSlots DEF sec
    <3> QED
      BY <3>2 DEF k, sec
  <2> HIDE DEF fm
  <2>5. Active(fm, r) = Active(fl, r)
    <3>1. \A t \in Sectors : fm[r][t].conv = fl[r][t].conv /\ fm[r][t].gen = fl[r][t].gen
      BY <2>1, <2>4, SectorPair DEF Touched
    <3> QED
      BY <3>1, ActiveSame
  <2>6. /\ View(fl, c) = Window(l) /\ View(fm, c) = Window(Append(l, y))
        /\ \A d \in Convs : d # c => View(fm, d) = View(fl, d)
    <3>1. fm[r][s].conv = c /\ fm[r][s].slots = Append(l, y) /\ s \in Active(fm, r)
      BY <1>1, <2>1, <2>4, <2>5 DEF Touched
    <3>2. /\ View(fl, c) = Window(fl[r][s].slots) /\ View(fm, c) = Window(fm[r][s].slots)
          /\ \A d \in Convs : d # c => View(fm, d) = View(fl, d)
      <4>1. DirInv(fl) /\ DirInv(fm) /\ Elsewhere(fl, fm, r)
        BY <2>1 DEF Touched
      <4>2. /\ s \in Active(fl, r) /\ s \in Active(fm, r) /\ c \in Convs
            /\ fl[r][s].conv = c /\ fm[r][s].conv = c
        BY <1>1, <1>5, <3>1
      <4> HIDE DEF c, l
      <4> QED
        BY <4>1, <4>2, ViewChanged
    <3> QED
      BY <3>1, <3>2
  <2>7. Window(Append(l, y)) = Log!Newest(Append(Window(l), y))
    <3>1. Window(Append(l, y)) = Window(Append(Window(l), y))
      BY <2>2, <2>3, WindowAppend
    <3>2. \A v : Window(v) = Log!Newest(v)
      BY Zenon DEF Window, Log!Newest
    <3> QED
      BY <3>1, <3>2
  <2> HIDE DEF l
  <2> QED
    BY <2>2, <2>6, <2>7, Zenon DEF OneLog
<1>7. CASE x = fl[r][s]
  BY <1>3, <1>7, NothingSeen DEF cmd
<1>8. CASE \E y \in {e, Torn, Garbage} : x = [fl[r][s] EXCEPT !.slots = Append(@, y)]
  <2>1. OneLog(fl, fm, c)
    BY <1>6, <1>8
  <2>2. Seen(fl, cmd, x)
    BY <1>3, <1>5, <2>1, Zenon DEF Seen
  <2> QED
    BY <2>2 DEF cmd
<1> QED
  BY <1>3, <1>7, <1>8

LEMMA ClaimSeen ==
    ASSUME NEW n \in Nat, NEW fl, FlashInv(fl, n), DirInv(fl), NEW td,
           NEW r \in Regions, NEW e \in Pending(fl, n), ClaimPlan(fl, td, r, e),
           NEW x \in Partial(fl[td[1].r][td[1].s], td[1])
    PROVE  Seen(fl, td[1], x)
<1> DEFINE cmd == td[1]
           c == e.conv
<1>1. /\ \A q \in Regions, t \in Sectors : fl[q][t].conv # c
      /\ fl[r][0].conv = NoConv /\ fl[r][1].conv = NoConv
      /\ \/ td = <<Erase(r, 0), Erase(r, 1), Header(r, 0, c, 0), Write(r, 0, e)>>
         \/ /\ td = <<Erase(r, 1), Header(r, 0, c, 0), Write(r, 0, e)>>
            /\ fl[r][0] = Erased
         \/ /\ td = <<Header(r, 0, c, 0), Write(r, 0, e)>>
            /\ fl[r][0] = Erased
  BY Zenon DEF ClaimPlan
<1>2. HeadOK(fl, n, cmd)
  BY ClaimStep DEF PlanStep
<1>3. c \in Convs /\ c # NoConv
  BY PendingFacts, Constants
<1>4. \/ cmd = Erase(r, 0) \/ cmd = Erase(r, 1)
      \/ cmd = Header(r, 0, c, 0) /\ fl[r][0] = Erased
  BY <1>1
<1>5. /\ 0 \in Sectors /\ 1 \in Sectors /\ \A t \in Sectors : t = 0 \/ t = 1
      /\ 1 - 0 = 1 /\ 1 - 1 = 0
  BY DEF Sectors
<1>6. Active(fl, r) = {}
  BY <1>1, <1>5, ActiveFacts DEF Claimed
<1>7. ASSUME NEW s \in Sectors, cmd = Erase(r, s) PROVE Seen(fl, cmd, x)
  <2>1. cmd.r = r /\ cmd.s = s /\ x \in {fl[r][s], Junk, Erased}
    BY <1>7, EraseFacts
  <2> DEFINE fm == Put(fl, r, s, x)
  <2>2. Touched(fl, fm, n, r, s, x)
    BY <1>2, <2>1, TouchedFacts
  <2>3. x.conv = NoConv
    <3>1. fl[r][s].conv = NoConv
      BY <1>1, <1>5
    <3> QED
      BY <2>1, <3>1, ErasedFacts
  <2> HIDE DEF fm
  <2>4. \A t \in Sectors : fm[r][t].conv = NoConv
    BY <1>1, <1>5, <2>2, <2>3 DEF Touched
  <2>5. Active(fm, r) = {}
    BY <2>4, ActiveFacts DEF Claimed
  <2>6. Same(fl, fm)
    BY <1>6, <2>2, <2>5, ViewUnclaimed DEF Touched
  <2> QED
    BY <2>1, <2>6, Zenon DEF Seen, fm
<1>8. ASSUME cmd = Header(r, 0, c, 0), fl[r][0] = Erased PROVE Seen(fl, cmd, x)
  <2>1. cmd.r = r /\ cmd.s = 0 /\ (x = fl[r][0] \/ x = Headed(fl[r][0], c, 0))
    BY <1>8, HeaderFacts
  <2> DEFINE fm == Put(fl, r, 0, x)
  <2>2. Touched(fl, fm, n, r, 0, x)
    BY <1>2, <1>5, <2>1, TouchedFacts
  <2>3. CASE x = fl[r][0]
    BY <1>5, <2>1, <2>3, NothingSeen
  <2>4. CASE x = Headed(fl[r][0], c, 0)
    <3>1. x.conv = c /\ x.slots = <<>>
      <4>1. Erased \in Sector /\ Erased.slots = <<>> /\ 0 \in Gens
        BY ErasedFacts, Constants DEF Gens
      <4> QED
        BY <1>3, <1>8, <2>4, <4>1, WithHeader
    <3> HIDE DEF fm
    <3>2. fm[r][0] = x /\ fm[r][1] = fl[r][1]
      BY <1>5, <2>2 DEF Touched
    <3>3. Active(fm, r) = {0}
      BY <1>1, <1>3, <1>5, <3>1, <3>2, ActiveFacts DEF Claimed
    <3>4. Same(fl, fm)
      <4>1. \A t \in Active(fm, r) : /\ fm[r][t].slots = <<>> /\ fm[r][t].conv \in Convs
                                     /\ \A q \in Regions, z \in Sectors : fl[q][z].conv # fm[r][t].conv
        BY <1>1, <1>3, <3>1, <3>2, <3>3
      <4> QED
        BY <1>6, <2>2, <4>1, ViewUnclaimed DEF Touched
    <3> QED
      BY <2>1, <3>4, Zenon DEF Seen, fm
  <2> QED
    BY <2>1, <2>3, <2>4
<1> QED
  BY <1>4, <1>5, <1>7, <1>8

LEMMA CopySeen ==
    ASSUME NEW n \in Nat, NEW fl, FlashInv(fl, n), DirInv(fl), NEW td \in Seq(Cmds),
           NEW r \in Regions, NEW s \in Sectors, NEW live \in Copies(fl[r][s].slots),
           NEW extra \in Extras(fl, n, fl[r][s].conv), NEW k \in 0..Keep,
           CopyPlan(fl, td, r, s, live, k, extra),
           NEW x \in Partial(fl[td[1].r][td[1].s], td[1])
    PROVE  Seen(fl, td[1], x)
<1> DEFINE cmd == td[1]
           u == 1 - s
           c == fl[r][s].conv
           g == (fl[r][s].gen + 1) % GenMod
           l == fl[r][s].slots
           fm == Put(fl, r, u, x)
<1>1. /\ s \in Active(fl, r) /\ Claimed(fl, r, s) /\ c \in Convs
      /\ fl[r][u].conv = NoConv /\ k <= Len(live) /\ Len(fl[r][u].slots) = k
      /\ \A i \in 1..k : fl[r][u].slots[i] = live[i]
      /\ live \in Seq(Slot) /\ Len(live) \in Nat /\ Len(live) <= Keep
      /\ k < Len(live) => cmd = Write(r, u, live[k + 1])
      /\ k = Len(live) => cmd = Header(r, u, c, g)
      /\ td # <<>>
  BY CopyPlanFacts
<1>2. u \in Sectors /\ u # s /\ 1 - u = s
  BY SectorPair
<1>3. HeadOK(fl, n, cmd)
  <2>1. Plan(fl, n, td)
    BY Zenon DEF Plan
  <2> QED
    BY <1>1, <2>1, PlanGoesOn DEF PlanStep
<1>4. CASE k < Len(live)
  <2>1. cmd = Write(r, u, live[k + 1])
    BY <1>1, <1>4
  <2>2. /\ cmd.r = r /\ cmd.s = u
        /\ \/ x = fl[r][u]
           \/ \E y \in {live[k + 1], Torn, Garbage} : x = [fl[r][u] EXCEPT !.slots = Append(@, y)]
    <3> DEFINE e == live[k + 1]
    <3>1. cmd = Write(r, u, e)
      BY <2>1
    <3> HIDE DEF e, cmd
    <3>2. cmd.r = r /\ cmd.s = u
      BY <3>1 DEF Write
    <3>3. x \in Partial(fl[r][u], cmd)
      BY <3>2 DEF cmd
    <3>4. x = fl[r][u] \/ \E y \in {e, Torn, Garbage} : x = [fl[r][u] EXCEPT !.slots = Append(@, y)]
      BY <3>1, <3>3, WriteFacts
    <3> QED
      BY <3>2, <3>4 DEF e
  <2>3. Touched(fl, fm, n, r, u, x)
    BY <1>2, <1>3, <2>2, TouchedFacts
  <2>4. x.conv = NoConv
    <3>1. fl[r][u] \in Sector /\ fl[r][u].slots \in Seq(Slot)
      BY <1>2, FlashFacts
    <3>2. ASSUME NEW y, x = [fl[r][u] EXCEPT !.slots = Append(@, y)] PROVE x.conv = fl[r][u].conv
      BY <3>1, <3>2 DEF Sector
    <3> QED
      BY <1>1, <2>2, <3>2
  <2>5. Same(fl, fm)
    BY <1>1, <2>3, <2>4, SpareSeen
  <2> QED
    BY <2>2, <2>5, Zenon DEF Seen
<1>5. CASE k = Len(live)
  <2>1. cmd = Header(r, u, c, g)
    BY <1>1, <1>5
  <2>2. /\ cmd.r = r /\ cmd.s = u /\ (x = fl[r][u] \/ x = Headed(fl[r][u], c, g))
    BY <2>1, HeaderFacts
  <2>3. CASE x = fl[r][u]
    BY <1>2, <2>2, <2>3, NothingSeen
  <2>4. CASE x = Headed(fl[r][u], c, g)
    <3>1. Touched(fl, fm, n, r, u, x)
      BY <1>2, <1>3, <2>2, TouchedFacts
    <3>2. /\ fl[r][u] \in Sector /\ fl[r][u].slots \in Seq(Slot) /\ fl[r][s].gen \in Gens
          /\ g \in Gens /\ l \in Seq(Slot)
      BY <1>2, FlashFacts, NewerFact
    <3>3. x.conv = c /\ x.gen = g /\ x.slots = fl[r][u].slots
      BY <1>1, <2>4, <3>2, WithHeader
    <3> HIDE DEF fm, g
    <3>4. fm[r][u] = x /\ fm[r][s] = fl[r][s]
      BY <1>2, <3>1 DEF Touched
    <3>5. u \in Active(fm, r)
      <4>1. Claimed(fm, r, s) /\ Claimed(fm, r, u)
        BY <1>1, <3>3, <3>4, Constants DEF Claimed
      <4> QED
        BY <3>2, <3>3, <3>4, <4>1, ActiveNext DEF g
    <3>6. /\ View(fl, c) = Window(l) /\ View(fm, c) = Window(fm[r][u].slots)
          /\ \A d \in Convs : d # c => View(fm, d) = View(fl, d)
      BY <1>1, <3>1, <3>3, <3>4, <3>5, ViewChanged DEF Touched
    <3>7. fm[r][u].slots = live
      BY <1>1, <1>5, <3>2, <3>3, <3>4, SameSeq
    <3>8. Window(live) = live
      BY <1>1, WindowFacts
    <3>9. Live(l) = Log!Tidied(Window(l))
      BY Zenon DEF Live, Log!Tidied
    <3>10. View(fm, c) = Log!Tidied(View(fl, c)) \/ View(fm, c) = Log!Marked(Log!Tidied(View(fl, c)))
      <4>1. live = Live(l) \/ live = Log!Marked(Live(l))
        BY Zenon DEF Copies
      <4> HIDE DEF l
      <4> QED
        BY <3>6, <3>7, <3>8, <3>9, <4>1
    <3>11. OneLog(fl, fm, c)
      BY <3>6, <3>10, Zenon DEF OneLog
    <3> QED
      BY <1>1, <2>2, <3>11, Zenon DEF Seen, fm
  <2> QED
    BY <2>2, <2>3, <2>4
<1> QED
  BY <1>1, <1>4, <1>5

\* No command of a plan changes more than one log, and that one by one
\* operation of HistoryLog.
LEMMA PlanSeen ==
    ASSUME NEW n \in Nat, NEW fl, FlashInv(fl, n), DirInv(fl), NEW td \in Seq(Cmds),
           Plan(fl, n, td), td # <<>>, NEW x \in Partial(fl[td[1].r][td[1].s], td[1])
    PROVE  Seen(fl, td[1], x)
<1>1. ASSUME NEW r \in Regions, NEW s \in Sectors, NEW e \in Pending(fl, n), WritePlan(fl, td, r, s, e)
      PROVE  Seen(fl, td[1], x)
  <2>1. td[1] = Write(r, s, e)
    BY <1>1 DEF WritePlan
  <2>2. x \in Partial(fl[r][s], td[1])
    BY <2>1, WriteFacts
  <2> QED
    BY <1>1, <2>2, WriteSeen
<1>2. ASSUME NEW r \in Regions, NEW e \in Pending(fl, n), ClaimPlan(fl, td, r, e)
      PROVE  Seen(fl, td[1], x)
  BY <1>2, ClaimSeen
<1>3. ASSUME NEW r \in Regions, NEW s \in Sectors, NEW live \in Copies(fl[r][s].slots),
             NEW extra \in Extras(fl, n, fl[r][s].conv), EraseFirstPlan(fl, td, r, s, live, extra)
      PROVE  Seen(fl, td[1], x)
  <2>1. td[1] = Erase(r, 1 - s) /\ s \in Active(fl, r)
    BY <1>3, Zenon DEF EraseFirstPlan
  <2>2. x \in Partial(fl[r][1 - s], td[1])
    BY <2>1, EraseFacts
  <2> QED
    BY <2>1, <2>2, EraseSeen
<1>4. ASSUME NEW r \in Regions, NEW s \in Sectors, NEW live \in Copies(fl[r][s].slots),
             NEW extra \in Extras(fl, n, fl[r][s].conv), NEW k \in 0..Keep,
             CopyPlan(fl, td, r, s, live, k, extra)
      PROVE  Seen(fl, td[1], x)
  BY <1>4, CopySeen
<1>5. ASSUME NEW r \in Regions, NEW s \in Sectors, NEW extra \in Extras(fl, n, fl[r][1 - s].conv),
             HandOffPlan(fl, td, r, s, extra)
      PROVE  Seen(fl, td[1], x)
  <2>1. td[1] = Erase(r, s) /\ 1 - s \in Active(fl, r)
    BY <1>5, Zenon DEF HandOffPlan, HandOff
  <2>2. x \in Partial(fl[r][s], td[1])
    BY <2>1, EraseFacts
  <2>3. 1 - s \in Sectors /\ 1 - (1 - s) = s
    BY SectorPair
  <2> DEFINE u == 1 - s
  <2> HIDE DEF u
  <2>4. u \in Sectors /\ 1 - u = s /\ u \in Active(fl, r)
    BY <2>1, <2>3 DEF u
  <2> QED
    BY <2>1, <2>2, <2>4, EraseSeen
<1> QED
  BY <1>1, <1>2, <1>3, <1>4, <1>5, Zenon DEF Plan

\* What readers are shown of a sound flash.
LEMMA ViewOK ==
    ASSUME NEW n, NEW fl, FlashInv(fl, n), DirInv(fl), NEW c \in Convs
    PROVE  /\ Len(View(fl, c)) <= Keep
           /\ \A i \in 1..Len(View(fl, c)) : View(fl, c)[i] \in Adds(c)
<1>1. CASE \A q \in Regions, t \in Sectors : fl[q][t].conv # c
  <2>1. View(fl, c) = <<>>
    BY <1>1, ViewNone
  <2> QED
    BY <2>1, Constants
<1>2. ASSUME NEW r \in Regions, NEW s \in Sectors, s \in Active(fl, r), fl[r][s].conv = c
      PROVE  /\ Len(View(fl, c)) <= Keep
             /\ \A i \in 1..Len(View(fl, c)) : View(fl, c)[i] \in Adds(c)
  <2> DEFINE l == fl[r][s].slots
             w == Window(l)
  <2>1. View(fl, c) = w
    BY <1>2, ViewIs
  <2>2. l \in Seq(Slot) /\ \A i \in 1..Len(l) : l[i] \in Adds(c)
    BY <1>2, FlashFacts, Constants DEF Claimed
  <2> HIDE DEF l
  <2>3. /\ Len(w) <= Keep
        /\ \A i \in 1..Len(w) : /\ (Len(l) - Len(w)) + i \in 1..Len(l)
                                /\ w[i] = l[(Len(l) - Len(w)) + i]
    BY <2>2, WindowFacts
  <2> QED
    BY <2>1, <2>2, <2>3
<1> QED
  BY <1>1, <1>2, OwnFacts

\* Erasing a sector, whichever it is, touches at most one log.
LEMMA ClearSeen ==
    ASSUME NEW n \in Nat, NEW fl, FlashInv(fl, n), DirInv(fl), NEW r \in Regions, NEW s \in Sectors,
           NEW cmd, cmd = Erase(r, s), NEW x \in Partial(fl[r][s], cmd), NEW fm, fm = Put(fl, r, s, x)
    PROVE  Same(fl, fm) \/ \E c \in Convs : \A d \in Convs : d # c => View(fm, d) = View(fl, d)
<1>1. cmd.r = r /\ cmd.s = s /\ x \in {fl[r][s], Junk, Erased}
  BY EraseFacts
<1>2. HeadOK(fl, n, cmd)
  BY Zenon DEF HeadOK
<1>3. Touched(fl, fm, n, r, s, x)
  BY <1>1, <1>2, TouchedFacts
<1>4. \A t \in Sectors : fm[r][t].conv = NoConv \/ fm[r][t].conv = fl[r][t].conv
  BY <1>1, <1>3, SectorPair, ErasedFacts DEF Touched
<1>5. CASE Active(fl, r) = {}
  <2>1. \A t \in Sectors : fm[r][t].conv = NoConv
    BY <1>4, <1>5, RegionNone
  <2>2. Active(fm, r) = {}
    BY <2>1, ActiveFacts DEF Claimed
  <2> QED
    BY <1>3, <1>5, <2>2, ViewUnclaimed DEF Touched
<1>6. ASSUME NEW a \in Active(fl, r)
      PROVE  \E c \in Convs : \A d \in Convs : d # c => View(fm, d) = View(fl, d)
  <2> DEFINE c == fl[r][a].conv
  <2>1. a \in Sectors /\ Claimed(fl, r, a)
    BY ActiveFacts
  <2>2. c \in Convs
    BY <2>1, FlashFacts
  <2>3. ASSUME NEW d \in Convs, d # c PROVE View(fm, d) = View(fl, d)
    <3>1. \A t \in Sectors : fl[r][t].conv # d /\ fm[r][t].conv # d
      BY <1>4, <2>3, RegionConv, Constants
    <3> QED
      BY <1>3, <3>1, ViewElsewhere DEF Touched
  <2> QED
    BY <2>2, <2>3
<1> QED
  BY <1>5, <1>6

-----------------------------------------------------------------------------
(***************************************************************************)
(* The regions implement the log.                                          *)
(***************************************************************************)
LEMMA PlacesView ==
    /\ \A c : Places(c) = View(flash, c)
    /\ \A c : Places(c)' = View(flash', c)
  BY Zenon DEF Places, View, ClaimedBy, Active, ActiveOf, Claimed

\* The mapped state, before and after a step.
Mapped(fl) == [c \in Convs |-> View(fl, c)]

LEMMA MappedFacts ==
    /\ [c \in Convs |-> Places(c)] = Mapped(flash)
    /\ [c \in Convs |-> Places(c)]' = Mapped(flash')
  BY PlacesView, Zenon DEF Mapped

LEMMA LogSame ==
    ASSUME Same(flash, flash')
    PROVE  /\ (op' = "clear" <=> op = "clear") => UNCHANGED Log!logVars
           /\ (op' = "clear" <=> op # "clear") => Log!LogNext
<1>1. Mapped(flash') = Mapped(flash)
  BY DEF Same, Mapped
<1>2. [c \in Convs |-> Places(c)]' = [c \in Convs |-> Places(c)]
  BY <1>1, MappedFacts
<1>3. (op' = "clear" <=> op = "clear") => UNCHANGED Log!logVars
  BY <1>2 DEF Log!logVars
<1>4. (op' = "clear" <=> op # "clear") => Log!LogClear
  BY <1>2 DEF Log!LogClear
<1> QED
  BY <1>3, <1>4 DEF Log!LogNext

LEMMA LogOperates ==
    ASSUME NEW c \in Convs, OneLog(flash, flash', c), op # "clear", op' # "clear"
    PROVE  Log!LogNext
<1> DEFINE l == View(flash', c)
           log == Mapped(flash)
<1>1. Mapped(flash') = [log EXCEPT ![c] = l]
  BY DEF Mapped, OneLog
<1>2. log[c] = View(flash, c)
  BY DEF Mapped
<1>3. Adds(c) = Log!Additions(c)
  BY Zenon DEF Adds, Log!Additions
<1>4. l \in {Log!Newest(Append(log[c], e)) : e \in Log!Additions(c)}
              \cup {Log!Tidied(log[c]), Log!Marked(Log!Tidied(log[c]))}
  BY <1>2, <1>3, Zenon DEF OneLog
<1> HIDE DEF l, log
<1>5. /\ [d \in Convs |-> Places(d)] = log
      /\ [d \in Convs |-> Places(d)]' = [log EXCEPT ![c] = l]
  BY <1>1, MappedFacts DEF log
<1>6. Log!LogOperation(c)
  BY <1>4, <1>5 DEF Log!LogOperation
<1> QED
  BY <1>6 DEF Log!LogNext

LEMMA LogErases ==
    ASSUME NEW n, FlashInv(flash', n), DirInv(flash'), op = "clear",
           NEW c \in Convs, \A d \in Convs : d # c => View(flash', d) = View(flash, d)
    PROVE  Log!LogNext
<1> DEFINE l == View(flash', c)
           log == Mapped(flash)
<1>1. Mapped(flash') = [log EXCEPT ![c] = l]
  BY DEF Mapped
<1>2. Mapped(flash')[c] = l
  BY DEF Mapped
<1>3. Len(l) <= Keep /\ \A i \in 1..Len(l) : l[i] \in Log!Additions(c)
  <2>1. Adds(c) = Log!Additions(c)
    BY Zenon DEF Adds, Log!Additions
  <2> QED
    BY <2>1, ViewOK
<1> HIDE DEF l, log
<1>4. /\ [d \in Convs |-> Places(d)] = log
      /\ [d \in Convs |-> Places(d)]' = [log EXCEPT ![c] = l]
      /\ [d \in Convs |-> Places(d)]'[c] = l
  BY <1>1, <1>2, MappedFacts DEF log
<1>5. Log!LogErase(c)
  BY <1>3, <1>4 DEF Log!LogErase
<1> QED
  BY <1>5 DEF Log!LogNext

LEMMA LogInitially == Init => Log!LogInit
<1> SUFFICES ASSUME Init PROVE Log!LogInit
  OBVIOUS
<1>1. flash = [r \in Regions |-> [s \in Sectors |-> Junk]] /\ op = "idle"
  BY DEF Init
<1>2. \A r \in Regions, s \in Sectors : flash[r][s].conv = NoConv
  <2>1. Junk.conv = NoConv
    BY DEF Junk
  <2> QED
    BY <1>1, <2>1
<1>3. \A c \in Convs : View(flash, c) = <<>>
  BY <1>2, Constants, ViewNone
<1>4. [c \in Convs |-> Places(c)] = [c \in Convs |-> <<>>]
  BY <1>3, PlacesView
<1> QED
  BY <1>1, <1>4 DEF Log!LogInit

\* The effect of a command, completed or cut short, on the log.
LEMMA CommandLog ==
    ASSUME IInv, todo # <<>>, NEW x \in Partial(flash[todo[1].r][todo[1].s], todo[1]),
           flash' = Put(flash, todo[1].r, todo[1].s, x), op' \in {op, "idle"}
    PROVE  Log!LogNext \/ UNCHANGED Log!logVars
<1> DEFINE n == Len(appended)
           cmd == todo[1]
<1>1. /\ HeadOK(flash, n, cmd) /\ n \in Nat /\ FlashInv(flash, n) /\ DirInv(flash) /\ todo \in Seq(Cmds)
      /\ op = "clear" => \E r \in Regions, s \in Sectors : cmd = Erase(r, s)
      /\ op # "clear" => Plan(flash, n, todo)
  BY HeadFacts, IInvFacts
<1>2. FlashInv(flash', n) /\ DirInv(flash')
  BY <1>1, Touch
<1>3. (op' = "clear" <=> op = "clear") \/ (op' = "clear" <=> op # "clear")
  OBVIOUS
<1>4. CASE op # "clear"
  <2>1. op' # "clear"
    BY <1>4
  <2>2. Seen(flash, cmd, x)
    BY <1>1, <1>4, PlanSeen
  <2>3. Same(flash, flash') \/ \E c \in Convs : OneLog(flash, flash', c)
    BY <2>2, Zenon DEF Seen
  <2> QED
    BY <1>3, <1>4, <2>1, <2>3, LogSame, LogOperates
<1>5. CASE op = "clear"
  <2>1. PICK r \in Regions, s \in Sectors : cmd = Erase(r, s)
    BY <1>1, <1>5
  <2>2. cmd.r = r /\ cmd.s = s
    BY <2>1 DEF Erase
  <2>3. Same(flash, flash') \/ \E c \in Convs : \A d \in Convs : d # c => View(flash', d) = View(flash, d)
    BY <1>1, <2>1, <2>2, ClearSeen
  <2> QED
    BY <1>2, <1>3, <1>5, <2>3, LogSame, LogErases
<1> QED
  BY <1>4, <1>5

LEMMA LogStep == IInv /\ [Next]_vars => [Log!LogNext]_(Log!logVars)
<1> SUFFICES ASSUME IInv, [Next]_vars PROVE Log!LogNext \/ UNCHANGED Log!logVars
  OBVIOUS
<1>1. ASSUME flash' = flash, op # "clear" PROVE Log!LogNext \/ UNCHANGED Log!logVars
  <2>1. Same(flash, flash')
    BY <1>1 DEF Same
  <2> QED
    BY <1>1, <2>1, LogSame
<1>2. ASSUME todo = <<>> PROVE op # "clear"
  BY <1>2 DEF IInv, Counters
<1>3. ASSUME NEW o, NEW cmds, todo = <<>>, Start(o, cmds) PROVE Log!LogNext \/ UNCHANGED Log!logVars
  BY <1>1, <1>2, <1>3 DEF Start
<1>4. CASE Migrate
  BY <1>3, <1>4, Zenon DEF Migrate
<1>5. CASE MigrationDone
  BY <1>1, <1>2, <1>5 DEF MigrationDone
<1>6. ASSUME NEW c \in Convs, NEW ours \in BOOLEAN, AppendConversation(c, ours)
      PROVE  Log!LogNext \/ UNCHANGED Log!logVars
  BY <1>3, <1>6, Zenon DEF AppendConversation
<1>7. ASSUME NEW c \in Convs, MarkLastOursAcked(c) PROVE Log!LogNext \/ UNCHANGED Log!logVars
  BY <1>3, <1>7, Zenon DEF MarkLastOursAcked
<1>8. CASE ClearAll
  BY <1>3, <1>8, Zenon DEF ClearAll
<1>9. CASE Do
  <2>1. /\ todo # <<>> /\ op' \in {op, "idle"}
        /\ flash' = [flash EXCEPT ![Head(todo).r][Head(todo).s] = Done(@, Head(todo))]
    BY <1>9 DEF Do
  <2>2. Head(todo) = todo[1] /\ \A sec : Done(sec, todo[1]) \in Partial(sec, todo[1])
    BY <2>1, HeadFacts
  <2> DEFINE x == Done(flash[todo[1].r][todo[1].s], todo[1])
  <2>3. flash' = Put(flash, todo[1].r, todo[1].s, x)
    BY <2>1, <2>2 DEF Put
  <2>4. x \in Partial(flash[todo[1].r][todo[1].s], todo[1])
    BY <2>2
  <2> HIDE DEF x
  <2> QED
    BY <2>1, <2>3, <2>4, CommandLog
<1>10. ASSUME NEW reboot \in BOOLEAN, Fail(reboot) PROVE Log!LogNext \/ UNCHANGED Log!logVars
  <2>1. /\ todo # <<>> /\ op' = "idle"
        /\ \E sector \in Partial(flash[Head(todo).r][Head(todo).s], Head(todo)) :
              flash' = [flash EXCEPT ![Head(todo).r][Head(todo).s] = sector]
    BY <1>10 DEF Fail
  <2>2. Head(todo) = todo[1]
    BY <2>1, HeadFacts
  <2>3. PICK x \in Partial(flash[todo[1].r][todo[1].s], todo[1]) :
               flash' = Put(flash, todo[1].r, todo[1].s, x)
    BY <2>1, <2>2 DEF Put
  <2> QED
    BY <2>1, <2>3, CommandLog
<1>11. CASE UNCHANGED vars
  <2>1. flash' = flash /\ op' = op
    BY <1>11 DEF vars
  <2>2. Same(flash, flash')
    BY <2>1 DEF Same
  <2> QED
    BY <2>1, <2>2, LogSame
<1> QED
  BY <1>4, <1>5, <1>6, <1>7, <1>8, <1>9, <1>10, <1>11, Zenon DEF Next

\* The regions implement the log that HistoryLog promises, whatever is
\* interrupted: an append and a mark take effect at one flash command, a
\* rewrite changes nothing a reader sees but unreadable places, and only a
\* clear takes messages away (append_conversation, mark_last_ours_acked,
\* rewrite_region, clear_all).
THEOREM LogImplemented == Spec => ImplementsLog
<1>1. Init => Log!LogInit
  BY LogInitially
<1>2. IInv /\ [Next]_vars => [Log!LogNext]_(Log!logVars)
  BY LogStep
<1> QED
  BY <1>1, <1>2, Invariant, PTL DEF Spec, ImplementsLog, Log!LogSpec

-----------------------------------------------------------------------------
(***************************************************************************)
(* Spoiled places: every one is a fault's, and no two are the same one's.  *)
(***************************************************************************)
Zeros(l) == {i \in 1..Len(l) : l[i].msg = 0}

LEMMA ZerosFinite ==
    ASSUME NEW l \in Seq(Slot)
    PROVE  IsFiniteSet(Zeros(l)) /\ Cardinality(Zeros(l)) \in Nat /\ Len(l) \in Nat
<1>1. Len(l) \in Nat
  BY SeqLen
<1>2. IsFiniteSet(1..Len(l))
  BY <1>1, FS_Interval
<1>3. Zeros(l) \in SUBSET (1..Len(l))
  BY DEF Zeros
<1>4. IsFiniteSet(Zeros(l))
  BY <1>2, <1>3, FS_Subset
<1> QED
  BY <1>1, <1>4, FS_CardinalityType

LEMMA ZerosSame ==
    ASSUME NEW l, NEW k, Len(k) = Len(l), \A i \in 1..Len(l) : k[i].msg = l[i].msg
    PROVE  Zeros(k) = Zeros(l)
  BY DEF Zeros

LEMMA ZerosAppend ==
    ASSUME NEW l \in Seq(Slot), NEW e \in Slot, NEW k, k = Append(l, e)
    PROVE  /\ Cardinality(Zeros(k)) <= Cardinality(Zeros(l)) + 1
           /\ e.msg # 0 => Zeros(k) = Zeros(l)
<1>1. /\ k \in Seq(Slot) /\ Len(k) = Len(l) + 1 /\ k[Len(l) + 1] = e
      /\ \A i \in 1..Len(l) : k[i] = l[i]
  BY AppendFacts
<1>2. IsFiniteSet(Zeros(l)) /\ Cardinality(Zeros(l)) \in Nat /\ Len(l) \in Nat
  BY ZerosFinite
<1>3. \A i \in 1..Len(k) : i \in 1..Len(l) \/ i = Len(l) + 1
  BY <1>1, <1>2
<1>4. \A i \in 1..Len(l) : i \in 1..Len(k)
  BY <1>1, <1>2
<1>5. Zeros(l) \subseteq Zeros(k) /\ Zeros(k) \subseteq Zeros(l) \cup {Len(l) + 1}
  BY <1>1, <1>3, <1>4 DEF Zeros
<1>6. e.msg # 0 => Zeros(k) = Zeros(l)
  BY <1>1, <1>3, <1>5 DEF Zeros
<1>7. /\ IsFiniteSet(Zeros(l) \cup {Len(l) + 1})
      /\ Cardinality(Zeros(l) \cup {Len(l) + 1}) <= Cardinality(Zeros(l)) + 1
      /\ Cardinality(Zeros(l) \cup {Len(l) + 1}) \in Nat
  <2>1. /\ IsFiniteSet(Zeros(l) \cup {Len(l) + 1})
        /\ Cardinality(Zeros(l) \cup {Len(l) + 1}) =
              IF Len(l) + 1 \in Zeros(l) THEN Cardinality(Zeros(l)) ELSE Cardinality(Zeros(l)) + 1
    BY <1>2, FS_AddElement
  <2> QED
    BY <1>2, <2>1
<1>8. Cardinality(Zeros(k)) <= Cardinality(Zeros(l) \cup {Len(l) + 1}) /\ Cardinality(Zeros(k)) \in Nat
  BY <1>5, <1>7, FS_Subset, FS_CardinalityType
<1> QED
  BY <1>2, <1>6, <1>7, <1>8

\* An injective map into a finite set bounds the size.
LEMMA NoMore ==
    ASSUME NEW A, NEW B, IsFiniteSet(B), NEW f \in [A -> B], \A x, y \in A : f[x] = f[y] => x = y
    PROVE  IsFiniteSet(A) /\ Cardinality(A) <= Cardinality(B) /\ Cardinality(A) \in Nat
<1>1. f \in Injection(A, B)
  BY DEF Injection, IsInjective
<1>2. IsFiniteSet(A) /\ Cardinality(A) <= Cardinality(B)
  BY <1>1, FS_Injection
<1> QED
  BY <1>2, FS_CardinalityType

\* And conversely.
LEMMA FitsIn ==
    ASSUME NEW A, NEW B, IsFiniteSet(A), IsFiniteSet(B), Cardinality(A) <= Cardinality(B)
    PROVE  \E f \in [A -> B] : \A x, y \in A : f[x] = f[y] => x = y
<1> DEFINE a == Cardinality(A)
           b == Cardinality(B)
<1>1. a \in Nat /\ b \in Nat /\ ExistsBijection(1..a, A) /\ ExistsBijection(1..b, B)
  BY FS_CardinalityType
<1>2. PICK g : g \in [1..a -> A] /\ \A x \in A : \E i \in 1..a : g[i] = x
  BY <1>1 DEF ExistsBijection, Bijection, Surjection
<1>3. PICK h : h \in [1..b -> B] /\ \A i, j \in 1..b : h[i] = h[j] => i = j
  BY <1>1 DEF ExistsBijection, Bijection, Injection, IsInjective
<1> HIDE DEF a, b
<1>4. a <= b
  BY DEF a, b
<1> DEFINE at(x) == CHOOSE i \in 1..a : g[i] = x
           f == [x \in A |-> h[at(x)]]
<1>5. \A x \in A : at(x) \in 1..a /\ g[at(x)] = x
  BY <1>2
<1>6. \A x \in A : at(x) \in 1..b
  BY <1>1, <1>4, <1>5
<1> HIDE DEF at
<1>7. f \in [A -> B]
  BY <1>3, <1>6
<1>8. ASSUME NEW x \in A, NEW y \in A, f[x] = f[y] PROVE x = y
  <2>1. h[at(x)] = h[at(y)]
    BY <1>8
  <2>2. at(x) = at(y)
    BY <1>3, <1>6, <2>1
  <2> QED
    BY <1>5, <2>2
<1> QED
  BY <1>7, <1>8

LEMMA ZerosWindow ==
    ASSUME NEW slots \in Seq(Slot)
    PROVE  Cardinality(Zeros(Window(slots))) <= Cardinality(Zeros(slots))
<1> DEFINE w == Window(slots)
           d == Len(slots) - Len(w)
<1>1. /\ w \in Seq(Slot) /\ Len(w) \in Nat /\ Len(w) <= Len(slots) /\ Len(slots) \in Nat
      /\ \A i \in 1..Len(w) : d + i \in 1..Len(slots) /\ w[i] = slots[d + i]
  BY WindowFacts, SeqLen
<1> HIDE DEF w
<1>2. d \in Nat
  BY <1>1
<1>3. IsFiniteSet(Zeros(slots))
  BY ZerosFinite
<1> DEFINE f == [i \in Zeros(w) |-> d + i]
<1>4. \A i \in Zeros(w) : i \in 1..Len(w) /\ i \in Nat /\ d + i \in Zeros(slots)
  BY <1>1 DEF Zeros
<1> HIDE DEF d
<1>5. f \in [Zeros(w) -> Zeros(slots)]
  BY <1>4
<1>6. \A x, y \in Zeros(w) : f[x] = f[y] => x = y
  BY <1>2, <1>4
<1> HIDE DEF f
<1>7. Cardinality(Zeros(w)) <= Cardinality(Zeros(slots))
  BY <1>3, <1>5, <1>6, NoMore
<1> QED
  BY <1>7 DEF w

\* The spoiled items among the first m.
ZerosUpTo(w, m) == {i \in 1..m : w[i].msg = 0}

FewZeros(l, w, m) == l \in Seq(Slot) /\ Cardinality(Zeros(l)) <= Cardinality(ZerosUpTo(w, m))

LEMMA FewZerosMore ==
    ASSUME NEW w \in Seq(Slot), NEW m \in Nat, m + 1 <= Len(w), NEW l, FewZeros(l, w, m),
           NEW k, k = IF w[m + 1] = Torn THEN l ELSE Append(l, w[m + 1])
    PROVE  FewZeros(k, w, m + 1)
<1> DEFINE A == ZerosUpTo(w, m)
           B == ZerosUpTo(w, m + 1)
           e == w[m + 1]
<1>1. Len(w) \in Nat /\ e \in Slot /\ l \in Seq(Slot) /\ Cardinality(Zeros(l)) <= Cardinality(A)
  BY SeqLen DEF FewZeros
<1>2. IsFiniteSet(A) /\ IsFiniteSet(B) /\ Cardinality(A) \in Nat /\ Cardinality(B) \in Nat
  <2>1. IsFiniteSet(1..m) /\ IsFiniteSet(1..(m + 1))
    BY FS_Interval
  <2>2. A \in SUBSET (1..m) /\ B \in SUBSET (1..(m + 1))
    BY DEF ZerosUpTo
  <2>3. IsFiniteSet(A) /\ IsFiniteSet(B)
    BY <2>1, <2>2, FS_Subset
  <2> QED
    BY <2>3, FS_CardinalityType
<1>3. /\ e.msg = 0 => B = A \cup {m + 1} /\ m + 1 \notin A
      /\ e.msg # 0 => B = A
  BY DEF ZerosUpTo
<1> HIDE DEF A, B, e
<1>4. /\ e.msg = 0 => Cardinality(B) = Cardinality(A) + 1
      /\ e.msg # 0 => Cardinality(B) = Cardinality(A)
  BY <1>2, <1>3, FS_AddElement
<1>5. Cardinality(Zeros(l)) \in Nat
  BY <1>1, ZerosFinite
<1>6. CASE e = Torn
  <2>1. k = l
    BY <1>6 DEF e
  <2> QED
    BY <1>1, <1>2, <1>4, <1>5, <2>1 DEF FewZeros, A, B
<1>7. CASE e # Torn
  <2>1. k = Append(l, e)
    BY <1>7 DEF e
  <2>2. k \in Seq(Slot)
    BY <1>1, <2>1, AppendFacts
  <2>3. /\ Cardinality(Zeros(k)) <= Cardinality(Zeros(l)) + 1
        /\ e.msg # 0 => Zeros(k) = Zeros(l)
    BY <1>1, <2>1, ZerosAppend
  <2>4. Cardinality(Zeros(k)) \in Nat
    BY <2>2, ZerosFinite
  <2>5. Cardinality(Zeros(k)) <= Cardinality(B)
    BY <1>1, <1>2, <1>4, <1>5, <2>3, <2>4
  <2> QED
    BY <2>2, <2>5 DEF FewZeros, B
<1> QED
  BY <1>6, <1>7

LEMMA KeptFewZeros ==
    ASSUME NEW w \in Seq(Slot), NEW f, KeptUpTo(f, w, Torn, Len(w))
    PROVE  FewZeros(f[Len(w)], w, Len(w))
<1> DEFINE Bad == {m \in Nat : m <= Len(w) /\ ~FewZeros(f[m], w, m)}
<1>1. Len(w) \in Nat
  BY SeqLen
<1>2. SUFFICES ASSUME Bad # {} PROVE FALSE
  BY <1>1
<1>3. PICK m \in Bad : \A n \in Bad : m <= n
  <2> HIDE DEF Bad
  <2>1. Bad \in SUBSET Nat
    BY DEF Bad
  <2> QED
    BY <1>2, <2>1, LeastExists
<1>4. m \in Nat /\ m <= Len(w) /\ ~FewZeros(f[m], w, m)
  OBVIOUS
<1>5. \A n \in 0..Len(w) : f[n] = IF n = 0 THEN <<>>
                        ELSE IF w[n] = Torn THEN f[n - 1] ELSE Append(f[n - 1], w[n])
  BY DEF KeptUpTo
<1>6. m # 0
  <2>1. f[0] = <<>>
    BY <1>1, <1>5
  <2>2. <<>> \in Seq(Slot) /\ Zeros(<<>>) = {} /\ ZerosUpTo(w, 0) = {}
    BY DEF Zeros, ZerosUpTo
  <2>3. Cardinality({}) <= Cardinality({})
    BY FS_EmptySet
  <2>4. FewZeros(<<>>, w, 0)
    BY <2>2, <2>3 DEF FewZeros
  <2> QED
    BY <1>4, <2>1, <2>4
<1> DEFINE p == m - 1
<1>7. p \in Nat /\ p + 1 = m /\ p + 1 <= Len(w) /\ p \notin Bad
  BY <1>1, <1>3, <1>4, <1>6
<1>8. FewZeros(f[p], w, p)
  BY <1>1, <1>7
<1>9. f[p + 1] = IF w[p + 1] = Torn THEN f[p] ELSE Append(f[p], w[p + 1])
  BY <1>1, <1>5, <1>7
<1> HIDE DEF p
<1>10. FewZeros(f[p + 1], w, p + 1)
  BY <1>7, <1>8, <1>9, FewZerosMore
<1> QED
  BY <1>4, <1>7, <1>10

\* A rewrite copies no spoiled place twice.
LEMMA ZerosCopies ==
    ASSUME NEW slots \in Seq(Slot), NEW live \in Copies(slots)
    PROVE  Cardinality(Zeros(live)) <= Cardinality(Zeros(slots))
<1> DEFINE w == Window(slots)
           l == Live(slots)
<1>1. w \in Seq(Slot) /\ l \in Seq(Slot)
  BY WindowFacts, LiveFacts
<1>2. FewZeros(l, w, Len(w))
  BY <1>1, KeptEquation, KeptFewZeros
<1>3. live = l \/ live = Log!Marked(l)
  BY Zenon DEF Copies
<1>4. Cardinality(Zeros(w)) <= Cardinality(Zeros(slots))
  BY ZerosWindow
<1> HIDE DEF w, l
<1>5. Zeros(live) = Zeros(l)
  <2>1. CASE live = l
    BY <2>1
  <2>2. CASE live = Log!Marked(l)
    BY <1>1, <2>2, MarkedFacts, ZerosSame
  <2> QED
    BY <1>3, <2>1, <2>2
<1>6. ZerosUpTo(w, Len(w)) = Zeros(w)
  BY DEF ZerosUpTo, Zeros
<1>7. Cardinality(Zeros(l)) <= Cardinality(Zeros(w))
  BY <1>2, <1>6 DEF FewZeros
<1>8. Cardinality(Zeros(l)) \in Nat /\ Cardinality(Zeros(w)) \in Nat /\ Cardinality(Zeros(slots)) \in Nat
  BY <1>1, ZerosFinite
<1> QED
  BY <1>4, <1>5, <1>7, <1>8

\* The places spoiled in a claimed sector are at most the faults that hit its region.
Hits(hit, m, r) == {k \in 1..m : hit[k] = r}

SpoiltBy(fl, m, hit) ==
    \A r \in Regions, s \in Sectors :
        Claimed(fl, r, s) => Cardinality(Zeros(fl[r][s].slots)) <= Cardinality(Hits(hit, m, r))

SpoilInv(fl, m) == \E hit \in [1..m -> Regions] : SpoiltBy(fl, m, hit)

\* A command spoils nothing when it completes: a write to a claimed sector is of a
\* message, and a header is put over no more spoiled places than the region had.
Clean(fl, cmd) ==
    /\ cmd.cmd = "write" /\ Claimed(fl, cmd.r, cmd.s) => cmd.entry.msg # 0
    /\ cmd.cmd = "header" =>
          \/ Zeros(fl[cmd.r][cmd.s].slots) = {}
          \/ \E t \in Sectors :
                /\ Claimed(fl, cmd.r, t)
                /\ Cardinality(Zeros(fl[cmd.r][cmd.s].slots)) <= Cardinality(Zeros(fl[cmd.r][t].slots))

LEMMA CleanErase ==
    ASSUME NEW fl, NEW r, NEW s, NEW cmd, cmd = Erase(r, s)
    PROVE  Clean(fl, cmd)
<1>1. cmd.cmd = "erase"
  BY DEF Erase
<1> QED
  BY <1>1 DEF Clean

LEMMA CleanWrite ==
    ASSUME NEW fl, NEW r, NEW s, NEW e, NEW cmd, cmd = Write(r, s, e),
           Claimed(fl, r, s) => e.msg # 0
    PROVE  Clean(fl, cmd)
<1>1. cmd.cmd = "write" /\ cmd.r = r /\ cmd.s = s /\ cmd.entry = e
  BY DEF Write
<1> QED
  BY <1>1 DEF Clean

LEMMA CleanHeader ==
    ASSUME NEW fl, NEW r, NEW s, NEW c, NEW g, NEW cmd, cmd = Header(r, s, c, g),
           \/ Zeros(fl[r][s].slots) = {}
           \/ \E t \in Sectors :
                 /\ Claimed(fl, r, t)
                 /\ Cardinality(Zeros(fl[r][s].slots)) <= Cardinality(Zeros(fl[r][t].slots))
    PROVE  Clean(fl, cmd)
<1>1. cmd.cmd = "header" /\ cmd.r = r /\ cmd.s = s
  BY DEF Header
<1> QED
  BY <1>1, Zenon DEF Clean

LEMMA PlanClean ==
    ASSUME NEW n \in Nat, NEW fl, FlashInv(fl, n), DirInv(fl), NEW td \in Seq(Cmds),
           Plan(fl, n, td), td # <<>>
    PROVE  Clean(fl, td[1])
<1>1. ASSUME NEW r \in Regions, NEW s \in Sectors, NEW e \in Pending(fl, n), WritePlan(fl, td, r, s, e)
      PROVE  Clean(fl, td[1])
  <2>1. td[1] = Write(r, s, e)
    BY <1>1 DEF WritePlan
  <2>2. e.msg # 0
    BY PendingFacts, SlotFacts
  <2> QED
    BY <2>1, <2>2, CleanWrite
<1>2. ASSUME NEW r \in Regions, NEW e \in Pending(fl, n), ClaimPlan(fl, td, r, e)
      PROVE  Clean(fl, td[1])
  <2>1. \/ td[1] = Erase(r, 0) \/ td[1] = Erase(r, 1)
        \/ td[1] = Header(r, 0, e.conv, 0) /\ fl[r][0] = Erased
    BY <1>2 DEF ClaimPlan
  <2>2. Zeros(Erased.slots) = {}
    <3>1. Erased.slots = <<>>
      BY ErasedFacts
    <3> QED
      BY <3>1 DEF Zeros
  <2> QED
    BY <2>1, <2>2, CleanErase, CleanHeader
<1>3. ASSUME NEW r \in Regions, NEW s \in Sectors, NEW live \in Copies(fl[r][s].slots),
             NEW extra \in Extras(fl, n, fl[r][s].conv), EraseFirstPlan(fl, td, r, s, live, extra)
      PROVE  Clean(fl, td[1])
  <2>1. td[1] = Erase(r, 1 - s)
    BY <1>3 DEF EraseFirstPlan
  <2> QED
    BY <2>1, CleanErase
<1>4. ASSUME NEW r \in Regions, NEW s \in Sectors, NEW live \in Copies(fl[r][s].slots),
             NEW extra \in Extras(fl, n, fl[r][s].conv), NEW k \in 0..Keep,
             CopyPlan(fl, td, r, s, live, k, extra)
      PROVE  Clean(fl, td[1])
  <2>1. /\ Claimed(fl, r, s) /\ ~Claimed(fl, r, 1 - s) /\ k <= Len(live) /\ Len(live) \in Nat
        /\ Len(fl[r][1 - s].slots) = k
        /\ \A i \in 1..k : fl[r][1 - s].slots[i] = live[i]
        /\ k < Len(live) => td[1] = Write(r, 1 - s, live[k + 1])
        /\ k = Len(live) =>
                td[1] = Header(r, 1 - s, fl[r][s].conv, (fl[r][s].gen + 1) % GenMod)
    BY <1>4, CopyPlanFacts
  <2>2. CASE k < Len(live)
    BY <2>1, <2>2, CleanWrite
  <2>3. CASE k = Len(live)
    <3>1. Zeros(fl[r][1 - s].slots) = Zeros(live)
      BY <2>1, <2>3, ZerosSame
    <3>2. fl[r][s].slots \in Seq(Slot)
      BY FlashFacts
    <3>3. Cardinality(Zeros(live)) <= Cardinality(Zeros(fl[r][s].slots))
      BY <3>2, ZerosCopies
    <3> QED
      BY <2>1, <2>3, <3>1, <3>3, CleanHeader
  <2> QED
    BY <2>1, <2>2, <2>3
<1>5. ASSUME NEW r \in Regions, NEW s \in Sectors, NEW extra \in Extras(fl, n, fl[r][1 - s].conv),
             HandOffPlan(fl, td, r, s, extra)
      PROVE  Clean(fl, td[1])
  <2>1. td[1] = Erase(r, s)
    BY <1>5 DEF HandOffPlan, HandOff
  <2> QED
    BY <2>1, CleanErase
<1> QED
  BY <1>1, <1>2, <1>3, <1>4, <1>5, Zenon DEF Plan

LEMMA HeadClean ==
    ASSUME IInv, todo # <<>>
    PROVE  Clean(flash, todo[1])
<1>1. CASE op = "clear"
  BY <1>1, HeadFacts, CleanErase
<1>2. CASE op # "clear"
  BY <1>2, IInvFacts, PlanClean
<1> QED
  BY <1>1, <1>2

LEMMA HitsFinite ==
    ASSUME NEW m \in Nat, NEW hit, NEW r
    PROVE  IsFiniteSet(Hits(hit, m, r)) /\ Cardinality(Hits(hit, m, r)) \in Nat
<1>1. IsFiniteSet(1..m)
  BY FS_Interval
<1>2. Hits(hit, m, r) \in SUBSET (1..m)
  BY DEF Hits
<1>3. IsFiniteSet(Hits(hit, m, r))
  BY <1>1, <1>2, FS_Subset
<1> QED
  BY <1>3, FS_CardinalityType

\* One more fault, which hit region r.
LEMMA OneMoreHit ==
    ASSUME NEW m \in Nat, NEW hit \in [1..m -> Regions], NEW r \in Regions
    PROVE  \E new \in [1..(m + 1) -> Regions] :
              /\ Cardinality(Hits(new, m + 1, r)) = Cardinality(Hits(hit, m, r)) + 1
              /\ \A q \in Regions : q # r => Hits(new, m + 1, q) = Hits(hit, m, q)
<1> DEFINE new == [k \in 1..(m + 1) |-> IF k = m + 1 THEN r ELSE hit[k]]
<1>1. new \in [1..(m + 1) -> Regions]
  OBVIOUS
<1>2. /\ Hits(new, m + 1, r) = Hits(hit, m, r) \cup {m + 1} /\ m + 1 \notin Hits(hit, m, r)
      /\ \A q \in Regions : q # r => Hits(new, m + 1, q) = Hits(hit, m, q)
  BY DEF Hits
<1> HIDE DEF new
<1>3. IsFiniteSet(Hits(hit, m, r))
  BY HitsFinite
<1>4. Cardinality(Hits(new, m + 1, r)) = Cardinality(Hits(hit, m, r)) + 1
  BY <1>2, <1>3, FS_AddElement
<1> QED
  BY <1>1, <1>2, <1>4

\* The sector x is put in place of one with no fewer spoiled places, or is unclaimed.
LEMMA SpoilKeeps ==
    ASSUME NEW n, NEW fl, FlashInv(fl, n), NEW m \in Nat, NEW hit, SpoiltBy(fl, m, hit),
           NEW r \in Regions, NEW s \in Sectors, NEW x \in Sector, NEW fm, fm = Put(fl, r, s, x),
           x.conv # NoConv => Cardinality(Zeros(x.slots)) <= Cardinality(Hits(hit, m, r))
    PROVE  SpoiltBy(fm, m, hit)
<1>1. fl \in [Regions -> [Sectors -> Sector]]
  BY Zenon DEF FlashInv
<1>2. fm[r][s] = x /\ \A q \in Regions, t \in Sectors : (q # r \/ t # s) => fm[q][t] = fl[q][t]
  BY <1>1, PutFacts
<1>3. ASSUME NEW q \in Regions, NEW t \in Sectors, Claimed(fm, q, t)
      PROVE  Cardinality(Zeros(fm[q][t].slots)) <= Cardinality(Hits(hit, m, q))
  <2>1. CASE q = r /\ t = s
    <3>1. x.conv # NoConv
      BY <1>2, <1>3, <2>1 DEF Claimed
    <3> QED
      BY <1>2, <2>1, <3>1
  <2>2. CASE q # r \/ t # s
    <3>1. fm[q][t] = fl[q][t]
      BY <1>2, <2>2
    <3>2. Claimed(fl, q, t)
      BY <1>3, <3>1 DEF Claimed
    <3> QED
      BY <3>1, <3>2 DEF SpoiltBy
  <2> QED
    BY <2>1, <2>2
<1> QED
  BY <1>3 DEF SpoiltBy

\* More faults leave room.
LEMMA SpoilMore ==
    ASSUME NEW n, NEW fl, FlashInv(fl, n), NEW m \in Nat, SpoilInv(fl, m)
    PROVE  SpoilInv(fl, m + 1)
<1>1. PICK hit \in [1..m -> Regions] : SpoiltBy(fl, m, hit)
  BY DEF SpoilInv
<1>2. 1 \in Regions
  BY Constants DEF Regions
<1>3. PICK new \in [1..(m + 1) -> Regions] :
              /\ Cardinality(Hits(new, m + 1, 1)) = Cardinality(Hits(hit, m, 1)) + 1
              /\ \A q \in Regions : q # 1 => Hits(new, m + 1, q) = Hits(hit, m, q)
  BY <1>2, OneMoreHit
<1>4. ASSUME NEW q \in Regions, NEW t \in Sectors, Claimed(fl, q, t)
      PROVE  Cardinality(Zeros(fl[q][t].slots)) <= Cardinality(Hits(new, m + 1, q))
  <2>1. Cardinality(Zeros(fl[q][t].slots)) <= Cardinality(Hits(hit, m, q))
    BY <1>1, <1>4 DEF SpoiltBy
  <2>2. fl[q][t].slots \in Seq(Slot)
    BY FlashFacts
  <2>3. Cardinality(Zeros(fl[q][t].slots)) \in Nat /\ Cardinality(Hits(hit, m, q)) \in Nat
    BY <2>2, ZerosFinite, HitsFinite
  <2>4. Cardinality(Hits(new, m + 1, q)) \in {Cardinality(Hits(hit, m, q)), Cardinality(Hits(hit, m, q)) + 1}
    BY <1>3
  <2> QED
    BY <2>1, <2>3, <2>4
<1>5. SpoiltBy(fl, m + 1, new)
  BY <1>4 DEF SpoiltBy
<1> QED
  BY <1>5 DEF SpoilInv

\* One command: completed it spoils nothing, cut short at most one place.
LEMMA CommandSpoil ==
    ASSUME NEW n \in Nat, NEW fl, FlashInv(fl, n), DirInv(fl), NEW m \in Nat, SpoilInv(fl, m),
           NEW cmd, HeadOK(fl, n, cmd), Clean(fl, cmd),
           NEW x \in Partial(fl[cmd.r][cmd.s], cmd), NEW fm, fm = Put(fl, cmd.r, cmd.s, x)
    PROVE  /\ x = Done(fl[cmd.r][cmd.s], cmd) => SpoilInv(fm, m)
           /\ SpoilInv(fm, m + 1)
<1>1. PICK hit \in [1..m -> Regions] : SpoiltBy(fl, m, hit)
  BY DEF SpoilInv
<1>2. FlashInv(fm, n)
  BY Touch
<1>3. PICK r \in Regions, s \in Sectors :
        \/ cmd = Erase(r, s)
        \/ \E e \in Slot : cmd = Write(r, s, e) /\ WriteOK(fl, n, r, s, e)
        \/ \E c \in Convs, g \in Gens : cmd = Header(r, s, c, g) /\ HeaderOK(fl, r, s, c, g)
  BY Zenon DEF HeadOK
<1> DEFINE sec == fl[r][s]
<1>4. /\ sec \in Sector /\ sec.slots \in Seq(Slot)
      /\ sec.conv # NoConv => Cardinality(Zeros(sec.slots)) <= Cardinality(Hits(hit, m, r))
  BY <1>1, FlashFacts DEF SpoiltBy, Claimed
<1>5. Cardinality(Zeros(sec.slots)) \in Nat /\ Cardinality(Hits(hit, m, r)) \in Nat
  BY <1>4, ZerosFinite, HitsFinite
<1>6. ASSUME x \in Sector, cmd.r = r, cmd.s = s,
             x.conv # NoConv => Cardinality(Zeros(x.slots)) <= Cardinality(Hits(hit, m, r))
      PROVE  SpoilInv(fm, m) /\ SpoilInv(fm, m + 1)
  <2>1. SpoiltBy(fm, m, hit)
    BY <1>1, <1>6, SpoilKeeps
  <2>2. SpoilInv(fm, m)
    BY <1>1, <2>1 DEF SpoilInv
  <2> QED
    BY <1>2, <2>2, SpoilMore
<1>7. CASE cmd = Erase(r, s)
  <2>1. cmd.r = r /\ cmd.s = s
    BY <1>7 DEF Erase
  <2>2. x \in {sec, Junk, Erased}
    BY <1>7, <2>1, EraseFacts
  <2>3. Junk \in Sector /\ Junk.conv = NoConv /\ Erased \in Sector /\ Erased.conv = NoConv
    BY ErasedFacts
  <2> HIDE DEF sec
  <2> QED
    BY <1>4, <1>6, <2>1, <2>2, <2>3
<1>8. ASSUME NEW e \in Slot, cmd = Write(r, s, e)
      PROVE  /\ x = Done(fl[cmd.r][cmd.s], cmd) => SpoilInv(fm, m)
             /\ SpoilInv(fm, m + 1)
  <2>1. cmd.r = r /\ cmd.s = s /\ cmd.cmd = "write" /\ cmd.entry = e
    BY <1>8 DEF Write
  <2>2. /\ Done(sec, cmd) = [sec EXCEPT !.slots = Append(@, e)]
        /\ \/ x = sec
           \/ \E y \in {e, Torn, Garbage} : x = [sec EXCEPT !.slots = Append(@, y)]
    <3>1. x \in Partial(sec, cmd)
      BY <2>1
    <3>2. Done(fl[r][s], cmd) = [fl[r][s] EXCEPT !.slots = Append(@, e)]
      BY <2>1 DEF Done
    <3>3. x = fl[r][s] \/ \E y \in {e, Torn, Garbage} : x = [fl[r][s] EXCEPT !.slots = Append(@, y)]
      BY <1>8, <3>1, WriteFacts
    <3> QED
      BY <3>2, <3>3
  <2>3. ASSUME NEW y \in Slot, x = [sec EXCEPT !.slots = Append(@, y)]
        PROVE  x \in Sector /\ x.conv = sec.conv /\ x.slots = Append(sec.slots, y)
    <3> DEFINE l == Append(sec.slots, y)
    <3>1. l \in Seq(Slot)
      BY <1>4, AppendFacts
    <3>2. x = [sec EXCEPT !.slots = l]
      BY <1>4, <2>3
    <3> HIDE DEF l, sec
    <3>3. x \in Sector /\ x.conv = sec.conv /\ x.slots = l
      BY <1>4, <3>1, <3>2, WithSlots
    <3> QED
      BY <3>3 DEF l
  <2>4. ASSUME x = Done(sec, cmd) PROVE SpoilInv(fm, m)
    <3>1. x \in Sector /\ x.conv = sec.conv /\ x.slots = Append(sec.slots, e)
      BY <2>2, <2>3, <2>4
    <3>2. x.conv # NoConv => e.msg # 0
      BY <2>1, <3>1 DEF Clean, Claimed
    <3>3. x.conv # NoConv => Zeros(x.slots) = Zeros(sec.slots)
      BY <1>4, <3>1, <3>2, ZerosAppend
    <3> QED
      BY <1>4, <1>6, <2>1, <3>1, <3>3
  <2>5. ASSUME NEW y \in Slot, x = [sec EXCEPT !.slots = Append(@, y)] PROVE SpoilInv(fm, m + 1)
    <3>1. x \in Sector /\ x.conv = sec.conv /\ x.slots = Append(sec.slots, y)
      BY <2>3, <2>5
    <3>2. Cardinality(Zeros(x.slots)) <= Cardinality(Zeros(sec.slots)) + 1
      BY <1>4, <3>1, ZerosAppend
    <3>3. Cardinality(Zeros(x.slots)) \in Nat
      <4>1. x.slots \in Seq(Slot)
        BY <3>1, SectorFields
      <4> QED
        BY <4>1, ZerosFinite
    <3>4. PICK new \in [1..(m + 1) -> Regions] :
              /\ Cardinality(Hits(new, m + 1, r)) = Cardinality(Hits(hit, m, r)) + 1
              /\ \A q \in Regions : q # r => Hits(new, m + 1, q) = Hits(hit, m, q)
      BY <1>1, OneMoreHit
    <3>5. SpoiltBy(fl, m + 1, new)
      <4> SUFFICES ASSUME NEW q \in Regions, NEW t \in Sectors, Claimed(fl, q, t)
                   PROVE  Cardinality(Zeros(fl[q][t].slots)) <= Cardinality(Hits(new, m + 1, q))
        BY DEF SpoiltBy
      <4>1. Cardinality(Zeros(fl[q][t].slots)) <= Cardinality(Hits(hit, m, q))
        BY <1>1 DEF SpoiltBy
      <4>2. fl[q][t].slots \in Seq(Slot)
        BY FlashFacts
      <4>3. Cardinality(Zeros(fl[q][t].slots)) \in Nat /\ Cardinality(Hits(hit, m, q)) \in Nat
        BY <4>2, ZerosFinite, HitsFinite
      <4>4. Cardinality(Hits(new, m + 1, q)) \in {Cardinality(Hits(hit, m, q)), Cardinality(Hits(hit, m, q)) + 1}
        BY <3>4
      <4> QED
        BY <4>1, <4>3, <4>4
    <3>6. x.conv # NoConv => Cardinality(Zeros(x.slots)) <= Cardinality(Hits(new, m + 1, r))
      BY <1>4, <1>5, <3>1, <3>2, <3>3, <3>4
    <3>7. m + 1 \in Nat
      OBVIOUS
    <3>8. fm = Put(fl, r, s, x)
      BY <2>1
    <3>9. SpoiltBy(fm, m + 1, new)
      BY <3>1, <3>5, <3>6, <3>7, <3>8, SpoilKeeps
    <3> QED
      BY <3>9 DEF SpoilInv
  <2>6. ASSUME x = sec PROVE SpoilInv(fm, m + 1)
    BY <1>4, <1>6, <2>1, <2>6
  <2>7. e \in Slot /\ Torn \in Slot /\ Garbage \in Slot
    BY SlotFacts
  <2> QED
    BY <2>1, <2>2, <2>4, <2>5, <2>6, <2>7
<1>9. ASSUME NEW c \in Convs, NEW g \in Gens, cmd = Header(r, s, c, g)
      PROVE  SpoilInv(fm, m) /\ SpoilInv(fm, m + 1)
  <2>1. cmd.r = r /\ cmd.s = s /\ cmd.cmd = "header"
    BY <1>9 DEF Header
  <2>2. x = sec \/ x = Headed(sec, c, g)
    BY <1>9, <2>1, HeaderFacts
  <2>3. CASE x = sec
    BY <1>4, <1>6, <2>1, <2>3
  <2>4. CASE x = Headed(sec, c, g)
    <3>1. x \in Sector /\ x.slots = sec.slots
      BY <1>4, <2>4, WithHeader
    <3>2. \/ Zeros(sec.slots) = {}
          \/ \E t \in Sectors :
                Claimed(fl, r, t) /\ Cardinality(Zeros(sec.slots)) <= Cardinality(Zeros(fl[r][t].slots))
      BY <2>1, Zenon DEF Clean
    <3>3. CASE Zeros(sec.slots) = {}
      <4>1. Cardinality(Zeros(sec.slots)) = 0
        BY <3>3, FS_EmptySet
      <4>2. Cardinality(Zeros(x.slots)) <= Cardinality(Hits(hit, m, r))
        BY <1>5, <3>1, <4>1
      <4> QED
        BY <1>6, <2>1, <3>1, <4>2
    <3>4. ASSUME NEW t \in Sectors, Claimed(fl, r, t),
                 Cardinality(Zeros(sec.slots)) <= Cardinality(Zeros(fl[r][t].slots))
          PROVE  Cardinality(Zeros(x.slots)) <= Cardinality(Hits(hit, m, r))
      <4>1. Cardinality(Zeros(fl[r][t].slots)) <= Cardinality(Hits(hit, m, r))
        BY <1>1, <3>4 DEF SpoiltBy
      <4>2. fl[r][t].slots \in Seq(Slot)
        BY FlashFacts
      <4>3. Cardinality(Zeros(fl[r][t].slots)) \in Nat
        BY <4>2, ZerosFinite
      <4> QED
        BY <1>5, <3>1, <3>4, <4>1, <4>3
    <3> QED
      BY <1>6, <2>1, <3>1, <3>2, <3>3, <3>4
  <2> QED
    BY <2>2, <2>3, <2>4
<1> QED
  BY <1>3, <1>7, <1>8, <1>9

-----------------------------------------------------------------------------
SpoilIInv == IInv /\ SpoilInv(flash, faults)

LEMMA SpoilInitially == Init => SpoilInv(flash, faults)
<1> SUFFICES ASSUME Init PROVE SpoilInv(flash, faults)
  OBVIOUS
<1>1. flash = [r \in Regions |-> [s \in Sectors |-> Junk]] /\ faults = 0
  BY DEF Init
<1>2. Junk.conv = NoConv
  BY ErasedFacts
<1> DEFINE hit == [k \in 1..0 |-> 1]
<1>3. hit \in [1..0 -> Regions]
  OBVIOUS
<1> HIDE DEF hit
<1>4. SpoiltBy(flash, 0, hit)
  BY <1>1, <1>2 DEF SpoiltBy, Claimed
<1> QED
  BY <1>1, <1>3, <1>4 DEF SpoilInv

LEMMA SpoilStep == SpoilIInv /\ [Next]_vars => SpoilInv(flash', faults')
<1> SUFFICES ASSUME SpoilIInv, [Next]_vars PROVE SpoilInv(flash', faults')
  OBVIOUS
<1> DEFINE n == Len(appended)
           cmd == todo[1]
<1>1. /\ IInv /\ SpoilInv(flash, faults)
      /\ n \in Nat /\ FlashInv(flash, n) /\ DirInv(flash) /\ faults \in Nat
  BY IInvFacts DEF SpoilIInv, Counters
<1>2. CASE Do
  <2>1. todo # <<>> /\ faults' = faults
        /\ flash' = [flash EXCEPT ![Head(todo).r][Head(todo).s] = Done(@, Head(todo))]
    BY <1>2, Zenon DEF Do
  <2>2. /\ HeadOK(flash, n, cmd) /\ Head(todo) = cmd /\ Clean(flash, cmd)
        /\ Done(flash[cmd.r][cmd.s], cmd) \in Partial(flash[cmd.r][cmd.s], cmd)
    BY <1>1, <2>1, HeadFacts, HeadClean
  <2> DEFINE x == Done(flash[cmd.r][cmd.s], cmd)
  <2>3. flash' = Put(flash, cmd.r, cmd.s, x)
    BY <2>1, <2>2 DEF Put
  <2>4. x \in Partial(flash[cmd.r][cmd.s], cmd) /\ x = Done(flash[cmd.r][cmd.s], cmd)
    BY <2>2
  <2> HIDE DEF x, cmd, n
  <2>5. SpoilInv(flash', faults)
    BY <1>1, <2>2, <2>3, <2>4, CommandSpoil
  <2> QED
    BY <2>1, <2>5
<1>3. ASSUME NEW reboot \in BOOLEAN, Fail(reboot) PROVE SpoilInv(flash', faults')
  <2>1. /\ todo # <<>> /\ faults' = faults + 1
        /\ \E sector \in Partial(flash[Head(todo).r][Head(todo).s], Head(todo)) :
              flash' = [flash EXCEPT ![Head(todo).r][Head(todo).s] = sector]
    BY <1>3 DEF Fail
  <2>2. HeadOK(flash, n, cmd) /\ Head(todo) = cmd /\ Clean(flash, cmd)
    BY <1>1, <2>1, HeadFacts, HeadClean
  <2>3. PICK x \in Partial(flash[cmd.r][cmd.s], cmd) : flash' = Put(flash, cmd.r, cmd.s, x)
    BY <2>1, <2>2 DEF Put
  <2> QED
    BY <1>1, <2>1, <2>2, <2>3, CommandSpoil
<1>4. ASSUME flash' = flash, faults' = faults PROVE SpoilInv(flash', faults')
  BY <1>1, <1>4
<1>5. CASE Migrate \/ MigrationDone \/ ClearAll
  BY <1>4, <1>5 DEF Migrate, MigrationDone, ClearAll, Start
<1>6. ASSUME NEW c \in Convs, (\E ours \in BOOLEAN : AppendConversation(c, ours)) \/ MarkLastOursAcked(c)
      PROVE  SpoilInv(flash', faults')
  BY <1>4, <1>6 DEF AppendConversation, MarkLastOursAcked, Start
<1>7. CASE UNCHANGED vars
  BY <1>4, <1>7 DEF vars
<1> QED
  BY <1>2, <1>3, <1>5, <1>6, <1>7 DEF Next

\* Each spoiled place of a reader is charged to a fault of its own.
LEMMA SpoilBounds == SpoilIInv => SpoiledBounded
<1> SUFFICES ASSUME SpoilIInv PROVE SpoiledBounded
  OBVIOUS
<1>1. /\ FlashInv(flash, Len(appended)) /\ DirInv(flash) /\ faults \in Nat /\ SpoilInv(flash, faults)
  BY IInvFacts DEF SpoilIInv, Counters
<1>2. PICK hit \in [1..faults -> Regions] : SpoiltBy(flash, faults, hit)
  BY <1>1 DEF SpoilInv
<1> DEFINE region(c) == Min(ClaimedBy(flash, c))
           of(c) == Hits(hit, faults, region(c))
           P == {p \in Convs \X (1..Keep) : p[2] \in Spoiled(p[1])}
<1>3. ASSUME NEW c \in Convs, Spoiled(c) # {}
      PROVE  /\ \E f \in [Spoiled(c) -> of(c)] : \A x, y \in Spoiled(c) : f[x] = f[y] => x = y
             /\ \E s \in Sectors : region(c) \in Regions /\ flash[region(c)][s].conv = c
  <2>1. ClaimedBy(flash, c) # {}
    <3> SUFFICES ASSUME ClaimedBy(flash, c) = {} PROVE FALSE
      OBVIOUS
    <3>1. Places(c) = <<>>
      BY Zenon DEF Places
    <3> QED
      BY <1>3, <3>1 DEF Spoiled
  <2>2. PICK r \in Regions, s \in Sectors :
            /\ ClaimedBy(flash, c) = {r} /\ Min(ClaimedBy(flash, c)) = r /\ s \in Active(flash, r)
            /\ flash[r][s].conv = c /\ ActiveOf(flash, r) = s
    BY <1>1, <2>1, OwnFacts
  <2>3. region(c) = r /\ Places(c) = Window(flash[r][s].slots)
    BY <2>1, <2>2, Zenon DEF Places
  <2>4. flash[r][s].slots \in Seq(Slot) /\ Claimed(flash, r, s)
    BY <1>1, <2>2, FlashFacts, ActiveFacts
  <2>5. Spoiled(c) = Zeros(Window(flash[r][s].slots))
    BY <2>3 DEF Spoiled, Zeros
  <2>6. Window(flash[r][s].slots) \in Seq(Slot)
    BY <2>4, WindowFacts
  <2>7. /\ IsFiniteSet(Spoiled(c)) /\ Cardinality(Spoiled(c)) \in Nat
        /\ Cardinality(Zeros(flash[r][s].slots)) \in Nat
        /\ IsFiniteSet(Hits(hit, faults, r)) /\ Cardinality(Hits(hit, faults, r)) \in Nat
    BY <1>1, <2>4, <2>5, <2>6, ZerosFinite, HitsFinite
  <2>8. Cardinality(Spoiled(c)) <= Cardinality(Hits(hit, faults, r))
    <3>1. Cardinality(Spoiled(c)) <= Cardinality(Zeros(flash[r][s].slots))
      BY <2>4, <2>5, ZerosWindow
    <3>2. Cardinality(Zeros(flash[r][s].slots)) <= Cardinality(Hits(hit, faults, r))
      BY <1>2, <2>4 DEF SpoiltBy
    <3> QED
      BY <2>7, <3>1, <3>2
  <2>9. \E f \in [Spoiled(c) -> of(c)] : \A x, y \in Spoiled(c) : f[x] = f[y] => x = y
    BY <2>3, <2>7, <2>8, FitsIn
  <2> QED
    BY <2>2, <2>3, <2>9
<1> DEFINE inj(c) == CHOOSE f \in [Spoiled(c) -> of(c)] : \A x, y \in Spoiled(c) : f[x] = f[y] => x = y
           F == [p \in P |-> inj(p[1])[p[2]]]
<1>4. \A c \in Convs : Spoiled(c) # {} =>
         inj(c) \in [Spoiled(c) -> of(c)] /\ \A x, y \in Spoiled(c) : inj(c)[x] = inj(c)[y] => x = y
  BY <1>3, Zenon
<1> HIDE DEF inj
<1>5. \A p \in P : /\ p[1] \in Convs /\ p[2] \in Spoiled(p[1]) /\ p = <<p[1], p[2]>>
  OBVIOUS
<1> HIDE DEF P
<1>6. \A p \in P : F[p] \in of(p[1])
  <2> SUFFICES ASSUME NEW p \in P PROVE F[p] \in of(p[1])
    OBVIOUS
  <2>1. F[p] = inj(p[1])[p[2]]
    OBVIOUS
  <2>2. inj(p[1]) \in [Spoiled(p[1]) -> of(p[1])] /\ p[2] \in Spoiled(p[1])
    BY <1>4, <1>5
  <2> HIDE DEF F, of
  <2> QED
    BY <2>1, <2>2
<1>7. \A p \in P : F[p] = inj(p[1])[p[2]]
  OBVIOUS
<1>8. F \in [P -> 1..faults]
  <2>1. \A p \in P : F[p] \in 1..faults
    BY <1>6 DEF Hits
  <2>2. F = [p \in P |-> F[p]]
    OBVIOUS
  <2> HIDE DEF F
  <2> QED
    BY <2>1, <2>2
<1> HIDE DEF F
<1>9. ASSUME NEW p \in P, NEW q \in P, F[p] = F[q] PROVE p = q
  <2>1. hit[F[p]] = region(p[1]) /\ hit[F[q]] = region(q[1])
    BY <1>6 DEF Hits
  <2>2. region(p[1]) = region(q[1])
    BY <1>9, <2>1
  <2>3. PICK s \in Sectors : region(p[1]) \in Regions /\ flash[region(p[1])][s].conv = p[1]
    BY <1>3, <1>5
  <2>4. PICK t \in Sectors : flash[region(q[1])][t].conv = q[1]
    BY <1>3, <1>5
  <2>5. p[1] = q[1]
    <3>1. p[1] # NoConv /\ q[1] # NoConv
      BY <1>5, Constants
    <3>2. t = s \/ t = 1 - s
      BY SectorPair
    <3>3. CASE t = s
      BY <2>2, <2>3, <2>4, <3>3
    <3>4. CASE t = 1 - s
      <4>1. Claimed(flash, region(p[1]), s) /\ Claimed(flash, region(p[1]), 1 - s)
        BY <2>2, <2>3, <2>4, <3>1, <3>4 DEF Claimed
      <4> QED
        BY <1>1, <2>2, <2>3, <2>4, <3>4, <4>1 DEF DirInv, PairInv
    <3> QED
      BY <3>2, <3>3, <3>4
  <2>6. inj(p[1])[p[2]] = inj(p[1])[q[2]]
    BY <1>7, <1>9, <2>5
  <2>7. p[2] = q[2]
    BY <1>4, <1>5, <2>5, <2>6
  <2> QED
    BY <1>5, <2>5, <2>7
<1>10. IsFiniteSet(1..faults) /\ Cardinality(1..faults) = faults
  BY <1>1, FS_Interval
<1>11. \A p, q \in P : F[p] = F[q] => p = q
  BY <1>9
<1>12. Cardinality(P) <= faults
  <2> DEFINE T == 1..faults
  <2>1. IsFiniteSet(T) /\ Cardinality(T) = faults /\ F \in [P -> T]
    BY <1>8, <1>10
  <2> HIDE DEF T
  <2>2. Cardinality(P) <= Cardinality(T)
    BY <1>11, <2>1, NoMore
  <2> QED
    BY <2>1, <2>2
<1> QED
  BY <1>12 DEF SpoiledBounded, P

(***************************************************************************)
(* What a reader finds is sound however often the power fails or the flash *)
(* reports an error: no message twice, and at most one place spoiled for   *)
(* each of those, over all conversations together (rewrite_region,         *)
(* gather_live, load_all_conversations).                                   *)
(***************************************************************************)
THEOREM PlacesHold == Spec => []PlacesSound
<1>1. Init => SpoilInv(flash, faults)
  BY SpoilInitially
<1>2. IInv /\ SpoilInv(flash, faults) /\ [Next]_vars => SpoilInv(flash, faults)'
  BY SpoilStep DEF SpoilIInv
<1>3. IInv /\ SpoilInv(flash, faults) => PlacesSound
  BY IInvNoDuplicates, SpoilBounds DEF SpoilIInv, PlacesSound
<1> QED
  BY <1>1, <1>2, <1>3, Invariant, PTL DEF Spec

============================================================================
