--------------------------- MODULE RoomSyncProofs ---------------------------
(***************************************************************************)
(* Proofs about RoomSync, for every size of the server's ring, of the      *)
(* dedup tail and of the stored conversation, and every bound on frames,   *)
(* stamps, posts and reboots: the stamps keep their order, a post of the   *)
(* client is stored once, the watermark passes over no post the server     *)
(* still has, and a plain post is not entered twice within the dedup tail. *)
(***************************************************************************)
EXTENDS RoomSync, TLAPS, FiniteSetTheorems, WellFoundedInduction

\* No clock of the server's gets here: it ticks once for a frame it accepts,
\* whose stamps grow, and once for a post of another member.
Top == Floor + MaxTs + MaxPosts

FrameKinds == {"login", "ka", "post", "ack", "reply", "push", "kaAck", "postAck"}

\* What a frame in flight may carry, while the last stamp saved is last and the
\* server's clock c.
FrameOK(f, last, c) ==
    /\ f.kind \in FrameKinds
    /\ f.kind \in {"login", "ka", "post", "postAck"} => f.ts \in 1..MaxTs /\ f.ts <= last
    /\ f.kind \in {"login", "ka"} => f.arg \in Nat
    /\ f.kind = "reply" => f.arg \in Routes /\ f.ts \in Nat /\ f.ts > Floor
    /\ f.kind = "push" => f.arg \in Kinds
    /\ f.kind \in {"push", "ack"} => f.ts \in Nat /\ f.ts <= c

NetInv == IsFiniteSet(net) /\ \A f \in net : FrameOK(f, nvs.last, clock)

\* The saved copy is the session's, as far as stamps and watermark go.
SavedInv ==
    /\ nvs.last = session.last /\ nvs.since = session.since
    /\ out \subseteq 1..nvs.last
    /\ server.last <= nvs.last
    /\ ~server.known => server.last = 0

InStored(ts, s) == \E i \in 1..Len(s) : s[i] = ts

\* A stamp that was given to a post which is still being sent.
IsPost(ts, o, n) == ts \in o \/ \E f \in n : f.kind = "post" /\ f.ts = ts

\* The stamp of a post is never a login's or a keep-alive's, so a server that
\* has seen it last has stored the post.
OwnInv ==
    /\ stored \in Seq(Nat)
    /\ \A i \in 1..Len(stored) : stored[i] <= server.last
    /\ \A ts \in 1..MaxTs : IsPost(ts, out, net) =>
          /\ \A f \in net : f.kind \in {"login", "ka"} => f.ts # ts
          /\ server.grant /\ ts = server.last => InStored(ts, stored)
    /\ \A f \in net : f.kind = "postAck" => InStored(f.ts, stored)

ClockInv ==
    /\ posted \in 0..MaxPosts /\ clock \in Nat /\ base \in Nat
    /\ clock >= Floor /\ clock <= Floor + server.last + posted
    /\ \A i \in 1..Len(ring) : ring[i].ts <= clock
    /\ \A i, j \in 1..Len(ring) : i < j => ring[i].ts < ring[j].ts

\* The posts of a ring r after the base b, up to a watermark w or before a post,
\* are in the history h.
InHistory(ts, h) == \E j \in 1..Len(h) : h[j].ts = ts
Covered(w, r, h, b) ==
    \A i \in 1..Len(r) :
        r[i].kind # Own /\ r[i].ts > b /\ r[i].ts <= w => InHistory(r[i].ts, h)
CoveredBelow(w, r, h, b) ==
    \A i \in 1..Len(r) :
        r[i].kind # Own /\ r[i].ts > b /\ r[i].ts < w => InHistory(r[i].ts, h)

\* A frame that sets the server's watermark, and the watermarks it may set.
Carries(f) == f.kind = "login" \/ (f.kind = "ka" /\ f.arg > 0)
Good(w, r, h, b, c) == w = b \/ w > Top \/ (w <= c /\ Covered(w, r, h, b))

FrameGap(f, r, h, b, c) ==
    /\ Carries(f) => Good(f.arg, r, h, b, c)
    /\ f.kind = "push" => CoveredBelow(f.ts, r, h, b)
    /\ f.kind = "ack" => Covered(f.ts, r, h, b)

\* Every watermark, wherever it is kept or carried, covers what lies below it.
SinceGap ==
    \/ session.since = base
    \/ session.since <= clock /\ Covered(session.since, ring, history, base)
ServerGap == server.known => Good(server.since, ring, history, base, clock)
NetGap == \A f \in net : FrameGap(f, ring, history, base, clock)
GapInv == SinceGap /\ ServerGap /\ NetGap

\* As long as the client is ahead of the server's clock nothing is pushed to it.
FrameAhead(f) == (Carries(f) => f.arg > Top) /\ f.kind \notin {"push", "ack"}
AheadInv ==
    base > Top =>
        /\ session.since > Top
        /\ server.known => server.since > Top
        /\ \A f \in net : FrameAhead(f)

\* The dedup tail mirrors the end of the history, at least RecentCap posts of it.
RecentInv ==
    /\ Len(recent) <= Len(history)
    /\ \A i \in 1..Len(recent) : recent[i].ts = history[Len(history) - Len(recent) + i].ts
    /\ Len(recent) >= RecentCap \/ Len(recent) = Len(history)

IInv ==
    /\ TypeOK /\ NetInv /\ SavedInv /\ OwnInv /\ ClockInv /\ GapInv /\ AheadInv
    /\ RecentInv /\ StoredInOrder /\ DeliveredIsStored /\ PlainPostsApart

SessionType == [post : BOOLEAN, since : Nat, last : 0..MaxTs, route : Routes]
RamType == [loggedIn : BOOLEAN, ka : 0..MaxTs, resync : BOOLEAN, wall : Nat]
ServerType == [known : BOOLEAN, grant : BOOLEAN, since : Nat, last : 0..MaxTs,
               pending : Nat]
RingPost == [ts : Nat, kind : Kinds \cup {Own}]
Entry == [ts : Nat, kind : Kinds]
Seen == [ts : Nat, live : BOOLEAN]

-----------------------------------------------------------------------------
(* Constants and operators *)

LEMMA ConstFacts ==
    /\ RingCap \in Nat /\ RingCap > 0 /\ RecentCap \in Nat /\ RecentCap > 0
    /\ HistoryKeep \in Nat /\ RecentCap <= HistoryKeep
    /\ Slack \in Nat /\ NetCap \in Nat /\ MaxTs \in Nat /\ MaxPosts \in Nat
    /\ MaxReboots \in Nat
    /\ MaxTs + MaxPosts <= Slack
    /\ Own \notin Kinds /\ Seeds \subseteq Nat /\ Seeds # {}
    /\ Floor = 1 /\ Top = 1 + MaxTs + MaxPosts /\ Top \in Nat
BY RoomSyncAssumption DEF Own, Floor, Top

\* A set of naturals has a least element.
LEMMA MinFacts ==
    ASSUME NEW S \in SUBSET Nat, S # {}
    PROVE  Min(S) \in S /\ \A y \in S : Min(S) <= y
<1> DEFINE R == OpToRel(<, Nat)
<1>1. IsWellFoundedOn(R, Nat)
  BY NatLessThanWellFounded
<1>2. \A x, y \in Nat : x < y => <<x, y>> \in R
  BY DEF OpToRel
<1> HIDE DEF R
<1>3. PICK x \in S : \A y \in S : ~(<<y, x>> \in R)
  BY <1>1, WFMin
<1>4. \A y \in S : x <= y
  <2> SUFFICES ASSUME NEW y \in S PROVE x <= y
    OBVIOUS
  <2>1. x \in Nat /\ y \in Nat
    OBVIOUS
  <2>2. ~(y < x)
    BY <1>2, <1>3, <2>1
  <2> QED BY <2>1, <2>2
<1> QED BY <1>4 DEF Min

\* A frame sent leaves the others where they are, and never overfills the mesh.
LEMMA SentFacts ==
    ASSUME NEW n, NEW f, NEW m \in Sent(n, f), IsFiniteSet(n), Cardinality(n) <= NetCap
    PROVE  /\ IsFiniteSet(m) /\ Cardinality(m) <= NetCap
           /\ m \subseteq n \cup {f}
<1>1. CASE m = n
  BY <1>1
<1>2. CASE m = n \cup {f} /\ Cardinality(n) < NetCap
  <2>1. /\ IsFiniteSet(m)
        /\ Cardinality(m) = IF f \in n THEN Cardinality(n) ELSE Cardinality(n) + 1
    BY <1>2, FS_AddElement
  <2>2. Cardinality(n) \in Nat
    BY FS_CardinalityType
  <2> QED BY <1>2, <2>1, <2>2, ConstFacts
<1> QED BY <1>1, <1>2 DEF Sent

LEMMA RestFacts ==
    ASSUME NEW f, IsFiniteSet(net), Cardinality(net) <= NetCap
    PROVE  /\ IsFiniteSet(Rest(f)) /\ Cardinality(Rest(f)) <= NetCap
           /\ Rest(f) \subseteq net
<1>1. Rest(f) \in SUBSET net
  BY DEF Rest
<1>2. Cardinality(Rest(f)) <= Cardinality(net) /\ IsFiniteSet(Rest(f))
  BY <1>1, FS_Subset
<1>3. Cardinality(Rest(f)) \in Nat /\ Cardinality(net) \in Nat
  BY <1>2, FS_CardinalityType
<1> QED BY <1>1, <1>2, <1>3, ConstFacts

\* What a bounded ring keeps is the end of what it had.
LEMMA SeqTailFacts ==
    ASSUME NEW S, NEW s \in Seq(S), NEW n \in Nat
    PROVE  /\ SeqTail(s, n) \in Seq(S)
           /\ Len(SeqTail(s, n)) = IF Len(s) <= n THEN Len(s) ELSE n
           /\ \A i \in 1..Len(SeqTail(s, n)) :
                 SeqTail(s, n)[i] = s[Len(s) - Len(SeqTail(s, n)) + i]
<1>1. CASE Len(s) <= n
  BY <1>1 DEF SeqTail
<1>2. CASE ~(Len(s) <= n)
  <2> DEFINE a == Len(s) - n + 1
  <2>1. /\ a \in 1..Len(s) + 1 /\ Len(s) \in Nat
    BY <1>2
  <2>2. SeqTail(s, n) = SubSeq(s, a, Len(s))
    BY <1>2 DEF SeqTail
  <2>3. /\ SubSeq(s, a, Len(s)) \in Seq(S)
        /\ Len(SubSeq(s, a, Len(s))) = n
        /\ \A i \in 1..n : SubSeq(s, a, Len(s))[i] = s[a + i - 1]
    BY <1>2, <2>1
  <2>4. \A i \in 1..n : a + i - 1 = Len(s) - n + i
    BY <2>1
  <2> HIDE DEF a
  <2> QED BY <1>2, <2>2, <2>3, <2>4
<1> QED BY <1>1, <1>2

\* A new stamp outruns every stamp that was saved before.
LEMMA StampFacts ==
    ASSUME TypeOK, SavedInv, NextTs <= MaxTs
    PROVE  /\ NextTs \in 1..MaxTs /\ NextTs > nvs.last /\ NextTs > session.last
           /\ MaxOf(session.last, NextTs) = NextTs
           /\ session.last \in Nat /\ nvs.last \in Nat
<1>1. ram \in RamType /\ session \in SessionType /\ nvs \in SessionType
  BY DEF TypeOK, RamType, SessionType
<1>2. ram.wall \in Nat /\ session.last \in Nat /\ nvs.last \in Nat
  BY <1>1, ConstFacts DEF RamType, SessionType
<1>3. NextTs \in Nat /\ NextTs >= session.last + 1
  BY <1>2 DEF NextTs, TxTimestamp, MaxOf
<1> HIDE DEF NextTs
<1> QED BY <1>2, <1>3, ConstFacts DEF SavedInv, MaxOf

\* The handlers, with the frame each takes.
Handled(f) ==
    \/ f.kind = "reply" /\ RxReply(f)
    \/ f.kind = "push" /\ RxPush(f)
    \/ f.kind = "push" /\ RxPushCutShort(f)
    \/ f.kind = "kaAck" /\ RxKaAck(f)
    \/ f.kind = "postAck" /\ RxPostAck(f)
    \/ f.kind = "login" /\ SrvLogin(f)
    \/ f.kind = "post" /\ SrvPost(f)
    \/ f.kind = "ka" /\ SrvKeepAlive(f)
    \/ f.kind = "ack" /\ SrvAck(f)

LEMMA NextCases ==
    ASSUME NetInv, [Next]_vars
    PROVE  \/ SendLogin \/ SendKeepAlive \/ LoseRoute \/ SendPost \/ Reboot
           \/ \E ts \in out : RetryPost(ts)
           \/ SrvPush
           \/ \E kind \in Kinds : OtherPosts(kind)
           \/ \E f \in net : Handled(f)
           \/ UNCHANGED vars
<1>1. \A f \in net : f.kind \in FrameKinds
  BY DEF NetInv, FrameOK
<1>2. ASSUME NEW f \in net, Rx(f)
      PROVE  Handled(f)
  <2>1. f.kind \in FrameKinds
    BY <1>1
  <2>2. CASE f.kind = "reply"
    BY <1>2, <2>2 DEF Rx, Handled
  <2>3. CASE f.kind = "push"
    BY <1>2, <2>3 DEF Rx, Handled
  <2>4. CASE f.kind = "kaAck"
    BY <1>2, <2>4 DEF Rx, Handled
  <2>5. CASE f.kind = "postAck"
    BY <1>2, <2>5 DEF Rx, Handled
  <2>6. CASE f.kind = "login"
    BY <1>2, <2>6 DEF Rx, Handled
  <2>7. CASE f.kind = "post"
    BY <1>2, <2>7 DEF Rx, Handled
  <2>8. CASE f.kind = "ka"
    BY <1>2, <2>8 DEF Rx, Handled
  <2>9. CASE f.kind = "ack"
    BY <1>2, <2>9 DEF Rx, Handled
  <2> QED BY <2>1, <2>2, <2>3, <2>4, <2>5, <2>6, <2>7, <2>8, <2>9 DEF FrameKinds
<1> QED BY <1>2 DEF Next

-----------------------------------------------------------------------------
(* What survives a step *)

LEMMA TypeFacts ==
    ASSUME TypeOK
    PROVE  /\ session \in SessionType /\ nvs \in SessionType /\ ram \in RamType
           /\ server \in ServerType
           /\ session.since \in Nat /\ session.last \in 0..MaxTs /\ session.last \in Nat
           /\ nvs.since \in Nat /\ nvs.last \in 0..MaxTs /\ nvs.last \in Nat
           /\ ram.wall \in Nat /\ ram.ka \in 0..MaxTs
           /\ server.since \in Nat /\ server.last \in 0..MaxTs /\ server.last \in Nat
           /\ server.known \in BOOLEAN /\ server.grant \in BOOLEAN
           /\ ring \in Seq(RingPost) /\ history \in Seq(Entry) /\ recent \in Seq(Seen)
BY ConstFacts DEF TypeOK, SessionType, RamType, ServerType, RingPost, Entry, Seen

\* A frame stays valid when the saved stamp and the server's clock move forward.
LEMMA FramesKept ==
    ASSUME NetInv, nvs.last \in Nat, clock \in Nat,
           NEW last \in Nat, NEW c \in Nat, last >= nvs.last, c >= clock
    PROVE  \A f \in net : FrameOK(f, last, c)
<1> SUFFICES ASSUME NEW f \in net PROVE FrameOK(f, last, c)
  OBVIOUS
<1>1. FrameOK(f, nvs.last, clock)
  BY DEF NetInv
<1> QED BY <1>1, ConstFacts DEF FrameOK

\* A watermark stays good when posts are only added, the server's newer than its
\* clock, the client's anywhere.
LEMMA GapKept ==
    ASSUME NEW r, NEW q, NEW h, NEW k, NEW b, NEW c \in Nat, NEW d \in Nat, d >= c,
           \A i \in 1..Len(q) : \/ q[i].ts \in Nat /\ q[i].ts > c
                                \/ \E j \in 1..Len(r) : q[i] = r[j],
           \A ts : InHistory(ts, h) => InHistory(ts, k)
    PROVE  /\ \A w \in Nat : w <= c /\ Covered(w, r, h, b) => w <= d /\ Covered(w, q, k, b)
           /\ \A w \in Nat : w <= c /\ CoveredBelow(w, r, h, b) => CoveredBelow(w, q, k, b)
           /\ \A w \in Nat : Good(w, r, h, b, c) => Good(w, q, k, b, d)
<1>2. ASSUME NEW w \in Nat, w <= c, Covered(w, r, h, b)
      PROVE  w <= d /\ Covered(w, q, k, b)
  <2>2. ASSUME NEW i \in 1..Len(q), q[i].kind # Own, q[i].ts > b, q[i].ts <= w
        PROVE  InHistory(q[i].ts, k)
    <3>1. ~(q[i].ts \in Nat /\ q[i].ts > c)
      BY <1>2, <2>2
    <3>2. PICK j \in 1..Len(r) : q[i] = r[j]
      BY <3>1
    <3>3. InHistory(r[j].ts, h)
      BY <1>2, <2>2, <3>2 DEF Covered
    <3> QED BY <3>2, <3>3
  <2> QED BY <1>2, <2>2 DEF Covered
<1>3. ASSUME NEW w \in Nat, w <= c, CoveredBelow(w, r, h, b)
      PROVE  CoveredBelow(w, q, k, b)
  <2>2. ASSUME NEW i \in 1..Len(q), q[i].kind # Own, q[i].ts > b, q[i].ts < w
        PROVE  InHistory(q[i].ts, k)
    <3>1. ~(q[i].ts \in Nat /\ q[i].ts > c)
      BY <1>3, <2>2
    <3>2. PICK j \in 1..Len(r) : q[i] = r[j]
      BY <3>1
    <3>3. InHistory(r[j].ts, h)
      BY <1>3, <2>2, <3>2 DEF CoveredBelow
    <3> QED BY <3>2, <3>3
  <2> QED BY <2>2 DEF CoveredBelow
<1>4. ASSUME NEW w \in Nat, Good(w, r, h, b, c)
      PROVE  Good(w, q, k, b, d)
  <2>2. CASE w <= c /\ Covered(w, r, h, b)
    BY <1>2, <2>2 DEF Good
  <2>3. CASE w = b \/ w > Top
    BY <2>3 DEF Good
  <2> QED BY <1>4, <2>2, <2>3 DEF Good
<1> QED BY <1>2, <1>3, <1>4

\* ... and so do the frames in flight and the watermarks kept on both sides.
LEMMA WatermarksKept ==
    ASSUME TypeOK, NetInv, ClockInv, GapInv,
           NEW q, NEW k, NEW d \in Nat, d >= clock,
           \A i \in 1..Len(q) : \/ q[i].ts \in Nat /\ q[i].ts > clock
                                \/ \E j \in 1..Len(ring) : q[i] = ring[j],
           \A ts : InHistory(ts, history) => InHistory(ts, k)
    PROVE  /\ \/ session.since = base
              \/ session.since <= d /\ Covered(session.since, q, k, base)
           /\ server.known => Good(server.since, q, k, base, d)
           /\ \A f \in net : FrameGap(f, q, k, base, d)
<1>1. /\ session.since \in Nat /\ server.since \in Nat /\ clock \in Nat /\ base \in Nat
  BY TypeFacts DEF ClockInv
<1>2. /\ \A w \in Nat : w <= clock /\ Covered(w, ring, history, base)
                           => w <= d /\ Covered(w, q, k, base)
      /\ \A w \in Nat : w <= clock /\ CoveredBelow(w, ring, history, base)
                           => CoveredBelow(w, q, k, base)
      /\ \A w \in Nat : Good(w, ring, history, base, clock) => Good(w, q, k, base, d)
  BY <1>1, GapKept
<1>3. \/ session.since = base
      \/ session.since <= d /\ Covered(session.since, q, k, base)
  BY <1>1, <1>2 DEF GapInv, SinceGap
<1>4. server.known => Good(server.since, q, k, base, d)
  BY <1>1, <1>2 DEF GapInv, ServerGap
<1>5. ASSUME NEW f \in net PROVE FrameGap(f, q, k, base, d)
  <2>1. FrameOK(f, nvs.last, clock) /\ FrameGap(f, ring, history, base, clock)
    BY DEF NetInv, GapInv, NetGap
  <2>2. /\ f.kind \in {"login", "ka"} => f.arg \in Nat
        /\ f.kind \in {"push", "ack"} => f.ts \in Nat /\ f.ts <= clock
    BY <2>1 DEF FrameOK
  <2>3. Carries(f) => Good(f.arg, q, k, base, d)
    BY <1>2, <2>1, <2>2 DEF FrameGap, Carries
  <2>4. f.kind = "push" => CoveredBelow(f.ts, q, k, base)
    BY <1>2, <2>1, <2>2 DEF FrameGap
  <2>5. f.kind = "ack" => Covered(f.ts, q, k, base)
    BY <1>2, <2>1, <2>2 DEF FrameGap
  <2> QED BY <2>3, <2>4, <2>5 DEF FrameGap
<1> QED BY <1>3, <1>4, <1>5

-----------------------------------------------------------------------------
(* The client sends *)

\* A stamped frame: a login or a keep-alive with the watermark, or a new post.
StampedFrame(g) ==
    \/ g.kind = "post" /\ out' = out \cup {NextTs}
    \/ g.kind = "login" /\ g.arg = session.since /\ out' = out
    \/ g.kind = "ka" /\ g.arg \in {session.since, 0} /\ out' = out

LEMMA StampedStep ==
    ASSUME IInv, NextTs <= MaxTs, NEW g, g.ts = NextTs, StampedFrame(g),
           net' \in Sent(net, g), Stamped(NextTs), ram' \in RamType,
           UNCHANGED <<recent, history, acked, base, reboots, serverVars>>
    PROVE  IInv'
<1> DEFINE t == NextTs
<1>1. /\ t \in 1..MaxTs /\ t \in Nat /\ t > nvs.last /\ t > session.last /\ nvs.last \in Nat
      /\ MaxOf(session.last, t) = t
  BY StampFacts, ConstFacts DEF IInv
<1>2. /\ session' = [session EXCEPT !.last = t] /\ nvs' = session'
  BY <1>1 DEF Stamped
<1>3. g.ts = t /\ (g.kind = "post" => out' = out \cup {t})
  BY DEF StampedFrame
<1> HIDE DEF t
<1>4. TypeOK /\ NetInv /\ SavedInv /\ OwnInv /\ ClockInv /\ GapInv /\ AheadInv
  BY DEF IInv
<1>5. /\ server' = server /\ ring' = ring /\ clock' = clock /\ stored' = stored
      /\ posted' = posted /\ recent' = recent /\ history' = history /\ acked' = acked
      /\ base' = base /\ reboots' = reboots
  BY DEF serverVars
<1>6. /\ session \in SessionType /\ session.since \in Nat /\ server.last \in Nat
      /\ clock \in Nat
  BY <1>4, TypeFacts DEF ClockInv
<1>7. /\ session' \in SessionType /\ nvs' \in SessionType
      /\ session'.last = t /\ session'.since = session.since
      /\ nvs'.last = t /\ nvs'.since = session.since
  BY <1>1, <1>2, <1>6, ConstFacts DEF SessionType
<1>8. /\ IsFiniteSet(net') /\ Cardinality(net') <= NetCap /\ net' \subseteq net \cup {g}
  BY <1>4, SentFacts DEF TypeOK, NetInv
<1>9. out \subseteq 1..nvs.last /\ out' \subseteq out \cup {t} /\ (g.kind # "post" => out' = out)
  BY <1>3, <1>4 DEF StampedFrame, SavedInv
<1>10. out' \subseteq 1..t /\ out' \subseteq 1..MaxTs
  BY <1>1, <1>9, ConstFacts
<1>11. TypeOK'
  <2>1. {session', nvs'} \subseteq SessionType
    BY <1>7
  <2> QED BY <1>4, <1>5, <1>8, <1>10, <2>1 DEF TypeOK, SessionType, RamType
<1>12. NetInv'
  <2>1. FrameOK(g, t, clock)
    BY <1>1, <1>3, <1>6 DEF FrameOK, FrameKinds, StampedFrame
  <2>2. \A f \in net : FrameOK(f, t, clock)
    BY <1>1, <1>4, <1>6, FramesKept
  <2> QED BY <1>5, <1>7, <1>8, <2>1, <2>2 DEF NetInv
<1>13. SavedInv'
  BY <1>1, <1>4, <1>5, <1>6, <1>7, <1>10 DEF SavedInv
<1>14. OwnInv'
  <2>1. \A f \in net : f.kind \in {"login", "ka", "post"} => f.ts \in Nat /\ f.ts < t
    BY <1>1, <1>4 DEF NetInv, FrameOK
  <2>2. ASSUME NEW ts \in 1..MaxTs, IsPost(ts, out', net')
        PROVE  /\ \A f \in net' : f.kind \in {"login", "ka"} => f.ts # ts
               /\ server.grant /\ ts = server.last => InStored(ts, stored)
    <3>1. CASE g.kind = "post"
      <4>1. IsPost(ts, out, net) \/ ts = t
        BY <1>3, <1>8, <1>9, <2>2, <3>1 DEF IsPost
      <4>2. \A f \in net' : f.kind \in {"login", "ka"} => f \in net
        BY <1>8, <3>1
      <4>3. CASE ts = t
        BY <1>1, <1>4, <1>6, <2>1, <4>2, <4>3 DEF SavedInv
      <4>4. CASE IsPost(ts, out, net)
        BY <1>4, <4>2, <4>4 DEF OwnInv
      <4> QED BY <4>1, <4>3, <4>4
    <3>2. CASE g.kind # "post"
      <4>1. IsPost(ts, out, net)
        BY <1>8, <1>9, <2>2, <3>2 DEF IsPost
      <4>2. ts # t
        BY <1>1, <1>9, <2>1, <4>1 DEF IsPost
      <4> QED BY <1>3, <1>4, <1>8, <4>1, <4>2 DEF OwnInv
    <3> QED BY <3>1, <3>2
  <2>3. \A f \in net' : f.kind = "postAck" => InStored(f.ts, stored)
    BY <1>4, <1>8 DEF OwnInv, StampedFrame
  <2> QED BY <1>4, <1>5, <2>2, <2>3 DEF OwnInv
<1>15. ClockInv'
  BY <1>4, <1>5 DEF ClockInv
<1>16. GapInv'
  <2>1. FrameGap(g, ring, history, base, clock)
    BY <1>4 DEF FrameGap, StampedFrame, Carries, Good, GapInv, SinceGap
  <2>2. NetGap'
    BY <1>4, <1>5, <1>8, <2>1 DEF NetGap, GapInv
  <2> QED BY <1>4, <1>5, <1>7, <2>2 DEF GapInv, SinceGap, ServerGap
<1>17. AheadInv'
  <2>1. base > Top => FrameAhead(g)
    BY <1>4 DEF FrameAhead, StampedFrame, Carries, AheadInv
  <2> QED BY <1>4, <1>5, <1>7, <1>8, <2>1 DEF AheadInv
<1>18. (RecentInv /\ StoredInOrder /\ DeliveredIsStored /\ PlainPostsApart)'
  BY <1>5 DEF IInv, RecentInv, StoredInOrder, DeliveredIsStored, PlainPostsApart
<1> QED BY <1>11, <1>12, <1>13, <1>14, <1>15, <1>16, <1>17, <1>18 DEF IInv

LEMMA SendLoginStep == ASSUME IInv, SendLogin PROVE IInv'
<1> DEFINE g == Login(NextTs, session.since)
<1>1. g.ts = NextTs /\ StampedFrame(g)
  BY DEF Login, StampedFrame, SendLogin
<1>2. ram' \in RamType
  BY TypeFacts DEF SendLogin, RamType, IInv
<1> HIDE DEF g
<1>3. NextTs <= MaxTs /\ Stamped(NextTs) /\ net' \in Sent(net, g)
  BY DEF SendLogin, g
<1> QED BY <1>1, <1>2, <1>3, StampedStep DEF SendLogin

LEMMA SendKeepAliveStep == ASSUME IInv, SendKeepAlive PROVE IInv'
<1> DEFINE g == KeepAlive(NextTs, IF ram.resync THEN session.since ELSE 0)
<1>1. g.ts = NextTs /\ StampedFrame(g)
  BY DEF KeepAlive, StampedFrame, SendKeepAlive
<1>2. ram' \in RamType
  <2>1. NextTs \in 0..MaxTs
    BY StampFacts, ConstFacts DEF IInv, SendKeepAlive
  <2> QED BY <2>1, TypeFacts DEF SendKeepAlive, RamType, IInv
<1> HIDE DEF g
<1>3. NextTs <= MaxTs /\ Stamped(NextTs) /\ net' \in Sent(net, g)
  BY DEF SendKeepAlive, g
<1> QED BY <1>1, <1>2, <1>3, StampedStep DEF SendKeepAlive

LEMMA SendPostStep == ASSUME IInv, SendPost PROVE IInv'
<1> DEFINE g == Post(NextTs)
<1>1. g.ts = NextTs /\ StampedFrame(g)
  BY DEF Post, StampedFrame, SendPost
<1>2. ram' \in RamType
  BY TypeFacts DEF SendPost, IInv
<1> HIDE DEF g
<1>3. NextTs <= MaxTs /\ Stamped(NextTs) /\ net' \in Sent(net, g)
  BY DEF SendPost, g
<1> QED BY <1>1, <1>2, <1>3, StampedStep DEF SendPost

-----------------------------------------------------------------------------
(* The client changes nothing the server or a later boot relies on *)

\* Stamps and watermark stay; nothing new is in flight but posts sent again.
Calm ==
    /\ UNCHANGED <<serverVars, base>>
    /\ session' \in SessionType /\ nvs' \in SessionType
    /\ session'.last = session.last /\ nvs'.last = nvs.last
    /\ session'.since = session.since /\ nvs'.since = nvs.since
    /\ out' \subseteq out
    /\ IsFiniteSet(net') /\ Cardinality(net') <= NetCap
    /\ \A f \in net' : f \in net \/ (f = Post(f.ts) /\ f.ts \in out)

LEMMA CalmStep ==
    ASSUME IInv, Calm, \A ts : InHistory(ts, history) => InHistory(ts, history')
    PROVE  (NetInv /\ SavedInv /\ OwnInv /\ ClockInv /\ GapInv /\ AheadInv)'
<1>1. TypeOK /\ NetInv /\ SavedInv /\ OwnInv /\ ClockInv /\ GapInv /\ AheadInv
  BY DEF IInv
<1>2. /\ server' = server /\ ring' = ring /\ clock' = clock /\ stored' = stored
      /\ posted' = posted /\ base' = base
      /\ session'.last = session.last /\ nvs'.last = nvs.last
      /\ session'.since = session.since /\ nvs'.since = nvs.since
      /\ out' \subseteq out /\ IsFiniteSet(net')
  BY DEF Calm, serverVars
<1>3. /\ nvs.last \in Nat /\ nvs.last <= MaxTs /\ clock \in Nat
      /\ out \subseteq 1..nvs.last /\ out \subseteq 1..MaxTs
  BY <1>1, TypeFacts DEF ClockInv, SavedInv, TypeOK
<1>4. \A f \in net' : f \in net \/ (f.kind = "post" /\ f.ts \in out)
  <2>1. \A ts : Post(ts).kind = "post"
    BY DEF Post
  <2> QED BY <2>1 DEF Calm
<1>5. NetInv'
  <2>1. ASSUME NEW f \in net' PROVE FrameOK(f, nvs.last, clock)
    <3>1. CASE f \in net
      BY <1>1, <3>1 DEF NetInv
    <3>2. CASE f.kind = "post" /\ f.ts \in out
      <4>0. f.ts \in 1..nvs.last /\ f.ts \in 1..MaxTs
        BY <1>3, <3>2, Zenon
      <4>1. f.ts \in 1..MaxTs /\ f.ts <= nvs.last
        BY <1>3, <4>0
      <4> QED BY <3>2, <4>1 DEF FrameOK, FrameKinds
    <3> QED BY <1>4, <3>1, <3>2
  <2> QED BY <1>2, <2>1 DEF NetInv
<1>6. SavedInv'
  BY <1>1, <1>2 DEF SavedInv
<1>7. OwnInv'
  <2>1. \A ts \in 1..MaxTs : IsPost(ts, out', net') => IsPost(ts, out, net)
    BY <1>2, <1>4 DEF IsPost
  <2>2. \A f \in net' : f.kind # "post" => f \in net
    BY <1>4
  <2>3. \A ts \in 1..MaxTs : IsPost(ts, out', net') =>
          /\ \A f \in net' : f.kind \in {"login", "ka"} => f.ts # ts
          /\ server.grant /\ ts = server.last => InStored(ts, stored)
    BY <1>1, <2>1, <2>2 DEF OwnInv
  <2>4. \A f \in net' : f.kind = "postAck" => InStored(f.ts, stored)
    BY <1>1, <2>2 DEF OwnInv
  <2> QED BY <1>1, <1>2, <2>3, <2>4 DEF OwnInv
<1>8. ClockInv'
  BY <1>1, <1>2 DEF ClockInv
<1>9. /\ \/ session.since = base
         \/ session.since <= clock /\ Covered(session.since, ring, history', base)
      /\ server.known => Good(server.since, ring, history', base, clock)
      /\ \A f \in net : FrameGap(f, ring, history', base, clock)
  <2>1. clock >= clock
    BY <1>3
  <2> QED BY <1>1, <1>3, <2>1, WatermarksKept
<1>10. GapInv'
  <2>1. \A f \in net' : FrameGap(f, ring, history', base, clock)
    <3>1. \A f : f.kind = "post" => FrameGap(f, ring, history', base, clock)
      BY DEF FrameGap, Carries
    <3> QED BY <1>4, <1>9, <3>1
  <2> QED BY <1>2, <1>9, <2>1 DEF GapInv, SinceGap, ServerGap, NetGap
<1>11. AheadInv'
  <2>1. \A f : f.kind = "post" => FrameAhead(f)
    BY DEF FrameAhead, Carries
  <2> QED BY <1>1, <1>2, <1>4, <2>1 DEF AheadInv
<1> QED BY <1>5, <1>6, <1>7, <1>8, <1>10, <1>11

\* What Calm needs of a step whose frames are some of those in flight.
LEMMA Dropped ==
    ASSUME IInv, NEW f, net' = Rest(f) \/ net' = net
    PROVE  /\ IsFiniteSet(net') /\ Cardinality(net') <= NetCap
           /\ \A x \in net' : x \in net
BY RestFacts DEF IInv, TypeOK, NetInv

LEMMA LoseRouteStep == ASSUME IInv, LoseRoute PROVE IInv'
<1>1. /\ session \in SessionType /\ ram \in RamType /\ session.last = nvs.last
      /\ session.since = nvs.since /\ TypeOK
  BY TypeFacts DEF IInv, SavedInv
<1>2. /\ session' = [session EXCEPT !.route = "none"] /\ nvs' = session'
      /\ ram' = [ram EXCEPT !.ka = 0]
      /\ UNCHANGED <<recent, out, history, acked, base, reboots, serverVars, net>>
  BY DEF LoseRoute
<1>3. /\ session' \in SessionType /\ session'.last = session.last
      /\ session'.since = session.since
  BY <1>1, <1>2 DEF SessionType, Routes
<1>4. ram' \in RamType
  BY <1>1, <1>2, ConstFacts DEF RamType
<1>5. Calm
  BY <1>1, <1>2, <1>3 DEF Calm, IInv, TypeOK, NetInv
<1>6. TypeOK'
  <2>1. {session', nvs'} \subseteq SessionType
    BY <1>2, <1>3
  <2> QED BY <1>1, <1>2, <1>4, <2>1 DEF TypeOK, SessionType, RamType, serverVars
<1>7. (RecentInv /\ StoredInOrder /\ DeliveredIsStored /\ PlainPostsApart)'
  BY <1>2 DEF IInv, RecentInv, StoredInOrder, DeliveredIsStored, PlainPostsApart, serverVars
<1> QED BY <1>2, <1>5, <1>6, <1>7, CalmStep DEF IInv

LEMMA RetryPostStep == ASSUME IInv, NEW ts \in out, RetryPost(ts) PROVE IInv'
<1>1. /\ net' \in Sent(net, Post(ts)) /\ UNCHANGED <<client, serverVars>>
  BY DEF RetryPost, Sent
<1>2. TypeOK /\ NetInv /\ nvs \in SessionType /\ session \in SessionType
  BY TypeFacts DEF IInv
<1>3. /\ IsFiniteSet(net') /\ Cardinality(net') <= NetCap /\ net' \subseteq net \cup {Post(ts)}
  BY <1>1, <1>2, SentFacts DEF TypeOK, NetInv
<1>4. Post(ts).ts = ts
  BY DEF Post
<1>5. Calm
  BY <1>1, <1>2, <1>3, <1>4 DEF Calm, client
<1>6. TypeOK'
  BY <1>1, <1>2, <1>3 DEF TypeOK, client, serverVars
<1>7. (RecentInv /\ StoredInOrder /\ DeliveredIsStored /\ PlainPostsApart)'
  BY <1>1 DEF IInv, RecentInv, StoredInOrder, DeliveredIsStored, PlainPostsApart,
              client, serverVars
<1>8. history' = history
  BY <1>1 DEF client
<1> QED BY <1>5, <1>6, <1>7, <1>8, CalmStep DEF IInv

LEMMA RxKaAckStep == ASSUME IInv, NEW f \in net, RxKaAck(f) PROVE IInv'
<1>1. /\ net' = Rest(f)
      /\ ram' = IF ram.ka = f.ts THEN [ram EXCEPT !.ka = 0] ELSE ram
      /\ UNCHANGED <<session, nvs, recent, out, history, acked, base, reboots, serverVars>>
  BY DEF RxKaAck
<1>2. TypeOK /\ nvs \in SessionType /\ session \in SessionType /\ ram \in RamType
  BY TypeFacts DEF IInv
<1>3. ram' \in RamType
  BY <1>1, <1>2, ConstFacts DEF RamType
<1>4. IsFiniteSet(net') /\ Cardinality(net') <= NetCap /\ \A x \in net' : x \in net
  BY <1>1, Dropped
<1>5. Calm
  BY <1>1, <1>2, <1>4 DEF Calm
<1>6. TypeOK'
  BY <1>1, <1>2, <1>3, <1>4 DEF TypeOK, serverVars, RamType
<1>7. (RecentInv /\ StoredInOrder /\ DeliveredIsStored /\ PlainPostsApart)'
  BY <1>1 DEF IInv, RecentInv, StoredInOrder, DeliveredIsStored, PlainPostsApart, serverVars
<1> QED BY <1>1, <1>5, <1>6, <1>7, CalmStep DEF IInv

LEMMA RxPostAckStep ==
    ASSUME IInv, NEW f \in net, f.kind = "postAck", RxPostAck(f) PROVE IInv'
<1>1. /\ net' = Rest(f) /\ out' = out \ {f.ts}
      /\ acked' = IF f.ts \in out THEN acked \cup {f.ts} ELSE acked
      /\ UNCHANGED <<session, nvs, ram, recent, history, base, reboots, serverVars>>
  BY DEF RxPostAck
<1>2. TypeOK /\ nvs \in SessionType /\ session \in SessionType /\ ram \in RamType
  BY TypeFacts DEF IInv
<1>3. IsFiniteSet(net') /\ Cardinality(net') <= NetCap /\ \A x \in net' : x \in net
  BY <1>1, Dropped
<1>4. Calm
  BY <1>1, <1>2, <1>3 DEF Calm
<1>5. TypeOK'
  <2>1. out' \subseteq 1..MaxTs /\ acked' \subseteq 1..MaxTs
    BY <1>1, <1>2 DEF TypeOK
  <2> QED BY <1>1, <1>2, <1>3, <2>1 DEF TypeOK, serverVars
<1>6. DeliveredIsStored'
  <2>1. InStored(f.ts, stored)
    BY DEF IInv, OwnInv
  <2> QED BY <1>1, <2>1 DEF IInv, DeliveredIsStored, InStored, serverVars
<1>7. (RecentInv /\ StoredInOrder /\ PlainPostsApart)'
  BY <1>1 DEF IInv, RecentInv, StoredInOrder, PlainPostsApart, serverVars
<1> QED BY <1>1, <1>4, <1>5, <1>6, <1>7, CalmStep DEF IInv

-----------------------------------------------------------------------------
(* The conversation and its dedup tail *)

\* A post that is entered is in the history, with all that was there.
LEMMA Entered ==
    ASSUME NEW h \in Seq(Entry), NEW e \in Entry, NEW k, k = Append(h, e)
    PROVE  /\ k \in Seq(Entry) /\ Len(k) = Len(h) + 1 /\ Len(h) \in Nat
           /\ \A i \in 1..Len(h) : k[i] = h[i]
           /\ k[Len(h) + 1] = e
           /\ \A ts : InHistory(ts, h) => InHistory(ts, k)
           /\ InHistory(e.ts, k)
<1>1. /\ k \in Seq(Entry) /\ Len(k) = Len(h) + 1 /\ Len(h) \in Nat
      /\ \A i \in 1..Len(h) : k[i] = h[i]
      /\ k[Len(h) + 1] = e
  OBVIOUS
<1>2. \A i \in 1..Len(h) : i \in 1..Len(k)
  BY <1>1
<1>3. Len(h) + 1 \in 1..Len(k)
  BY <1>1
<1>4. InHistory(e.ts, k)
  BY <1>1, <1>3 DEF InHistory
<1>5. ASSUME NEW ts, InHistory(ts, h) PROVE InHistory(ts, k)
  <2>1. PICK i \in 1..Len(h) : h[i].ts = ts
    BY <1>5 DEF InHistory
  <2>2. i \in 1..Len(k) /\ k[i].ts = ts
    BY <1>1, <1>2, <2>1
  <2> QED BY <2>2 DEF InHistory
<1> QED BY <1>1, <1>4, <1>5

\* What the tail takes for a duplicate is in the history.
LEMMA DuplicateIsEntered ==
    ASSUME TypeOK, RecentInv, NEW ts, NEW kind, Duplicate(ts, kind)
    PROVE  InHistory(ts, history)
<1>1. PICK i \in 1..Len(recent) : recent[i].ts = ts
  BY DEF Duplicate, Matches
<1>2. Len(recent) \in Nat /\ Len(history) \in Nat
  BY TypeFacts
<1>3. Len(history) - Len(recent) + i \in 1..Len(history)
  BY <1>1, <1>2 DEF RecentInv
<1> QED BY <1>1, <1>3 DEF RecentInv, InHistory

\* A post the tail did not have is far from an equal one.
LEMMA EnteredApart ==
    ASSUME TypeOK, RecentInv, PlainPostsApart, NEW ts, NEW kind \in Kinds, ts \in Nat,
           ~Duplicate(ts, kind), history' = Append(history, [ts |-> ts, kind |-> kind])
    PROVE  PlainPostsApart'
<1> DEFINE e == [ts |-> ts, kind |-> kind]
           n == Len(history)
           m == Len(recent)
<1>1. e \in Entry /\ history \in Seq(Entry) /\ recent \in Seq(Seen) /\ e.ts = ts /\ e.kind = kind
  BY TypeFacts DEF Entry
<1>2. /\ Len(history') = n + 1 /\ n \in Nat
      /\ \A i \in 1..n : history'[i] = history[i]
      /\ history'[n + 1] = e
  BY <1>1, Entered
<1>3. /\ m \in Nat /\ m <= n /\ (m >= RecentCap \/ m = n)
      /\ \A i \in 1..m : recent[i].ts = history[n - m + i].ts
  BY <1>1 DEF RecentInv
<1>4. kind = "plain" => \A i \in 1..m : recent[i].ts # ts
  BY DEF Duplicate, Matches
<1> HIDE DEF e, n, m
<1>5. ASSUME NEW i \in 1..(n + 1), NEW j \in 1..(n + 1), i < j,
             history'[i] = history'[j], history'[i].kind = "plain"
      PROVE  j - i > RecentCap
  <2>1. i \in 1..n /\ history'[i] = history[i]
    BY <1>2, <1>5
  <2>2. CASE j \in 1..n
    <3>1. history[i] = history[j] /\ history[i].kind = "plain"
      BY <1>2, <1>5, <2>1, <2>2
    <3> QED BY <1>5, <2>1, <2>2, <3>1 DEF PlainPostsApart, n
  <2>3. CASE j = n + 1
    <3>1. history[i] = e /\ kind = "plain" /\ history[i].ts = ts
      BY <1>1, <1>2, <1>5, <2>1, <2>3
    <3>2. i <= n - m
      <4>1. SUFFICES ASSUME i > n - m PROVE FALSE
        BY <1>2, <1>3
      <4>2. i - (n - m) \in 1..m /\ n - m + (i - (n - m)) = i
        BY <1>2, <1>3, <4>1, <2>1
      <4>3. recent[i - (n - m)].ts = history[n - m + (i - (n - m))].ts
        BY <1>3, <4>2
      <4> QED BY <1>4, <3>1, <4>2, <4>3
    <3> QED BY <1>2, <1>3, <2>3, <2>1, <3>2, ConstFacts
  <2> QED BY <1>2, <2>2, <2>3
<1> QED BY <1>2, <1>5 DEF PlainPostsApart

\* The tail after one more post, and the tail a boot reads back.
LEMMA RememberMirrors ==
    ASSUME TypeOK, RecentInv, NEW e \in Entry, history' = Append(history, e),
           recent' = Remember(e.ts)
    PROVE  RecentInv' /\ recent' \in Seq(Seen)
<1> DEFINE n == Len(history)
           m == Len(recent)
           x == [ts |-> e.ts, live |-> TRUE]
<1>1. /\ history \in Seq(Entry) /\ recent \in Seq(Seen) /\ x \in Seen /\ x.ts = e.ts
      /\ n \in Nat /\ m \in Nat
  BY TypeFacts DEF Entry, Seen
<1>2. /\ Len(history') = n + 1
      /\ \A i \in 1..n : history'[i] = history[i]
      /\ history'[n + 1] = e
  BY <1>1, Entered
<1>3. /\ m <= n /\ (m >= RecentCap \/ m = n)
      /\ \A i \in 1..m : recent[i].ts = history[n - m + i].ts
  BY DEF RecentInv
<1>4. CASE m >= RecentCap
  <2> DEFINE tl == Tail(recent)
  <2>1. recent' = Append(tl, x)
    BY <1>4 DEF Remember
  <2>2. recent # <<>> /\ m > 0
    BY <1>1, <1>4, ConstFacts
  <2>3. tl \in Seq(Seen) /\ Len(tl) = m - 1 /\ \A i \in 1..(m - 1) : tl[i] = recent[i + 1]
    BY <1>1, <2>2
  <2> HIDE DEF tl, x
  <2>4. /\ recent' \in Seq(Seen) /\ Len(recent') = m
        /\ \A i \in 1..(m - 1) : recent'[i] = tl[i]
        /\ recent'[m] = x
    BY <1>1, <2>1, <2>2, <2>3
  <2> HIDE DEF n, m
  <2>5. ASSUME NEW i \in 1..m PROVE recent'[i].ts = history'[n + 1 - m + i].ts
    <3>1. CASE i = m
      <4>1. n + 1 - m + i = n + 1
        BY <1>1, <3>1
      <4> QED BY <1>1, <1>2, <2>4, <3>1, <4>1
    <3>2. CASE i # m
      <4>1. i \in 1..(m - 1) /\ i + 1 \in 1..m /\ n - m + (i + 1) \in 1..n
            /\ n - m + (i + 1) = n + 1 - m + i
        BY <1>1, <1>3, <3>2
      <4>2. recent'[i] = recent[i + 1]
        BY <2>3, <2>4, <4>1
      <4>3. recent[i + 1].ts = history[n - m + (i + 1)].ts
        BY <1>3, <4>1
      <4>4. history'[n - m + (i + 1)] = history[n - m + (i + 1)]
        BY <1>2, <4>1
      <4> QED BY <4>1, <4>2, <4>3, <4>4
    <3> QED BY <3>1, <3>2
  <2>6. \A i \in 1..Len(recent') :
            recent'[i].ts = history'[Len(history') - Len(recent') + i].ts
    <3> SUFFICES ASSUME NEW i \in 1..Len(recent')
                 PROVE  recent'[i].ts = history'[Len(history') - Len(recent') + i].ts
      OBVIOUS
    <3>1. Len(recent') = m /\ Len(history') = n + 1
      BY <1>2, <2>4
    <3>2. i \in 1..m /\ Len(history') - Len(recent') + i = n + 1 - m + i
      BY <1>1, <3>1
    <3>3. recent'[i].ts = history'[n + 1 - m + i].ts
      BY <2>5, <3>2
    <3> QED BY <3>2, <3>3
  <2>7. Len(recent') <= Len(history') /\ Len(recent') >= RecentCap
    BY <1>1, <1>2, <1>3, <1>4, <2>4
  <2> QED BY <2>4, <2>6, <2>7 DEF RecentInv
<1>5. CASE ~(m >= RecentCap)
  <2>1. recent' = Append(recent, x) /\ m = n
    BY <1>3, <1>5 DEF Remember
  <2> HIDE DEF x
  <2>2. /\ recent' \in Seq(Seen) /\ Len(recent') = m + 1
        /\ \A i \in 1..m : recent'[i] = recent[i]
        /\ recent'[m + 1] = x
    BY <1>1, <2>1
  <2> HIDE DEF n, m
  <2>3. ASSUME NEW i \in 1..(m + 1) PROVE recent'[i].ts = history'[n + 1 - (m + 1) + i].ts
    <3>1. n + 1 - (m + 1) + i = i
      BY <1>1, <2>1
    <3>2. CASE i = m + 1
      BY <1>1, <1>2, <2>1, <2>2, <3>1, <3>2
    <3>3. CASE i # m + 1
      <4>1. i \in 1..m /\ i \in 1..n /\ n - m + i = i
        BY <1>1, <2>1, <3>3
      <4> QED BY <1>2, <1>3, <2>2, <3>1, <4>1
    <3> QED BY <3>2, <3>3
  <2> QED BY <1>1, <1>2, <2>1, <2>2, <2>3 DEF RecentInv
<1> QED BY <1>4, <1>5

LEMMA RehydratedMirrors ==
    ASSUME history' \in Seq(Entry), recent' = Rehydrated(history')
    PROVE  RecentInv' /\ recent' \in Seq(Seen)
<1> DEFINE h == history'
           kept == SeqTail(h, HistoryKeep)
<1>1. HistoryKeep \in Nat /\ h \in Seq(Entry) /\ Len(h) \in Nat
  BY ConstFacts
<1> HIDE DEF h
<1>2. /\ kept \in Seq(Entry)
      /\ Len(kept) = IF Len(h) <= HistoryKeep THEN Len(h) ELSE HistoryKeep
      /\ \A i \in 1..Len(kept) : kept[i] = h[Len(h) - Len(kept) + i]
  BY <1>1, SeqTailFacts
<1>3. recent' = [i \in 1..Len(kept) |-> [ts |-> kept[i].ts, live |-> FALSE]]
  BY DEF Rehydrated, h
<1> HIDE DEF kept
<1>4. Len(kept) \in Nat /\ \A i \in 1..Len(kept) : kept[i].ts \in Nat
  <2>1. \A i \in 1..Len(kept) : kept[i] \in Entry
    BY <1>2
  <2> QED BY <1>2, <2>1 DEF Entry
<1>5. /\ recent' \in Seq(Seen) /\ Len(recent') = Len(kept)
      /\ \A i \in 1..Len(kept) : recent'[i].ts = kept[i].ts
  <2>1. \A i \in 1..Len(kept) : [ts |-> kept[i].ts, live |-> FALSE] \in Seen
    BY <1>4 DEF Seen
  <2> QED BY <1>3, <1>4, <2>1
<1>6. \A i \in 1..Len(recent') : recent'[i].ts = h[Len(h) - Len(recent') + i].ts
  BY <1>2, <1>5
<1>7. Len(recent') <= Len(h) /\ (Len(recent') >= RecentCap \/ Len(recent') = Len(h))
  BY <1>1, <1>2, <1>5, ConstFacts
<1> QED BY <1>5, <1>6, <1>7 DEF RecentInv, h

-----------------------------------------------------------------------------
(* The client boots *)

LEMMA BootStep ==
    ASSUME IInv, NEW h \in Seq(Entry), BootWith(h), PlainPostsApart',
           \A ts : InHistory(ts, history) => InHistory(ts, h),
           IsFiniteSet(net'), Cardinality(net') <= NetCap, \A x \in net' : x \in net
    PROVE  IInv'
<1>1. /\ reboots < MaxReboots /\ reboots' = reboots + 1 /\ session' = Resumed(nvs)
      /\ ram' = FreshRam /\ recent' = Rehydrated(h) /\ out' = {} /\ history' = h
      /\ UNCHANGED <<nvs, acked, base, serverVars>>
  BY DEF BootWith
<1>2. /\ TypeOK /\ nvs \in SessionType /\ session.last = nvs.last
      /\ session.since = nvs.since
  BY TypeFacts DEF IInv, SavedInv
<1>3. /\ session' \in SessionType /\ session'.last = nvs.last /\ session'.since = nvs.since
  BY <1>1, <1>2 DEF Resumed, SessionType, Routes
<1>4. ram' \in RamType
  BY <1>1, ConstFacts DEF RamType, FreshRam
<1>5. recent' \in Seq(Seen) /\ RecentInv'
  BY <1>1, RehydratedMirrors
<1>6. Calm
  BY <1>1, <1>2, <1>3 DEF Calm
<1>7. TypeOK'
  <2>1. reboots' \in 0..MaxReboots
    BY <1>1, <1>2, ConstFacts DEF TypeOK
  <2>2. {session', nvs'} \subseteq SessionType
    BY <1>1, <1>2, <1>3
  <2>3. history' \in Seq(Entry)
    BY <1>1
  <2> QED BY <1>1, <1>2, <1>4, <1>5, <2>1, <2>2, <2>3
          DEF TypeOK, serverVars, SessionType, RamType, Entry, Seen
<1>8. (StoredInOrder /\ DeliveredIsStored)'
  BY <1>1 DEF IInv, StoredInOrder, DeliveredIsStored, serverVars
<1> QED BY <1>1, <1>5, <1>6, <1>7, <1>8, CalmStep DEF IInv

LEMMA RebootStep == ASSUME IInv, Reboot PROVE IInv'
<1>1. history \in Seq(Entry)
  BY TypeFacts DEF IInv
<1>2. BootWith(history) /\ net' = net
  BY DEF Reboot
<1>3. history' = history
  BY <1>2 DEF BootWith
<1>4. PlainPostsApart'
  BY <1>3 DEF IInv, PlainPostsApart
<1>5. IsFiniteSet(net') /\ Cardinality(net') <= NetCap
  BY <1>2 DEF IInv, TypeOK, NetInv
<1> QED BY <1>1, <1>2, <1>4, <1>5, BootStep

LEMMA RxPushCutShortStep ==
    ASSUME IInv, NEW f \in net, f.kind = "push", RxPushCutShort(f) PROVE IInv'
<1>1. f.ts \in Nat /\ f.arg \in Kinds
  BY DEF IInv, NetInv, FrameOK
<1>2. history \in Seq(Entry) /\ TypeOK /\ RecentInv /\ PlainPostsApart
  BY TypeFacts DEF IInv
<1>3. IsFiniteSet(net') /\ Cardinality(net') <= NetCap /\ \A x \in net' : x \in net
  BY Dropped DEF RxPushCutShort
<1>4. CASE Duplicate(f.ts, f.arg)
  <2>1. BootWith(history)
    BY <1>4 DEF RxPushCutShort
  <2>2. history' = history
    BY <2>1 DEF BootWith
  <2>3. PlainPostsApart'
    BY <1>2, <2>2 DEF PlainPostsApart
  <2> QED BY <1>2, <1>3, <2>1, <2>3, BootStep
<1>5. CASE ~Duplicate(f.ts, f.arg)
  <2> DEFINE e == [ts |-> f.ts, kind |-> f.arg]
             h == Append(history, e)
  <2>1. BootWith(h)
    BY <1>5 DEF RxPushCutShort
  <2>2. e \in Entry
    BY <1>1 DEF Entry
  <2>3. h \in Seq(Entry) /\ \A ts : InHistory(ts, history) => InHistory(ts, h)
    <3> HIDE DEF e
    <3>1. h = Append(history, e)
      OBVIOUS
    <3> HIDE DEF h
    <3> QED BY <1>2, <2>2, <3>1, Entered
  <2>4. PlainPostsApart'
    <3>1. history' = h
      BY <2>1 DEF BootWith
    <3> QED BY <1>1, <1>2, <1>5, <3>1, EnteredApart
  <2> HIDE DEF h
  <2> QED BY <1>3, <2>1, <2>3, <2>4, BootStep
<1> QED BY <1>4, <1>5

-----------------------------------------------------------------------------
(* The client hears a reply, a push *)

LEMMA RxReplyStep == ASSUME IInv, NEW f \in net, f.kind = "reply", RxReply(f) PROVE IInv'
<1> DEFINE since == Reconcile(session.since, f.ts)
<1>1. TypeOK /\ NetInv /\ SavedInv /\ OwnInv /\ ClockInv /\ GapInv /\ AheadInv
  BY DEF IInv
<1>2. f.arg \in Routes /\ f.ts \in Nat /\ f.ts > 1
  BY <1>1, ConstFacts DEF NetInv, FrameOK
<1>3. /\ session \in SessionType /\ session.since \in Nat /\ ram \in RamType
      /\ session.last \in Nat /\ ram.wall \in Nat /\ server.grant \in BOOLEAN
      /\ server.last \in Nat /\ server.last <= MaxTs
  BY <1>1, TypeFacts, ConstFacts
<1>4. since \in Nat /\ since = (IF session.since > f.ts + Slack THEN Floor ELSE session.since)
  BY <1>2, <1>3, ConstFacts DEF Reconcile
<1>5. /\ session' = [session EXCEPT !.post = server.grant,
                                    !.route = IF f.arg = "none" THEN @ ELSE f.arg,
                                    !.since = since]
      /\ nvs' = session'
      /\ base' = IF session'.since # session.since THEN Floor ELSE base
      /\ ram' = [ram EXCEPT !.resync = TRUE, !.wall = MaxOf(@, f.ts)]
      /\ net' = Rest(f)
      /\ UNCHANGED <<recent, out, history, acked, reboots>>
      /\ server' = server /\ ring' = ring /\ clock' = clock /\ stored' = stored
      /\ posted' = posted
  BY DEF RxReply, serverVars
<1> HIDE DEF since
<1>6. /\ session' \in SessionType /\ session'.since = since /\ session'.last = session.last
  BY <1>2, <1>3, <1>4, <1>5 DEF SessionType, Routes
<1>7. ram' \in RamType
  <2>1. MaxOf(ram.wall, f.ts) \in Nat
    BY <1>2, <1>3 DEF MaxOf
  <2> QED BY <1>3, <1>5, <2>1 DEF RamType
<1>8. IsFiniteSet(net') /\ Cardinality(net') <= NetCap /\ \A x \in net' : x \in net
  BY <1>5, Dropped
<1>9. TypeOK'
  <2>1. {session', nvs'} \subseteq SessionType
    BY <1>5, <1>6
  <2> QED BY <1>1, <1>5, <1>7, <1>8, <2>1 DEF TypeOK, SessionType, RamType
<1>10. NetInv' /\ SavedInv'
  BY <1>1, <1>5, <1>6, <1>8 DEF NetInv, SavedInv
<1>11. OwnInv'
  <2>1. \A ts : IsPost(ts, out, net') => IsPost(ts, out, net)
    BY <1>8 DEF IsPost
  <2> QED BY <1>1, <1>5, <1>8, <2>1 DEF OwnInv
<1>12. ClockInv'
  <2>1. base' \in Nat
    BY <1>1, <1>5, ConstFacts DEF ClockInv
  <2> QED BY <1>1, <1>5, <2>1 DEF ClockInv
<1>13. GapInv' /\ AheadInv'
  <2>1. CASE since = session.since
    <3>1. base' = base /\ session'.since = session.since
      BY <1>5, <1>6, <2>1
    <3> QED BY <1>1, <1>5, <1>8, <3>1 DEF GapInv, SinceGap, ServerGap, NetGap, AheadInv
  <2>2. CASE since # session.since
    <3>1. session.since > f.ts + Slack /\ since = 1 /\ base' = 1 /\ session'.since = 1
      BY <1>2, <1>3, <1>4, <1>5, <1>6, <2>2, ConstFacts
    \* so far ahead the watermark is the one the client was provisioned with
    <3>2. clock \in Nat /\ clock <= Top /\ base \in Nat
      BY <1>1, <1>3, ConstFacts DEF ClockInv
    <3>3. session.since > Top
      BY <1>2, <1>3, <3>1, ConstFacts
    <3>4. base > Top
      BY <1>1, <1>3, <3>2, <3>3, ConstFacts DEF GapInv, SinceGap
    <3>5. /\ server.known => server.since > Top
          /\ \A x \in net : FrameAhead(x)
      BY <1>1, <3>4 DEF AheadInv
    <3>6. ASSUME NEW x \in net PROVE FrameGap(x, ring, history, 1, clock)
      BY <3>5 DEF FrameAhead, FrameGap, Good
    <3>7. GapInv'
      BY <1>5, <1>8, <3>1, <3>5, <3>6 DEF GapInv, SinceGap, ServerGap, NetGap, Good
    <3>8. ~(base' > Top)
      BY <3>1, ConstFacts
    <3> QED BY <3>7, <3>8 DEF AheadInv
  <2> QED BY <2>1, <2>2
<1>14. (RecentInv /\ StoredInOrder /\ DeliveredIsStored /\ PlainPostsApart)'
  BY <1>5 DEF IInv, RecentInv, StoredInOrder, DeliveredIsStored, PlainPostsApart
<1> QED BY <1>9, <1>10, <1>11, <1>12, <1>13, <1>14 DEF IInv

LEMMA RxPushStep == ASSUME IInv, NEW f \in net, f.kind = "push", RxPush(f) PROVE IInv'
<1> DEFINE g == PushAck(f.ts)
           since == MaxOf(session.since, f.ts)
<1>1. TypeOK /\ NetInv /\ SavedInv /\ OwnInv /\ ClockInv /\ GapInv /\ AheadInv
  BY DEF IInv
<1>2. f.ts \in Nat /\ f.arg \in Kinds /\ f.ts <= clock /\ clock \in Nat
      /\ CoveredBelow(f.ts, ring, history, base)
  BY <1>1 DEF NetInv, FrameOK, ClockInv, GapInv, NetGap, FrameGap
<1>3. /\ session \in SessionType /\ session.since \in Nat /\ ram \in RamType
      /\ ram.wall \in Nat /\ history \in Seq(Entry) /\ ring \in Seq(RingPost)
      /\ nvs.last \in Nat
  BY <1>1, TypeFacts
<1>4. since \in Nat /\ (since = session.since \/ since = f.ts)
  BY <1>2, <1>3 DEF MaxOf
<1>5. g.kind = "ack" /\ g.ts = f.ts
  BY DEF PushAck
<1>6. /\ session' = [session EXCEPT !.since = since] /\ nvs' = session'
      /\ ram' = [ram EXCEPT !.wall = MaxOf(@, f.ts)]
      /\ net' \in Sent(Rest(f), g)
      /\ UNCHANGED <<out, acked, base, reboots>>
      /\ server' = server /\ ring' = ring /\ clock' = clock /\ stored' = stored
      /\ posted' = posted
  BY DEF RxPush, serverVars
<1> HIDE DEF since, g
<1>7. /\ session' \in SessionType /\ session'.since = since /\ session'.last = session.last
  BY <1>3, <1>4, <1>6 DEF SessionType
<1>8. ram' \in RamType
  <2>1. MaxOf(ram.wall, f.ts) \in Nat
    BY <1>2, <1>3 DEF MaxOf
  <2> QED BY <1>3, <1>6, <2>1 DEF RamType
<1>9. IsFiniteSet(net') /\ Cardinality(net') <= NetCap /\ net' \subseteq net \cup {g}
  <2>1. IsFiniteSet(Rest(f)) /\ Cardinality(Rest(f)) <= NetCap /\ Rest(f) \subseteq net
    BY <1>1, RestFacts DEF TypeOK, NetInv
  <2>2. IsFiniteSet(net') /\ Cardinality(net') <= NetCap /\ net' \subseteq Rest(f) \cup {g}
    BY <1>6, <2>1, SentFacts
  <2> QED BY <2>1, <2>2
<1>10. /\ history' \in Seq(Entry) /\ recent' \in Seq(Seen)
       /\ \A ts : InHistory(ts, history) => InHistory(ts, history')
       /\ InHistory(f.ts, history')
       /\ RecentInv' /\ PlainPostsApart'
  <2>1. CASE Duplicate(f.ts, f.arg)
    <3>1. history' = history /\ recent' = recent
      BY <2>1 DEF RxPush
    <3>2. InHistory(f.ts, history)
      BY <1>1, <2>1, DuplicateIsEntered DEF IInv
    <3> QED BY <1>1, <1>3, <3>1, <3>2, TypeFacts DEF IInv, RecentInv, PlainPostsApart
  <2>2. CASE ~Duplicate(f.ts, f.arg)
    <3> DEFINE e == [ts |-> f.ts, kind |-> f.arg]
    <3>1. history' = Append(history, e) /\ recent' = Remember(f.ts)
      BY <2>2 DEF RxPush
    <3>2. e \in Entry /\ e.ts = f.ts
      BY <1>2 DEF Entry
    <3>3. PlainPostsApart'
      BY <1>1, <1>2, <2>2, <3>1, EnteredApart DEF IInv
    <3> HIDE DEF e
    <3>4. RecentInv' /\ recent' \in Seq(Seen)
      BY <1>1, <3>1, <3>2, RememberMirrors DEF IInv
    <3>5. /\ history' \in Seq(Entry) /\ InHistory(e.ts, history')
          /\ \A ts : InHistory(ts, history) => InHistory(ts, history')
      BY <1>3, <3>1, <3>2, Entered
    <3> QED BY <3>2, <3>3, <3>4, <3>5
  <2> QED BY <2>1, <2>2
<1>11. TypeOK'
  <2>1. {session', nvs'} \subseteq SessionType
    BY <1>6, <1>7
  <2> QED BY <1>1, <1>6, <1>8, <1>9, <1>10, <2>1
          DEF TypeOK, SessionType, RamType, Entry, Seen
<1>12. NetInv'
  <2>1. FrameOK(g, nvs.last, clock)
    BY <1>2, <1>5 DEF FrameOK, FrameKinds
  <2>2. nvs'.last = nvs.last
    BY <1>1, <1>6, <1>7 DEF SavedInv
  <2> QED BY <1>1, <1>6, <1>9, <2>1, <2>2 DEF NetInv
<1>13. SavedInv'
  BY <1>1, <1>6, <1>7 DEF SavedInv
<1>14. OwnInv'
  <2>1. \A ts : IsPost(ts, out, net') => IsPost(ts, out, net)
    BY <1>5, <1>9 DEF IsPost
  <2>2. \A x \in net' : x.kind # "ack" => x \in net
    BY <1>5, <1>9
  <2> QED BY <1>1, <1>6, <2>1, <2>2 DEF OwnInv
<1>15. ClockInv'
  BY <1>1, <1>6 DEF ClockInv
<1>16. /\ \/ session.since = base
          \/ session.since <= clock /\ Covered(session.since, ring, history', base)
       /\ server.known => Good(server.since, ring, history', base, clock)
       /\ \A x \in net : FrameGap(x, ring, history', base, clock)
  <2>1. clock >= clock
    BY <1>2
  <2> QED BY <1>1, <1>2, <1>10, <2>1, WatermarksKept
<1>17. Covered(f.ts, ring, history', base)
  <2> SUFFICES ASSUME NEW i \in 1..Len(ring), ring[i].kind # Own, ring[i].ts > base,
                      ring[i].ts <= f.ts
               PROVE  InHistory(ring[i].ts, history')
    BY DEF Covered
  <2>1. ring[i] \in RingPost
    BY <1>3
  <2>2. ring[i].ts \in Nat
    BY <2>1 DEF RingPost
  <2>3. CASE ring[i].ts = f.ts
    BY <1>10, <2>3
  <2>4. CASE ring[i].ts < f.ts
    BY <1>2, <1>10, <2>4 DEF CoveredBelow
  <2> QED BY <1>2, <2>2, <2>3, <2>4
<1>18. GapInv'
  <2>1. SinceGap'
    BY <1>2, <1>4, <1>6, <1>7, <1>16, <1>17 DEF SinceGap
  <2>2. FrameGap(g, ring, history', base, clock)
    BY <1>5, <1>17 DEF FrameGap, Carries
  <2> QED BY <1>6, <1>9, <1>16, <2>1, <2>2 DEF GapInv, ServerGap, NetGap
<1>19. AheadInv'
  <2>1. ~(base > Top)
    BY <1>1 DEF AheadInv, FrameAhead
  <2> QED BY <1>6, <2>1 DEF AheadInv
<1>20. (StoredInOrder /\ DeliveredIsStored)'
  BY <1>6 DEF IInv, StoredInOrder, DeliveredIsStored
<1> QED BY <1>10, <1>11, <1>12, <1>13, <1>14, <1>15, <1>18, <1>19, <1>20 DEF IInv

-----------------------------------------------------------------------------
(* The server *)

\* An answer takes the place of the frame it answers.
LEMMA Answered ==
    ASSUME IInv, NEW f, NEW g, net' \in Sent(Rest(f), g)
    PROVE  IsFiniteSet(net') /\ Cardinality(net') <= NetCap /\ net' \subseteq net \cup {g}
<1>1. IsFiniteSet(Rest(f)) /\ Cardinality(Rest(f)) <= NetCap /\ Rest(f) \subseteq net
  BY RestFacts DEF IInv, TypeOK, NetInv
<1>2. IsFiniteSet(net') /\ Cardinality(net') <= NetCap /\ net' \subseteq Rest(f) \cup {g}
  BY <1>1, SentFacts
<1> QED BY <1>1, <1>2

\* What a server that has accepted a frame must still be: its record of the
\* client is in order, and its posts are the old ones and perhaps a newer one.
ServerMoves(g) ==
    /\ UNCHANGED client
    /\ IsFiniteSet(net') /\ Cardinality(net') <= NetCap /\ net' \subseteq net \cup {g}
    /\ server' \in ServerType /\ server'.last <= nvs.last
    /\ ~server'.known => server'.last = 0
    /\ clock' \in Nat /\ clock' >= clock
    /\ ring' \in Seq(RingPost) /\ Len(ring') <= RingCap
    /\ \A i \in 1..Len(ring') : \/ ring'[i].ts \in Nat /\ ring'[i].ts > clock
                                \/ \E j \in 1..Len(ring) : ring'[i] = ring[j]
    /\ FrameOK(g, nvs.last, clock')
    /\ g.kind \in {"reply", "kaAck", "postAck", "push"}

LEMMA ServerStep ==
    ASSUME IInv, NEW g, ServerMoves(g), OwnInv', ClockInv', StoredInOrder',
           DeliveredIsStored',
           server'.known => Good(server'.since, ring', history, base, clock'),
           g.kind = "push" => CoveredBelow(g.ts, ring', history, base),
           base > Top => (server'.known => server'.since > Top) /\ g.kind # "push"
    PROVE  IInv'
<1>1. TypeOK /\ NetInv /\ SavedInv /\ OwnInv /\ ClockInv /\ GapInv /\ AheadInv
  BY DEF IInv
<1>2. /\ session' = session /\ nvs' = nvs /\ ram' = ram /\ recent' = recent /\ out' = out
      /\ history' = history /\ acked' = acked /\ base' = base /\ reboots' = reboots
  BY DEF ServerMoves, client
<1>3. /\ IsFiniteSet(net') /\ Cardinality(net') <= NetCap /\ net' \subseteq net \cup {g}
      /\ clock' \in Nat /\ clock' >= clock /\ FrameOK(g, nvs.last, clock')
      /\ g.kind \in {"reply", "kaAck", "postAck", "push"}
  BY DEF ServerMoves
<1>4. nvs.last \in Nat /\ clock \in Nat
  BY <1>1, TypeFacts DEF ClockInv
<1>5. TypeOK'
  BY <1>1, <1>2, <1>3 DEF TypeOK, ServerMoves, ServerType, RingPost
<1>6. NetInv'
  <2>1. nvs.last >= nvs.last
    BY <1>4
  <2>2. \A x \in net : FrameOK(x, nvs.last, clock')
    BY <1>1, <1>3, <1>4, <2>1, FramesKept
  <2> QED BY <1>2, <1>3, <2>2 DEF NetInv
<1>7. SavedInv'
  BY <1>1, <1>2 DEF SavedInv, ServerMoves
<1>8. /\ \/ session.since = base
         \/ session.since <= clock' /\ Covered(session.since, ring', history, base)
      /\ \A x \in net : FrameGap(x, ring', history, base, clock')
  BY <1>1, <1>3, WatermarksKept DEF ServerMoves
<1>9. GapInv'
  <2>1. FrameGap(g, ring', history, base, clock')
    BY <1>3 DEF FrameGap, Carries
  <2> QED BY <1>2, <1>3, <1>8, <2>1 DEF GapInv, SinceGap, ServerGap, NetGap
<1>10. AheadInv'
  <2>1. base > Top => FrameAhead(g)
    BY <1>3 DEF FrameAhead, Carries
  <2> QED BY <1>1, <1>2, <1>3, <2>1 DEF AheadInv
<1>11. (RecentInv /\ PlainPostsApart)'
  BY <1>2 DEF IInv, RecentInv, PlainPostsApart
<1> QED BY <1>5, <1>6, <1>7, <1>9, <1>10, <1>11 DEF IInv

\* A server that drops a frame has only lost it.
LEMMA DroppedStep ==
    ASSUME IInv, NEW f, net' = Rest(f), UNCHANGED <<client, serverVars>>
    PROVE  IInv'
<1>1. TypeOK /\ nvs \in SessionType /\ session \in SessionType
  BY TypeFacts DEF IInv
<1>2. IsFiniteSet(net') /\ Cardinality(net') <= NetCap /\ \A x \in net' : x \in net
  BY Dropped
<1>3. Calm
  BY <1>1, <1>2 DEF Calm, client
<1>4. TypeOK'
  BY <1>1, <1>2 DEF TypeOK, client, serverVars
<1>5. (RecentInv /\ StoredInOrder /\ DeliveredIsStored /\ PlainPostsApart)'
  BY DEF IInv, RecentInv, StoredInOrder, DeliveredIsStored, PlainPostsApart,
         client, serverVars
<1>6. history' = history
  BY DEF client
<1> QED BY <1>3, <1>4, <1>5, <1>6, CalmStep DEF IInv

LEMMA SrvLoginStep == ASSUME IInv, NEW f \in net, f.kind = "login", SrvLogin(f) PROVE IInv'
<1>1. TypeOK /\ NetInv /\ SavedInv /\ OwnInv /\ ClockInv /\ GapInv /\ AheadInv
  BY DEF IInv
<1>2. /\ f.ts \in 1..MaxTs /\ f.ts <= nvs.last /\ f.arg \in Nat
      /\ Good(f.arg, ring, history, base, clock) /\ (base > Top => f.arg > Top)
  BY <1>1 DEF NetInv, FrameOK, GapInv, NetGap, FrameGap, Carries, AheadInv, FrameAhead
<1>3. /\ server \in ServerType /\ server.last \in Nat /\ clock \in Nat /\ clock >= 1
      /\ ring \in Seq(RingPost) /\ Len(ring) <= RingCap
  BY <1>1, TypeFacts, ConstFacts DEF ClockInv, TypeOK
<1>4. CASE server.known /\ f.ts <= server.last
  BY <1>4, DroppedStep DEF SrvLogin, serverVars
<1>5. CASE ~(server.known /\ f.ts <= server.last)
  <2>1. /\ server' = [server EXCEPT !.known = TRUE, !.since = f.arg, !.last = f.ts,
                                    !.pending = 0]
        /\ clock' = clock + 1
        /\ \E path \in Routes : net' \in Sent(Rest(f), Reply(clock + 1, path))
        /\ UNCHANGED <<client, ring, stored, posted>>
    BY <1>5 DEF SrvLogin, Unique
  <2>2. PICK path \in Routes : net' \in Sent(Rest(f), Reply(clock + 1, path))
    BY <2>1
  <2> DEFINE g == Reply(clock + 1, path)
  <2>3. g.kind = "reply" /\ g.ts = clock + 1 /\ g.arg = path
    BY DEF Reply
  <2> HIDE DEF g
  <2>4. /\ server' \in ServerType /\ server'.last = f.ts /\ server'.since = f.arg
        /\ server'.known /\ server'.grant = server.grant /\ f.ts > server.last
    <3>1. ~server.known => server.last = 0
      BY <1>1 DEF SavedInv
    <3>2. f.ts \in Nat /\ f.ts > 0 /\ f.ts \in 0..MaxTs
      BY <1>2, ConstFacts
    <3>3. f.ts > server.last
      BY <1>3, <1>5, <3>1, <3>2
    <3>4. /\ server' \in ServerType /\ server'.last = f.ts /\ server'.since = f.arg
          /\ server'.known = TRUE /\ server'.grant = server.grant
      BY <1>2, <1>3, <2>1, <3>2 DEF ServerType
    <3> QED BY <3>3, <3>4
  <2>5. IsFiniteSet(net') /\ Cardinality(net') <= NetCap /\ net' \subseteq net \cup {g}
    BY <2>2, Answered DEF g
  <2>6. FrameOK(g, nvs.last, clock')
    BY <1>3, <2>1, <2>3, ConstFacts DEF FrameOK, FrameKinds
  <2>7. ServerMoves(g)
    BY <1>2, <1>3, <2>1, <2>3, <2>4, <2>5, <2>6 DEF ServerMoves
  <2>8. OwnInv'
    <3>1. \A x \in net' : x.kind # "reply" => x \in net
      BY <2>3, <2>5
    <3>2. out' = out /\ stored' = stored
      BY <2>1 DEF client
    <3>3. \A ts : IsPost(ts, out, net') => IsPost(ts, out, net)
      BY <3>1 DEF IsPost
    <3>4. \A i \in 1..Len(stored) : stored[i] <= f.ts
      <4>1. \A i \in 1..Len(stored) : stored[i] \in Nat /\ stored[i] <= server.last
        BY <1>1 DEF OwnInv
      <4> QED BY <1>2, <1>3, <2>4, <4>1
    <3>5. ASSUME NEW ts \in 1..MaxTs, IsPost(ts, out, net')
          PROVE  /\ \A x \in net' : x.kind \in {"login", "ka"} => x.ts # ts
                 /\ ts # f.ts
      BY <1>1, <3>1, <3>3, <3>5 DEF OwnInv
    <3>6. \A x \in net' : x.kind = "postAck" => InStored(x.ts, stored)
      BY <1>1, <3>1 DEF OwnInv
    <3> QED BY <1>1, <2>4, <3>2, <3>4, <3>5, <3>6 DEF OwnInv
  <2>9. ClockInv'
    <3>1. base' = base /\ posted' = posted /\ ring' = ring
      BY <2>1 DEF client
    <3>2. posted \in Nat /\ clock <= 1 + server.last + posted
      BY <1>1, ConstFacts DEF ClockInv
    <3>3. \A i \in 1..Len(ring) : ring[i].ts <= clock'
      <4>1. \A i \in 1..Len(ring) : ring[i] \in RingPost
        BY <1>3
      <4>2. \A i \in 1..Len(ring) : ring[i].ts \in Nat /\ ring[i].ts <= clock
        BY <1>1, <4>1 DEF RingPost, ClockInv
      <4> QED BY <1>3, <2>1, <4>2
    <3>4. clock' \in Nat /\ clock' >= Floor /\ clock' <= Floor + server'.last + posted
      <4>1. f.ts \in Nat /\ Floor = 1
        BY <1>2, ConstFacts
      <4> QED BY <1>3, <2>1, <2>4, <3>2, <4>1
    <3> QED BY <1>1, <3>1, <3>3, <3>4 DEF ClockInv
  <2>10. Good(f.arg, ring, history, base, clock')
    BY <1>2, <1>3, <2>1, ConstFacts DEF Good
  <2>11. (StoredInOrder /\ DeliveredIsStored)'
    BY <2>1 DEF IInv, StoredInOrder, DeliveredIsStored, client
  <2> QED BY <1>2, <2>1, <2>3, <2>4, <2>7, <2>8, <2>9, <2>10, <2>11, ServerStep
<1> QED BY <1>4, <1>5

\* One more post in the ring, stamped by the clock it moves.
LEMMA PostedFacts ==
    ASSUME TypeOK, ClockInv, NEW kind \in Kinds \cup {Own}, clock' = Unique,
           ring' = SeqTail(Append(ring, [ts |-> Unique, kind |-> kind]), RingCap)
    PROVE  /\ ring' \in Seq(RingPost) /\ Len(ring') <= RingCap
           /\ clock \in Nat /\ clock' = clock + 1
           /\ \A i \in 1..Len(ring') : ring'[i].ts <= clock'
           /\ \A i, j \in 1..Len(ring') : i < j => ring'[i].ts < ring'[j].ts
           /\ \A i \in 1..Len(ring') : \/ ring'[i].ts \in Nat /\ ring'[i].ts > clock
                                       \/ \E j \in 1..Len(ring) : ring'[i] = ring[j]
<1> DEFINE e == [ts |-> Unique, kind |-> kind]
<1>1. /\ clock \in Nat /\ clock' = clock + 1 /\ ring \in Seq(RingPost)
      /\ \A i \in 1..Len(ring) : ring[i].ts <= clock
      /\ \A i, j \in 1..Len(ring) : i < j => ring[i].ts < ring[j].ts
  BY TypeFacts DEF ClockInv, Unique
<1>2. e \in RingPost /\ e.ts = clock + 1
  BY <1>1 DEF RingPost, Unique
<1> HIDE DEF e
<1>3. ring' = SeqTail(Append(ring, e), RingCap)
  BY DEF e
<1>4. /\ ring' \in Seq(RingPost) /\ Len(ring') <= RingCap
      /\ \A i \in 1..Len(ring') : ring'[i].ts <= clock + 1
      /\ \A i, j \in 1..Len(ring') : i < j => ring'[i].ts < ring'[j].ts
      /\ \A i \in 1..Len(ring') : ring'[i] = e \/ \E j \in 1..Len(ring) : ring'[i] = ring[j]
  <2> DEFINE a == Append(ring, e)
             d == Len(a) - Len(ring')
  <2>1. /\ a \in Seq(RingPost) /\ Len(a) = Len(ring) + 1 /\ Len(ring) \in Nat
        /\ \A i \in 1..Len(ring) : a[i] = ring[i]
        /\ a[Len(ring) + 1] = e
    BY <1>1, <1>2
  <2>2. /\ ring' \in Seq(RingPost)
        /\ Len(ring') = IF Len(a) <= RingCap THEN Len(a) ELSE RingCap
        /\ \A i \in 1..Len(ring') : ring'[i] = a[Len(a) - Len(ring') + i]
    <3>1. ring' = SeqTail(a, RingCap)
      BY <1>3
    <3> HIDE DEF a
    <3>2. a \in Seq(RingPost) /\ RingCap \in Nat
      BY <2>1, ConstFacts
    <3>3. /\ SeqTail(a, RingCap) \in Seq(RingPost)
          /\ Len(SeqTail(a, RingCap)) = IF Len(a) <= RingCap THEN Len(a) ELSE RingCap
          /\ \A i \in 1..Len(SeqTail(a, RingCap)) :
                SeqTail(a, RingCap)[i] = a[Len(a) - Len(SeqTail(a, RingCap)) + i]
      BY <3>2, SeqTailFacts
    <3> QED BY <3>1, <3>3
  <2> HIDE DEF a
  <2>3. d \in Nat /\ Len(ring') \in Nat /\ Len(ring') <= RingCap /\ \A i \in 1..Len(ring') : d + i \in 1..Len(a)
    BY <2>1, <2>2, ConstFacts
  <2>4. \A i \in 1..Len(ring') : ring'[i] = a[d + i]
    BY <2>2
  <2>5. \A i \in 1..Len(a) : a[i] = e \/ (i \in 1..Len(ring) /\ a[i] = ring[i])
    BY <2>1
  <2>6. \A i \in 1..Len(a) : a[i].ts <= clock + 1
    <3> SUFFICES ASSUME NEW i \in 1..Len(a) PROVE a[i].ts <= clock + 1
      OBVIOUS
    <3>1. CASE a[i] = e
      BY <1>1, <1>2, <3>1
    <3>2. CASE i \in 1..Len(ring) /\ a[i] = ring[i]
      <4>1. ring[i] \in RingPost /\ ring[i].ts <= clock
        BY <1>1, <3>2
      <4>2. ring[i].ts \in Nat
        BY <4>1 DEF RingPost
      <4> QED BY <1>1, <3>2, <4>1, <4>2
    <3> QED BY <2>5, <3>1, <3>2
  <2>7. \A i, j \in 1..Len(a) : i < j => a[i].ts < a[j].ts
    <3> SUFFICES ASSUME NEW i \in 1..Len(a), NEW j \in 1..Len(a), i < j
                 PROVE  a[i].ts < a[j].ts
      OBVIOUS
    <3>1. i \in 1..Len(ring) /\ a[i] = ring[i] /\ ring[i].ts <= clock
      BY <1>1, <2>1
    <3>2. ring[i] \in RingPost
      BY <1>1, <3>1
    <3>3. ring[i].ts \in Nat
      BY <3>2 DEF RingPost
    <3>4. CASE j \in 1..Len(ring)
      BY <1>1, <2>1, <3>1, <3>4
    <3>5. CASE j = Len(ring) + 1
      BY <1>1, <1>2, <2>1, <3>1, <3>3, <3>5
    <3> QED BY <2>1, <3>4, <3>5
  <2> HIDE DEF d
  <2>8. \A i \in 1..Len(ring') : ring'[i].ts <= clock + 1
    BY <2>3, <2>4, <2>6
  <2>9. \A i, j \in 1..Len(ring') : i < j => ring'[i].ts < ring'[j].ts
    <3> SUFFICES ASSUME NEW i \in 1..Len(ring'), NEW j \in 1..Len(ring'), i < j
                 PROVE  ring'[i].ts < ring'[j].ts
      OBVIOUS
    <3>1. d + i \in 1..Len(a) /\ d + j \in 1..Len(a) /\ d + i < d + j
      BY <2>3
    <3> QED BY <3>1, <2>4, <2>7
  <2> QED BY <2>2, <2>3, <2>4, <2>5, <2>8, <2>9
<1>5. e.ts \in Nat /\ e.ts > clock
  BY <1>1, <1>2
<1>6. \A i \in 1..Len(ring') : \/ ring'[i].ts \in Nat /\ ring'[i].ts > clock
                               \/ \E j \in 1..Len(ring) : ring'[i] = ring[j]
  BY <1>4, <1>5
<1> QED BY <1>1, <1>4, <1>6

\* A step that answers with nothing, in the form ServerStep takes.
LEMMA NoAnswer ==
    /\ KaAck(0).kind = "kaAck"
    /\ \A last, c : FrameOK(KaAck(0), last, c)
BY DEF KaAck, FrameOK, FrameKinds

LEMMA OtherPostsStep == ASSUME IInv, NEW kind \in Kinds, OtherPosts(kind) PROVE IInv'
<1> DEFINE g == KaAck(0)
<1>1. TypeOK /\ NetInv /\ SavedInv /\ OwnInv /\ ClockInv /\ GapInv /\ AheadInv
  BY DEF IInv
<1>2. /\ posted < MaxPosts /\ clock' = Unique /\ posted' = posted + 1
      /\ ring' = SeqTail(Append(ring, [ts |-> Unique, kind |-> kind]), RingCap)
      /\ UNCHANGED <<client, server, stored, net>>
  BY DEF OtherPosts
<1>3. /\ ring' \in Seq(RingPost) /\ Len(ring') <= RingCap
      /\ clock \in Nat /\ clock' = clock + 1
      /\ \A i \in 1..Len(ring') : ring'[i].ts <= clock'
      /\ \A i, j \in 1..Len(ring') : i < j => ring'[i].ts < ring'[j].ts
      /\ \A i \in 1..Len(ring') : \/ ring'[i].ts \in Nat /\ ring'[i].ts > clock
                                  \/ \E j \in 1..Len(ring) : ring'[i] = ring[j]
  BY <1>1, <1>2, PostedFacts
<1>4. server \in ServerType /\ server.last \in Nat /\ server.since \in Nat
  BY <1>1, TypeFacts
<1>5. g.kind = "kaAck" /\ FrameOK(g, nvs.last, clock')
  BY NoAnswer
<1> HIDE DEF g
<1>6. clock' \in Nat /\ clock' >= clock
  BY <1>3
<1>7. ServerMoves(g)
  BY <1>1, <1>2, <1>3, <1>4, <1>5, <1>6 DEF ServerMoves, SavedInv, TypeOK, NetInv
<1>8. OwnInv' /\ StoredInOrder' /\ DeliveredIsStored'
  BY <1>2 DEF IInv, OwnInv, StoredInOrder, DeliveredIsStored, client
<1>9. ClockInv'
  <2>1. posted \in Nat /\ clock >= 1 /\ clock <= 1 + server.last + posted /\ base' = base
        /\ base \in Nat
    BY <1>1, <1>2, ConstFacts DEF ClockInv, client
  <2>2. posted' \in 0..MaxPosts
    BY <1>2, <2>1, ConstFacts
  <2>3. clock' >= Floor /\ clock' <= Floor + server'.last + posted'
    BY <1>2, <1>3, <1>4, <2>1, ConstFacts
  <2> QED BY <1>3, <1>6, <2>1, <2>2, <2>3 DEF ClockInv
<1>10. server.known => Good(server.since, ring', history, base, clock')
  BY <1>1, <1>3, <1>6, WatermarksKept
<1> QED BY <1>1, <1>2, <1>5, <1>7, <1>8, <1>9, <1>10, ServerStep DEF AheadInv

LEMMA SrvKeepAliveStep ==
    ASSUME IInv, NEW f \in net, f.kind = "ka", SrvKeepAlive(f) PROVE IInv'
<1>1. TypeOK /\ NetInv /\ SavedInv /\ OwnInv /\ ClockInv /\ GapInv /\ AheadInv
  BY DEF IInv
<1>2. /\ f.ts \in 1..MaxTs /\ f.ts <= nvs.last /\ f.arg \in Nat
      /\ f.arg > 0 => /\ Good(f.arg, ring, history, base, clock)
                      /\ base > Top => f.arg > Top
  <2>1. FrameOK(f, nvs.last, clock) /\ FrameGap(f, ring, history, base, clock)
    BY <1>1 DEF NetInv, GapInv, NetGap
  <2>2. base > Top => FrameAhead(f)
    BY <1>1 DEF AheadInv
  <2> QED BY <2>1, <2>2 DEF FrameOK, FrameGap, Carries, FrameAhead
<1>3. /\ server \in ServerType /\ server.last \in Nat /\ clock \in Nat
      /\ ring \in Seq(RingPost) /\ Len(ring) <= RingCap /\ f.ts \in Nat /\ f.ts \in 0..MaxTs
      /\ server.since \in Nat
  <2>1. f.ts \in Nat /\ f.ts \in 0..MaxTs
    BY <1>2, ConstFacts
  <2> QED BY <1>1, <2>1, TypeFacts DEF ClockInv, TypeOK
<1>4. CASE ~server.known \/ f.ts < server.last
  BY <1>4, DroppedStep DEF SrvKeepAlive, serverVars
<1>5. CASE ~(~server.known \/ f.ts < server.last)
  <2> DEFINE g == KaAck(f.ts)
             since == IF f.arg > 0 THEN f.arg ELSE server.since
  <2>1. /\ server' = [server EXCEPT !.last = f.ts, !.pending = 0, !.since = since]
        /\ net' \in Sent(Rest(f), g)
        /\ UNCHANGED <<client, ring, clock, stored, posted>>
    BY <1>5 DEF SrvKeepAlive
  <2>2. server.known /\ f.ts >= server.last
    BY <1>3, <1>5
  <2>3. g.kind = "kaAck" /\ FrameOK(g, nvs.last, clock)
    BY DEF KaAck, FrameOK, FrameKinds
  <2>4. /\ since \in Nat /\ Good(since, ring, history, base, clock)
        /\ base > Top => since > Top
    BY <1>1, <1>2, <1>3, <2>2 DEF GapInv, ServerGap, AheadInv
  <2> HIDE DEF g, since
  <2>5. /\ server' \in ServerType /\ server'.last = f.ts /\ server'.since = since
        /\ server'.known = server.known /\ server'.grant = server.grant
    BY <1>3, <2>1, <2>4 DEF ServerType
  <2>6. IsFiniteSet(net') /\ Cardinality(net') <= NetCap /\ net' \subseteq net \cup {g}
    BY <2>1, Answered
  <2>7. ServerMoves(g)
    BY <1>2, <1>3, <2>1, <2>2, <2>3, <2>5, <2>6 DEF ServerMoves
  <2>8. OwnInv'
    <3>1. \A x \in net' : x.kind # "kaAck" => x \in net
      BY <2>3, <2>6
    <3>2. out' = out /\ stored' = stored
      BY <2>1 DEF client
    <3>3. \A ts : IsPost(ts, out, net') => IsPost(ts, out, net)
      BY <3>1 DEF IsPost
    <3>4. \A i \in 1..Len(stored) : stored[i] <= f.ts
      <4>1. \A i \in 1..Len(stored) : stored[i] \in Nat /\ stored[i] <= server.last
        BY <1>1 DEF OwnInv
      <4> QED BY <1>3, <2>2, <4>1
    <3>5. ASSUME NEW ts \in 1..MaxTs, IsPost(ts, out, net')
          PROVE  /\ \A x \in net' : x.kind \in {"login", "ka"} => x.ts # ts
                 /\ ts # f.ts
      BY <1>1, <3>1, <3>3, <3>5 DEF OwnInv
    <3>6. \A x \in net' : x.kind = "postAck" => InStored(x.ts, stored)
      BY <1>1, <3>1 DEF OwnInv
    <3> QED BY <1>1, <2>5, <3>2, <3>4, <3>5, <3>6 DEF OwnInv
  <2>9. ClockInv'
    <3>1. base' = base /\ posted' = posted /\ ring' = ring /\ clock' = clock
      BY <2>1 DEF client
    <3>2. clock <= Floor + server'.last + posted
      <4>1. posted \in Nat /\ clock <= Floor + server.last + posted /\ Floor = 1
        BY <1>1, ConstFacts DEF ClockInv
      <4> QED BY <1>3, <2>2, <2>5, <4>1
    <3> QED BY <1>1, <3>1, <3>2 DEF ClockInv
  <2>10. (StoredInOrder /\ DeliveredIsStored)'
    BY <2>1 DEF IInv, StoredInOrder, DeliveredIsStored, client
  <2> QED BY <2>1, <2>3, <2>4, <2>5, <2>7, <2>8, <2>9, <2>10, ServerStep
<1> QED BY <1>4, <1>5

LEMMA SrvAckStep == ASSUME IInv, NEW f \in net, f.kind = "ack", SrvAck(f) PROVE IInv'
<1> DEFINE g == KaAck(0)
<1>1. TypeOK /\ NetInv /\ SavedInv /\ OwnInv /\ ClockInv /\ GapInv /\ AheadInv
  BY DEF IInv
<1>2. f.ts \in Nat /\ Good(f.ts, ring, history, base, clock) /\ ~(base > Top)
  BY <1>1 DEF NetInv, FrameOK, GapInv, NetGap, FrameGap, Good, AheadInv, FrameAhead
<1>3. /\ server \in ServerType /\ server.last \in Nat /\ clock \in Nat
      /\ ring \in Seq(RingPost) /\ Len(ring) <= RingCap
  BY <1>1, TypeFacts DEF ClockInv, TypeOK
<1>4. /\ server' = IF server.pending = f.ts
                   THEN [server EXCEPT !.pending = 0, !.since = f.ts] ELSE server
      /\ net' = Rest(f)
      /\ UNCHANGED <<client, ring, clock, stored, posted>>
  BY DEF SrvAck
<1>5. /\ server' \in ServerType /\ server'.last = server.last
      /\ server'.known = server.known /\ server'.grant = server.grant
      /\ server'.since \in {server.since, f.ts}
  BY <1>2, <1>3, <1>4 DEF ServerType
<1>6. IsFiniteSet(net') /\ Cardinality(net') <= NetCap /\ \A x \in net' : x \in net
  BY <1>4, Dropped
<1>7. g.kind = "kaAck" /\ FrameOK(g, nvs.last, clock)
  BY NoAnswer
<1> HIDE DEF g
<1>8. ServerMoves(g)
  BY <1>1, <1>3, <1>4, <1>5, <1>6, <1>7 DEF ServerMoves, SavedInv
<1>9. OwnInv'
  <2>1. \A ts : IsPost(ts, out, net') => IsPost(ts, out, net)
    BY <1>6 DEF IsPost
  <2>2. out' = out /\ stored' = stored
    BY <1>4 DEF client
  <2> QED BY <1>1, <1>5, <1>6, <2>1, <2>2 DEF OwnInv
<1>10. ClockInv'
  BY <1>1, <1>4, <1>5 DEF ClockInv, client
<1>11. (StoredInOrder /\ DeliveredIsStored)'
  BY <1>4 DEF IInv, StoredInOrder, DeliveredIsStored, client
<1>12. server'.known => Good(server'.since, ring', history, base, clock')
  BY <1>1, <1>2, <1>4, <1>5 DEF GapInv, ServerGap
<1> QED BY <1>2, <1>7, <1>8, <1>9, <1>10, <1>11, <1>12, ServerStep

LEMMA SrvPushStep == ASSUME IInv, SrvPush PROVE IInv'
<1> DEFINE k == Min(Unsynced)
           post == ring[k]
           g == Push(post)
<1>1. TypeOK /\ NetInv /\ SavedInv /\ OwnInv /\ ClockInv /\ GapInv /\ AheadInv
  BY DEF IInv
<1>2. /\ server \in ServerType /\ server.last \in Nat /\ clock \in Nat
      /\ ring \in Seq(RingPost) /\ Len(ring) <= RingCap /\ server.since \in Nat
      /\ server.last <= MaxTs /\ base \in Nat
  BY <1>1, TypeFacts, ConstFacts DEF ClockInv, TypeOK
<1>3. k \in Unsynced /\ \A i \in Unsynced : k <= i
  <2>1. Unsynced \in SUBSET Nat
    BY DEF Unsynced
  <2> QED BY <2>1, MinFacts DEF SrvPush
<1>4. /\ server.known
      /\ server' = [server EXCEPT !.pending = post.ts]
      /\ net' \in Sent(net, g)
      /\ UNCHANGED <<client, ring, clock, stored, posted>>
  BY DEF SrvPush
<1> HIDE DEF k
<1>5. k \in 1..Len(ring) /\ post.ts > server.since /\ post.kind # Own
  BY <1>3 DEF Unsynced
<1>6. post \in RingPost
  BY <1>2, <1>5
<1>7. post.ts \in Nat /\ post.kind \in Kinds /\ post.ts <= clock
  BY <1>1, <1>5, <1>6 DEF RingPost, ClockInv
<1>8. g.kind = "push" /\ g.ts = post.ts /\ g.arg = post.kind
  BY DEF Push
<1> HIDE DEF g, post
<1>9. clock <= Top /\ ~(server.since > Top)
  <2>1. clock <= Top
    BY <1>1, <1>2, ConstFacts DEF ClockInv
  <2> QED BY <1>2, <1>5, <1>7, <2>1, ConstFacts
<1>10. ~(base > Top)
  BY <1>1, <1>4, <1>9 DEF AheadInv
<1>11. CoveredBelow(g.ts, ring, history, base)
  <2> SUFFICES ASSUME NEW i \in 1..Len(ring), ring[i].kind # Own, ring[i].ts > base,
                      ring[i].ts < post.ts
               PROVE  InHistory(ring[i].ts, history)
    BY <1>8 DEF CoveredBelow
  <2>1. ring[i] \in RingPost
    BY <1>2
  <2>2. ring[i].ts \in Nat
    BY <2>1 DEF RingPost
  <2>3. ring[k].ts = post.ts
    BY DEF post
  <2>4. i < k
    <3>1. SUFFICES ASSUME k <= i PROVE FALSE
      BY <1>5
    <3>2. CASE k = i
      BY <1>7, <2>3, <3>2
    <3>3. CASE k < i
      <4>1. ring[k].ts < ring[i].ts
        BY <1>1, <1>5, <3>3 DEF ClockInv
      <4> QED BY <1>7, <2>2, <2>3, <4>1
    <3> QED BY <1>5, <3>1, <3>2, <3>3
  <2>5. i \notin Unsynced
    BY <1>3, <1>5, <2>4
  <2>6. ring[i].ts <= server.since
    BY <1>2, <2>2, <2>5 DEF Unsynced
  <2>7. server.since # base
    BY <1>2, <2>2, <2>6
  <2>8. Covered(server.since, ring, history, base)
    BY <1>1, <1>4, <1>9, <2>7 DEF GapInv, ServerGap, Good
  <2> QED BY <2>6, <2>8 DEF Covered
<1>12. /\ server' \in ServerType /\ server'.last = server.last
       /\ server'.known = server.known /\ server'.grant = server.grant
       /\ server'.since = server.since
  BY <1>2, <1>4, <1>7 DEF ServerType
<1>13. IsFiniteSet(net') /\ Cardinality(net') <= NetCap /\ net' \subseteq net \cup {g}
  BY <1>1, <1>4, SentFacts DEF TypeOK, NetInv
<1>14. ServerMoves(g)
  <2>1. FrameOK(g, nvs.last, clock)
    BY <1>7, <1>8 DEF FrameOK, FrameKinds
  <2> QED BY <1>1, <1>2, <1>4, <1>8, <1>12, <1>13, <2>1 DEF ServerMoves, SavedInv
<1>15. OwnInv'
  <2>1. \A x \in net' : x.kind # "push" => x \in net
    BY <1>8, <1>13
  <2>2. \A ts : IsPost(ts, out, net') => IsPost(ts, out, net)
    BY <2>1 DEF IsPost
  <2>3. out' = out /\ stored' = stored
    BY <1>4 DEF client
  <2> QED BY <1>1, <1>12, <2>1, <2>2, <2>3 DEF OwnInv
<1>16. ClockInv'
  BY <1>1, <1>4, <1>12 DEF ClockInv, client
<1>17. (StoredInOrder /\ DeliveredIsStored)'
  BY <1>4 DEF IInv, StoredInOrder, DeliveredIsStored, client
<1>18. server'.known => Good(server'.since, ring', history, base, clock')
  BY <1>1, <1>4, <1>12 DEF GapInv, ServerGap
<1> QED BY <1>4, <1>10, <1>11, <1>14, <1>15, <1>16, <1>17, <1>18, ServerStep

\* The posts a server has stored, with one more.
LEMMA StoredFacts ==
    ASSUME NEW s \in Seq(Nat), NEW t \in Nat, NEW q, q = Append(s, t),
           \A i \in 1..Len(s) : s[i] < t,
           \A i, j \in 1..Len(s) : i < j => s[i] < s[j]
    PROVE  /\ q \in Seq(Nat)
           /\ \A i \in 1..Len(q) : q[i] <= t
           /\ \A i, j \in 1..Len(q) : i < j => q[i] < q[j]
           /\ \A ts : InStored(ts, s) => InStored(ts, q)
           /\ InStored(t, q)
<1>1. /\ q \in Seq(Nat) /\ Len(q) = Len(s) + 1 /\ Len(s) \in Nat
      /\ \A i \in 1..Len(s) : q[i] = s[i]
      /\ q[Len(s) + 1] = t
  OBVIOUS
<1>2. \A i \in 1..Len(q) : i = Len(s) + 1 \/ i \in 1..Len(s)
  BY <1>1
<1>3. \A i \in 1..Len(s) : s[i] \in Nat /\ i \in 1..Len(q)
  BY <1>1
<1>4. \A i \in 1..Len(q) : q[i] <= t
  <2> SUFFICES ASSUME NEW i \in 1..Len(q) PROVE q[i] <= t
    OBVIOUS
  <2>1. CASE i = Len(s) + 1
    BY <1>1, <2>1
  <2>2. CASE i \in 1..Len(s)
    BY <1>1, <1>3, <2>2
  <2> QED BY <1>2, <2>1, <2>2
<1>5. ASSUME NEW i \in 1..Len(q), NEW j \in 1..Len(q), i < j PROVE q[i] < q[j]
  <2>1. i \in 1..Len(s) /\ q[i] = s[i]
    BY <1>1, <1>5
  <2>2. CASE j = Len(s) + 1
    BY <1>1, <2>1, <2>2
  <2>3. CASE j \in 1..Len(s)
    BY <1>1, <1>5, <2>1, <2>3
  <2> QED BY <1>2, <2>2, <2>3
<1>6. ASSUME NEW ts, InStored(ts, s) PROVE InStored(ts, q)
  BY <1>1, <1>3, <1>6 DEF InStored
<1>7. InStored(t, q)
  <2>1. Len(s) + 1 \in 1..Len(q)
    BY <1>1
  <2> QED BY <1>1, <2>1 DEF InStored
<1> QED BY <1>1, <1>4, <1>5, <1>6, <1>7

LEMMA SrvPostStep == ASSUME IInv, NEW f \in net, f.kind = "post", SrvPost(f) PROVE IInv'
<1>1. TypeOK /\ NetInv /\ SavedInv /\ OwnInv /\ ClockInv /\ GapInv /\ AheadInv
  BY DEF IInv
<1>2. f.ts \in 1..MaxTs /\ f.ts <= nvs.last /\ f.ts \in Nat /\ f.ts \in 0..MaxTs
  <2>1. f.ts \in 1..MaxTs /\ f.ts <= nvs.last
    BY <1>1 DEF NetInv, FrameOK
  <2> QED BY <2>1, ConstFacts
<1>3. /\ server \in ServerType /\ server.last \in Nat /\ clock \in Nat
      /\ ring \in Seq(RingPost) /\ Len(ring) <= RingCap /\ server.since \in Nat
  BY <1>1, TypeFacts DEF ClockInv, TypeOK
<1>4. CASE ~server.known \/ f.ts < server.last
  BY <1>4, DroppedStep DEF SrvPost, serverVars
<1>5. CASE ~(~server.known \/ f.ts < server.last)
  <2>1. server.known /\ f.ts >= server.last
    BY <1>2, <1>3, <1>5
  <2>2. /\ server' = [server EXCEPT !.last = f.ts] /\ UNCHANGED <<client, posted>>
        /\ net' \in (IF server.grant THEN Sent(Rest(f), PostAck(f.ts)) ELSE {Rest(f)})
        /\ IF ~server.grant \/ f.ts = server.last
           THEN UNCHANGED <<clock, ring, stored>>
           ELSE /\ clock' = Unique
                /\ ring' = SeqTail(Append(ring, [ts |-> Unique, kind |-> Own]), RingCap)
                /\ stored' = Append(stored, f.ts)
    BY <1>5 DEF SrvPost
  <2>3. /\ server' \in ServerType /\ server'.last = f.ts /\ server'.since = server.since
        /\ server'.known = server.known /\ server'.grant = server.grant
    BY <1>2, <1>3, <2>2 DEF ServerType
  <2>4. out' = out /\ base' = base /\ posted' = posted /\ acked' = acked /\ history' = history
    BY <2>2 DEF client
  <2>5. /\ server.known => Good(server.since, ring, history, base, clock)
        /\ base > Top => (server.known => server.since > Top)
    BY <1>1 DEF GapInv, ServerGap, AheadInv
  \* the clock may follow the stamp of an accepted frame
  <2>6. /\ posted \in Nat /\ clock >= 1 /\ clock <= 1 + server.last + posted
    BY <1>1, ConstFacts DEF ClockInv
  <2>7. CASE ~server.grant \/ f.ts = server.last
    <3> DEFINE g == IF server.grant THEN PostAck(f.ts) ELSE KaAck(0)
    <3>1. /\ g.kind \in {"kaAck", "postAck"} /\ FrameOK(g, nvs.last, clock)
          /\ g.kind = "postAck" => g.ts = f.ts /\ server.grant
      BY <1>2, NoAnswer DEF PostAck, FrameOK, FrameKinds
    <3>2. IsFiniteSet(net') /\ Cardinality(net') <= NetCap /\ net' \subseteq net \cup {g}
      <4>1. CASE server.grant
        BY <2>2, <4>1, Answered
      <4>2. CASE ~server.grant
        <5>1. net' = Rest(f)
          BY <2>2, <4>2
        <5> QED BY <5>1, Dropped
      <4> QED BY <4>1, <4>2
    <3> HIDE DEF g
    <3>3. clock' = clock /\ ring' = ring /\ stored' = stored
      BY <2>2, <2>7
    <3>4. ServerMoves(g)
      BY <1>2, <1>3, <2>1, <2>2, <2>3, <3>1, <3>2, <3>3 DEF ServerMoves
    <3>5. OwnInv'
      <4>1. \A x \in net' : x.kind \notin {"kaAck", "postAck"} => x \in net
        BY <3>1, <3>2
      <4>2. \A ts : IsPost(ts, out, net') => IsPost(ts, out, net)
        BY <4>1 DEF IsPost
      <4>3. \A i \in 1..Len(stored) : stored[i] <= f.ts
        <5>1. \A i \in 1..Len(stored) : stored[i] \in Nat /\ stored[i] <= server.last
          BY <1>1 DEF OwnInv
        <5> QED BY <1>2, <1>3, <2>1, <5>1
      <4>4. server.grant => InStored(f.ts, stored)
        <5>1. IsPost(f.ts, out, net)
          BY DEF IsPost
        <5> QED BY <1>1, <1>2, <2>7, <5>1 DEF OwnInv
      <4>5. ASSUME NEW ts \in 1..MaxTs, IsPost(ts, out, net')
            PROVE  /\ \A x \in net' : x.kind \in {"login", "ka"} => x.ts # ts
                   /\ server.grant /\ ts = f.ts => InStored(ts, stored)
        BY <1>1, <4>1, <4>2, <4>4, <4>5 DEF OwnInv
      <4>6. \A x \in net' : x.kind = "postAck" => InStored(x.ts, stored)
        BY <1>1, <3>1, <3>2, <4>4 DEF OwnInv
      <4> QED BY <1>1, <2>3, <2>4, <3>3, <4>3, <4>5, <4>6 DEF OwnInv
    <3>6. ClockInv'
      <4>1. clock <= Floor + server'.last + posted
        BY <1>2, <1>3, <2>1, <2>3, <2>6, ConstFacts
      <4> QED BY <1>1, <2>4, <3>3, <4>1 DEF ClockInv
    <3>7. (StoredInOrder /\ DeliveredIsStored)'
      BY <2>4, <3>3 DEF IInv, StoredInOrder, DeliveredIsStored
    <3> QED BY <2>3, <2>5, <3>1, <3>3, <3>4, <3>5, <3>6, <3>7, ServerStep
  <2>8. CASE ~(~server.grant \/ f.ts = server.last)
    <3> DEFINE g == PostAck(f.ts)
    <3>1. server.grant /\ f.ts > server.last
      BY <1>2, <1>3, <2>1, <2>8
    <3>2. /\ clock' = Unique /\ stored' = Append(stored, f.ts)
          /\ ring' = SeqTail(Append(ring, [ts |-> Unique, kind |-> Own]), RingCap)
          /\ net' \in Sent(Rest(f), g)
      BY <2>2, <2>8
    <3>3. /\ ring' \in Seq(RingPost) /\ Len(ring') <= RingCap
          /\ clock \in Nat /\ clock' = clock + 1
          /\ \A i \in 1..Len(ring') : ring'[i].ts <= clock'
          /\ \A i, j \in 1..Len(ring') : i < j => ring'[i].ts < ring'[j].ts
          /\ \A i \in 1..Len(ring') : \/ ring'[i].ts \in Nat /\ ring'[i].ts > clock
                                      \/ \E j \in 1..Len(ring) : ring'[i] = ring[j]
      <4>1. Own \in Kinds \cup {Own}
        OBVIOUS
      <4> QED BY <1>1, <3>2, <4>1, PostedFacts
    <3>4. g.kind = "postAck" /\ g.ts = f.ts /\ FrameOK(g, nvs.last, clock')
      BY <1>2 DEF PostAck, FrameOK, FrameKinds
    <3>5. IsFiniteSet(net') /\ Cardinality(net') <= NetCap /\ net' \subseteq net \cup {g}
      BY <3>2, Answered
    <3> HIDE DEF g
    <3>6. clock' \in Nat /\ clock' >= clock
      BY <3>3
    <3>7. ServerMoves(g)
      BY <1>2, <1>3, <2>1, <2>2, <2>3, <3>3, <3>4, <3>5, <3>6 DEF ServerMoves
    <3>8. /\ stored' \in Seq(Nat)
          /\ \A i \in 1..Len(stored') : stored'[i] <= f.ts
          /\ \A i, j \in 1..Len(stored') : i < j => stored'[i] < stored'[j]
          /\ \A ts : InStored(ts, stored) => InStored(ts, stored')
          /\ InStored(f.ts, stored')
      <4>1. stored \in Seq(Nat) /\ \A i \in 1..Len(stored) : stored[i] \in Nat
        BY <1>1 DEF OwnInv
      <4>2. \A i \in 1..Len(stored) : stored[i] < f.ts
        BY <1>1, <1>2, <1>3, <3>1, <4>1 DEF OwnInv
      <4>3. \A i, j \in 1..Len(stored) : i < j => stored[i] < stored[j]
        BY DEF IInv, StoredInOrder
      <4> QED BY <1>2, <3>2, <4>1, <4>2, <4>3, StoredFacts
    <3>9. OwnInv'
      <4>1. \A x \in net' : x.kind # "postAck" => x \in net
        BY <3>4, <3>5
      <4>2. \A ts : IsPost(ts, out, net') => IsPost(ts, out, net)
        BY <4>1 DEF IsPost
      <4>3. ASSUME NEW ts \in 1..MaxTs, IsPost(ts, out, net')
            PROVE  /\ \A x \in net' : x.kind \in {"login", "ka"} => x.ts # ts
                   /\ ts = f.ts => InStored(ts, stored')
        BY <1>1, <3>8, <4>1, <4>2, <4>3 DEF OwnInv
      <4>4. \A x \in net' : x.kind = "postAck" => InStored(x.ts, stored')
        BY <1>1, <3>4, <3>5, <3>8 DEF OwnInv
      <4> QED BY <2>3, <2>4, <3>8, <4>3, <4>4 DEF OwnInv
    <3>10. ClockInv'
      <4>1. clock' >= Floor /\ clock' <= Floor + server'.last + posted
        BY <1>2, <1>3, <2>3, <2>6, <3>1, <3>3, ConstFacts
      <4> QED BY <1>1, <2>4, <3>3, <3>6, <4>1 DEF ClockInv
    <3>11. StoredInOrder'
      BY <3>8 DEF StoredInOrder
    <3>12. DeliveredIsStored'
      <4>1. \A ts \in acked : InStored(ts, stored)
        BY DEF IInv, DeliveredIsStored, InStored
      <4>2. \A ts \in acked : InStored(ts, stored')
        BY <3>8, <4>1
      <4> QED BY <2>4, <4>2 DEF DeliveredIsStored, InStored
    <3>13. server.known => Good(server.since, ring', history, base, clock')
      BY <1>1, <3>3, <3>6, WatermarksKept
    <3> QED BY <2>3, <2>5, <3>4, <3>7, <3>9, <3>10, <3>11, <3>12, <3>13, ServerStep
  <2> QED BY <2>7, <2>8
<1> QED BY <1>4, <1>5

-----------------------------------------------------------------------------
(* The theorems *)

LEMMA InitHolds == Init => IInv
<1> SUFFICES ASSUME Init PROVE IInv
  OBVIOUS
<1>1. PICK since \in Seeds :
        /\ session = [post |-> FALSE, since |-> since, last |-> 0, route |-> "none"]
        /\ base = since
  BY DEF Init
<1>2. PICK grant \in BOOLEAN :
        server = [known |-> FALSE, grant |-> grant, since |-> 0, last |-> 0, pending |-> 0]
  BY DEF Init
<1>3. /\ nvs = session /\ ram = FreshRam /\ recent = <<>> /\ out = {} /\ history = <<>>
      /\ acked = {} /\ ring = <<>> /\ clock = 1 /\ stored = <<>> /\ posted = 0 /\ net = {}
      /\ reboots = 0 /\ since \in Nat
  BY ConstFacts DEF Init
<1>4. IsFiniteSet(net) /\ Cardinality(net) = 0
  BY <1>3, FS_EmptySet
<1>5. session \in SessionType /\ session.since = since /\ session.last = 0
  BY <1>1, <1>3, ConstFacts DEF SessionType, Routes
<1>6. server \in ServerType /\ server.known = FALSE /\ server.last = 0
  BY <1>2, ConstFacts DEF ServerType
<1>7. ram \in RamType
  BY <1>3, ConstFacts DEF RamType, FreshRam
<1>8. TypeOK
  <2>1. {session, nvs} \subseteq SessionType
    BY <1>3, <1>5
  <2> QED BY <1>3, <1>4, <1>6, <1>7, <2>1, ConstFacts
          DEF TypeOK, SessionType, RamType, ServerType
<1>9. NetInv /\ SavedInv
  BY <1>3, <1>4, <1>5, <1>6 DEF NetInv, SavedInv
<1>10. OwnInv
  BY <1>3 DEF OwnInv, IsPost
<1>11. ClockInv
  BY <1>1, <1>3, <1>6, ConstFacts DEF ClockInv
<1>12. GapInv
  BY <1>1, <1>3, <1>5, <1>6 DEF GapInv, SinceGap, ServerGap, NetGap
<1>13. AheadInv
  BY <1>1, <1>3, <1>5, <1>6 DEF AheadInv
<1>14. RecentInv /\ StoredInOrder /\ DeliveredIsStored /\ PlainPostsApart
  BY <1>3 DEF RecentInv, StoredInOrder, DeliveredIsStored, PlainPostsApart
<1> QED BY <1>8, <1>9, <1>10, <1>11, <1>12, <1>13, <1>14 DEF IInv

LEMMA StutterStep == ASSUME IInv, UNCHANGED vars PROVE IInv'
BY DEF IInv, vars, client, serverVars, TypeOK, NetInv, SavedInv, OwnInv, ClockInv, GapInv,
       SinceGap, ServerGap, NetGap, AheadInv, RecentInv, StoredInOrder, DeliveredIsStored,
       PlainPostsApart

LEMMA HandledStep == ASSUME IInv, NEW f \in net, Handled(f) PROVE IInv'
BY RxReplyStep, RxPushStep, RxPushCutShortStep, RxKaAckStep, RxPostAckStep, SrvLoginStep,
   SrvPostStep, SrvKeepAliveStep, SrvAckStep DEF Handled

LEMMA InvStep == IInv /\ [Next]_vars => IInv'
<1> SUFFICES ASSUME IInv, [Next]_vars PROVE IInv'
  OBVIOUS
<1>1. NetInv
  BY DEF IInv
<1> QED BY <1>1, NextCases, SendLoginStep, SendKeepAliveStep, LoseRouteStep, SendPostStep,
           RebootStep, RetryPostStep, SrvPushStep, OtherPostsStep, HandledStep, StutterStep

LEMMA InvHolds == Spec => []IInv
BY InitHolds, InvStep, PTL DEF Spec

\* Whatever is lost, reordered or cut short by a reboot, the stamps a boot resumes
\* from outrun every stamp the server has seen or may still see.
THEOREM StampsHold == Spec => []StampInv
<1>1. IInv => StampInv
  BY DEF IInv, StampInv, ResumeOutrunsServer, SavedInv, NetInv, FrameOK
<1> QED BY <1>1, InvHolds, PTL

\* However often it is retried, a post of the client is stored once, in order, and
\* reported delivered only if it was.
THEOREM OwnPostsHold == Spec => []OwnPostsOnce
<1>1. IInv => OwnPostsOnce
  BY DEF IInv, OwnPostsOnce
<1> QED BY <1>1, InvHolds, PTL

\* The saved watermark passes over no post that the server still has.
THEOREM NoGap == Spec => []NoSilentGap
<1>1. IInv => NoSilentGap
  <2> SUFFICES ASSUME IInv, NEW i \in 1..Len(ring), ring[i].kind # Own, ring[i].ts > base,
                      ring[i].ts <= nvs.since
               PROVE  InHistory(ring[i].ts, history)
    BY DEF NoSilentGap, InHistory
  <2>1. TypeOK /\ ring[i] \in RingPost /\ nvs.since = session.since /\ base \in Nat
        /\ session.since \in Nat
    BY TypeFacts DEF IInv, SavedInv, ClockInv
  <2>2. ring[i].ts \in Nat
    BY <2>1 DEF RingPost
  <2>3. session.since # base
    BY <2>1, <2>2
  <2> QED BY <2>1, <2>3 DEF IInv, GapInv, SinceGap, Covered
<1> QED BY <1>1, InvHolds, PTL

\* A plain post enters the history twice only when more posts than the dedup tail
\* holds came in between, across reboots that read the tail back from flash.
THEOREM PlainApart == Spec => []PlainPostsApart
<1>1. IInv => PlainPostsApart
  BY DEF IInv
<1> QED BY <1>1, InvHolds, PTL
=============================================================================
