----------------------------- MODULE HistoryLog -----------------------------
(***************************************************************************)
(* What the message history promises its readers (the UI's hydration, the  *)
(* admin export): each conversation is a log of its newest Keep places,    *)
(* oldest first, every operation takes effect at one instant, and an       *)
(* interruption spoils at most one place.  Only while the history is being *)
(* cleared may a log fall back to an earlier one.                          *)
(***************************************************************************)
EXTENDS Naturals, FiniteSetsExt, SequencesExt

CONSTANTS Convs,      \* conversations
          Keep,       \* MAX_HISTORY_ENTRIES
          Entries,    \* records with fields msg, conv, ours, acked
          Unreadable, \* a place spoiled so that readers skip it
          Garbled     \* a place spoiled so that readers see nonsense

VARIABLES log,        \* the places of each conversation, oldest first
          clearing    \* the history is being cleared

logVars == <<log, clearing>>

LogInit ==
    /\ log = [c \in Convs |-> <<>>]
    /\ clearing = FALSE

Newest(l) == IF Len(l) <= Keep THEN l ELSE SubSeq(l, Len(l) - Keep + 1, Len(l))

\* The entries c may gain, and the ways to spoil a place.
Additions(c) == {e \in Entries : e.conv = c} \cup {Unreadable, Garbled}

\* The places readers do not skip, in order.
Tidied(l) ==
    LET kept[n \in 0..Len(l)] ==
            IF n = 0 THEN <<>>
            ELSE IF l[n] = Unreadable THEN kept[n - 1]
            ELSE Append(kept[n - 1], l[n])
    IN  kept[Len(l)]

Unacked(l) == {i \in 1..Len(l) : l[i].ours /\ ~l[i].acked}

\* The newest own message not acknowledged yet is marked.
Marked(l) ==
    IF Unacked(l) = {} THEN l ELSE [l EXCEPT ![Max(Unacked(l))].acked = TRUE]

\* A message is added, or spoils a place; a rewrite gives unreadable places
\* back, and may set a mark.
LogOperation(c) ==
    /\ ~clearing
    /\ log' \in {[log EXCEPT ![c] = l] :
                    l \in {Newest(Append(log[c], e)) : e \in Additions(c)}
                             \cup {Tidied(log[c]), Marked(Tidied(log[c]))}}
    /\ UNCHANGED clearing

LogClear ==
    /\ clearing' = ~clearing
    /\ UNCHANGED log

\* While clearing, a conversation loses everything, or falls back to a log
\* of messages of its own.
LogErase(c) ==
    /\ clearing
    /\ clearing' \in BOOLEAN
    /\ LET l == log'[c]
       IN  /\ log' = [log EXCEPT ![c] = l]
           /\ Len(l) <= Keep
           /\ \A i \in 1..Len(l) : l[i] \in Additions(c)

LogNext == LogClear \/ \E c \in Convs : LogOperation(c) \/ LogErase(c)

LogSpec == LogInit /\ [][LogNext]_logVars
=============================================================================
