----------------------------- MODULE StatusFeed -----------------------------
(***************************************************************************)
(* What the player promises to those who listen to its status, whatever    *)
(* threads, queues and timers lie in between: a feed that may skip         *)
(* intermediate messages but delivers in order, and never skips the last.  *)
(***************************************************************************)
EXTENDS StatusMsg, Sequences

VARIABLES pending,    \* statuses the player went through, not yet published
          published   \* the status the listeners were last given

feedVars == <<pending, published>>

Newest == IF pending = <<>> THEN published ELSE pending[Len(pending)]

FeedInit ==
    /\ pending = <<InitialStatus>>
    /\ published = NoStatus

\* The player enters a new status.  Consecutive statuses differ, and none
\* belongs to an earlier moment of the history than the one before it.
Advance(st) ==
    /\ st # Newest
    /\ Rank(Newest) <= Rank(st)
    /\ pending' = Append(pending, st)
    /\ UNCHANGED published

\* The oldest pending status is published.
Publish ==
    /\ pending # <<>>
    /\ published' = Head(pending)
    /\ pending' = Tail(pending)

\* It is skipped instead, since a newer one is waiting.
Skip ==
    /\ Len(pending) > 1
    /\ pending' = Tail(pending)
    /\ UNCHANGED published

FeedNext ==
    \/ \E st \in Status : Advance(st)
    \/ Publish
    \/ Skip

FeedSafety == FeedInit /\ [][FeedNext]_feedVars

\* As long as something is pending, something is published again and again.
\* (This is weak fairness of Publish, which is enabled exactly when pending is
\* not empty; it is written out because ENABLED does not survive a refinement
\* mapping.)
FeedFairness == []<>(pending = <<>>) \/ []<><<Publish>>_feedVars

FeedSpec == FeedSafety /\ FeedFairness

=============================================================================
