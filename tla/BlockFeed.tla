----------------------------- MODULE BlockFeed -----------------------------
(***************************************************************************)
(* What the download queue promises its two users.  Hashes are scheduled,  *)
(* in any order; blocks come out in the order of their heights, without    *)
(* gaps and only if they were scheduled; nothing scheduled goes away       *)
(* otherwise, until the queue is reset.                                    *)
(***************************************************************************)
EXTENDS Integers, Sequences

CONSTANTS Hash, Height

VARIABLES
    todo,  \* hashes scheduled and not handed over yet
    next,  \* height of the next block to be handed over
    out    \* blocks handed over

feedVars == <<todo, next, out>>

Init == todo = {} /\ next = 0 /\ out = <<>>

Restart == todo' = {} /\ next' = 0 /\ out' = <<>>

\* The first height is fixed before anything is handed over.
Begin ==
    /\ out = <<>>
    /\ next' \in Nat /\ next' >= next
    /\ UNCHANGED <<todo, out>>

Schedule ==
    /\ todo' \subseteq Hash /\ todo \subseteq todo'
    /\ UNCHANGED <<next, out>>

\* The n blocks of the next n heights are handed over at once.  One of them
\* may have been scheduled a second time, and then stays scheduled.
HandOver ==
    LET n     == Len(out') - Len(out)
        given == {out'[i] : i \in Len(out) + 1 .. Len(out')}
    IN
    /\ n > 0
    /\ \A i \in 1 .. Len(out) : out'[i] = out[i]
    /\ given \subseteq todo
    /\ \A i \in 1 .. n : Height[out'[Len(out) + i]] = next + i - 1
    /\ next' = next + n
    /\ todo' \subseteq todo /\ todo \ given \subseteq todo'

Spec == Init /\ [][Restart \/ Begin \/ Schedule \/ HandOver]_feedVars
=============================================================================
