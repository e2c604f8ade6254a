--------------------------- MODULE AttemptArchive ---------------------------
(***************************************************************************)
(* What the archive of rejected model attempts promises: an attempt        *)
(* appears whole, under an id that never stands for anything else, and     *)
(* once its caller has been told that it is stored it never goes away.     *)
(***************************************************************************)
CONSTANTS AttemptId, Entry, NoEntry

VARIABLES
    published,   \* id -> what is stored under it
    receipts     \* the entries whose storage was reported: <<id, entry>>

vars == <<published, receipts>>

Init ==
    /\ published = [i \in AttemptId |-> NoEntry]
    /\ receipts = {}

\* Any entry may appear under a free id.
Publish(i) ==
    /\ published[i] = NoEntry
    /\ published'[i] \in Entry
    /\ published' = [published EXCEPT ![i] = published'[i]]
    /\ UNCHANGED receipts

Report(i) ==
    /\ published[i] # NoEntry
    /\ receipts' = receipts \cup {<<i, published[i]>>}
    /\ UNCHANGED published

\* A loss of power may take what was not reported yet.
Lose(kept) ==
    /\ \A r \in receipts : r[1] \in kept
    /\ published' = [i \in AttemptId |-> IF i \in kept THEN published[i] ELSE NoEntry]
    /\ UNCHANGED receipts

Next ==
    \/ \E i \in AttemptId : Publish(i) \/ Report(i)
    \/ \E kept \in SUBSET AttemptId : Lose(kept)

Spec == Init /\ [][Next]_vars
=============================================================================
