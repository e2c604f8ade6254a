-------------------------- MODULE WriteOnceBundles --------------------------
(***************************************************************************)
(* What publishing a legal research bundle promises: a reference receives  *)
(* its content once and for all, the standalone file under that reference  *)
(* is a whole copy of that content unless somebody edits it, and a         *)
(* publication is acknowledged only when the file is there.                *)
(***************************************************************************)
CONSTANTS Ref, Body, NoBody, Foreign

VARIABLES
    store,   \* ref -> the content it stands for
    files,   \* ref -> the content of its standalone file
    acked,   \* the publications that were acknowledged
    edited   \* the refs whose file somebody else has changed

vars == <<store, files, acked, edited>>

Init ==
    /\ store = [r \in Ref |-> NoBody]
    /\ files = [r \in Ref |-> NoBody]
    /\ acked = {}
    /\ edited = {}

\* A free reference receives its content.
Commit(r, b) ==
    /\ store[r] = NoBody
    /\ store' = [store EXCEPT ![r] = b]
    /\ UNCHANGED <<files, acked, edited>>

\* The file appears, whole, with the content of its reference.
Copy(r) ==
    /\ store[r] # NoBody
    /\ files' = [files EXCEPT ![r] = store[r]]
    /\ edited' = edited \ {r}
    /\ UNCHANGED <<store, acked>>

Acknowledge(r) ==
    /\ store[r] # NoBody /\ files[r] = store[r]
    /\ acked' = acked \cup {<<r, store[r]>>}
    /\ UNCHANGED <<store, files, edited>>

\* The file is removed or overwritten by somebody else.
Edit(r, found) ==
    /\ files' = [files EXCEPT ![r] = found]
    /\ edited' = edited \cup {r}
    /\ UNCHANGED <<store, acked>>

Next ==
    \E r \in Ref :
        \/ \E b \in Body : Commit(r, b)
        \/ Copy(r) \/ Acknowledge(r)
        \/ \E found \in {NoBody, Foreign} : Edit(r, found)

Spec == Init /\ [][Next]_vars
=============================================================================
