-------------------------- MODULE MCAppendOnlyFiles --------------------------
(* The two append-only directories of the scheduled workers and of CASE: a   *)
(* behaviour is one of the rejected-attempt store or one of the mailbox.     *)
EXTENDS EvidenceStore, StatusMailbox, TLC

VARIABLE channel   \* which of the two this behaviour is about

\* An ordinary invalid draft, a transport failure without a body, and a
\* provider that echoes the credential in what it sent and in its error.
MCObserved == {
    [a \in Artifact \cup {"metadata"} |-> "plain"],
    [a \in Artifact \cup {"metadata"} |-> IF a = "metadata" THEN "plain" ELSE "none"],
    [a \in Artifact \cup {"metadata"} |-> IF a = "assistant" THEN "plain" ELSE "secret"] }

\* Writers, processes, workers and attempt ids are interchangeable.
FilesSymmetry ==
    UNION {Permutations(s) : s \in {Writer, AttemptId, Process, Worker}}

FilesInit == channel \in {"evidence", "mailbox"} /\ Init /\ MailInit

FilesNext ==
    /\ UNCHANGED channel
    /\ \/ channel = "evidence" /\ Next /\ UNCHANGED mailbox
       \/ channel = "mailbox" /\ MailNext /\ UNCHANGED vars

FilesSpec == FilesInit /\ [][FilesNext]_<<channel, vars, mailbox>>
=============================================================================
