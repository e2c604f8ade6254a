--------------------------- MODULE StatusMailbox ---------------------------
(***************************************************************************)
(* The append-only status channel of the scheduled workers                 *)
(* (ops/worker_status_mailbox.py): one directory of numbered event files   *)
(* per worker, each naming the hash of the one before, appended under one  *)
(* advisory lock by processes that may be killed at any point, on a disk   *)
(* that may lose its power.                                                *)
(*                                                                         *)
(* An event is the number of the call that wrote it, and its hash is that  *)
(* number: the hashes of different events differ.  The file system keeps   *)
(* the order of the renames it has not yet made durable.                   *)
(***************************************************************************)
EXTENDS Naturals

CONSTANTS
    Process, Worker,
    Nobody,      \* the lock is free
    NoWorker,    \* a process that is not recording
    MailFaults,  \* what may go wrong in this instance
    MaxCalls     \* record calls in a behaviour

MailFaultKinds == {"kill", "disk", "power"}

ASSUME MailboxAssumption ==
    /\ Nobody \notin Process /\ NoWorker \notin Worker
    /\ MailFaults \subseteq MailFaultKinds
    /\ MaxCalls \in Nat

VARIABLES
    dir,       \* the event files of each worker, as running programs see them
    onDisk,    \* as they would be after a loss of power
    lock, at, call,
    calls,     \* record calls so far
    printed    \* history: the events whose receipt was printed

mailbox == <<dir, onDisk, lock, at, call, calls, printed>>

Slot == 1..(MaxCalls + 1)

\* A file: absent, unreadable, or the event of call `id` after event `prev`;
\* `flushed` when its bytes are on the disk.
Event == [id : 0..MaxCalls, prev : 0..MaxCalls, flushed : BOOLEAN]
Absent == [id |-> 0, prev |-> 0, flushed |-> FALSE]
Torn == [id |-> 0, prev |-> 0, flushed |-> TRUE]

CallState == [worker : Worker \cup {NoWorker}, id : 0..MaxCalls, slot : 0..(MaxCalls + 1),
              prev : 0..MaxCalls, flushed : BOOLEAN]
NoCall == [worker |-> NoWorker, id |-> 0, slot |-> 0, prev |-> 0, flushed |-> FALSE]

-----------------------------------------------------------------------------

Move(p, point) == at' = [at EXCEPT ![p] = point]

End(p) == Move(p, "idle") /\ call' = [call EXCEPT ![p] = NoCall]

Release(p) == lock' = IF lock = p THEN Nobody ELSE lock

\* load_entries: the files are numbered without a gap, and each is linked.
Files(w) == {n \in Slot : dir[w][n] # Absent}

LinkTo(w, n) == IF n <= 1 THEN 0 ELSE dir[w][n - 1].id

ValidChain(w) ==
    \A n \in Files(w) :
        /\ dir[w][n] # Torn
        /\ n > 1 => n - 1 \in Files(w)
        /\ dir[w][n].prev = LinkTo(w, n)

NextSlot(w) == CHOOSE n \in Slot : n \notin Files(w) /\ 1..(n - 1) \subseteq Files(w)

-----------------------------------------------------------------------------

\* A record call whose detail passed validation.
Begin(p, w) ==
    /\ at[p] = "idle" /\ calls < MaxCalls
    /\ calls' = calls + 1
    /\ call' = [call EXCEPT ![p] = [NoCall EXCEPT !.worker = w, !.id = calls + 1]]
    /\ Move(p, "lock")
    /\ UNCHANGED <<dir, onDisk, lock, printed>>

\* Mutant: no lock.
Unlocked(p) ==
    /\ at[p] = "lock"
    /\ Move(p, "load")
    /\ UNCHANGED <<dir, onDisk, lock, call, calls, printed>>

\* flock(LOCK_EX) on ROOT/.lock
Acquire(p) ==
    /\ at[p] = "lock" /\ lock = Nobody
    /\ lock' = p
    /\ Move(p, "load")
    /\ UNCHANGED <<dir, onDisk, call, calls, printed>>

\* The whole chain is checked before anything is appended to it.
Load(p) ==
    /\ at[p] = "load"
    /\ LET w == call[p].worker
       IN  IF ValidChain(w)
           THEN /\ call' = [call EXCEPT ![p].slot = NextSlot(w),
                                      ![p].prev = LinkTo(w, NextSlot(w))]
                /\ Move(p, "write") /\ UNCHANGED lock
           ELSE End(p) /\ Release(p)
    /\ UNCHANGED <<dir, onDisk, calls, printed>>

\* Mutant: the pending file is renamed without being flushed.
WriteOnly(p) ==
    /\ at[p] = "write"
    /\ Move(p, "replace")
    /\ UNCHANGED <<dir, onDisk, lock, call, calls, printed>>

\* The pending file is written and flushed; readers match *.json, not its name.
Write(p) ==
    /\ at[p] = "write"
    /\ call' = [call EXCEPT ![p].flushed = TRUE]
    /\ Move(p, "replace")
    /\ UNCHANGED <<dir, onDisk, lock, calls, printed>>

\* os.replace to the event's number.
Replace(p) ==
    /\ at[p] = "replace"
    /\ dir' = [dir EXCEPT ![call[p].worker][call[p].slot] =
          [id |-> call[p].id, prev |-> call[p].prev, flushed |-> call[p].flushed]]
    /\ Move(p, "sync")
    /\ UNCHANGED <<onDisk, lock, call, calls, printed>>

\* fsync of the directory, and the lock is given back.
Sync(p) ==
    /\ at[p] = "sync"
    /\ onDisk' = [onDisk EXCEPT ![call[p].worker] = dir[call[p].worker]]
    /\ Release(p)
    /\ Move(p, "report")
    /\ UNCHANGED <<dir, call, calls, printed>>

\* The receipt is printed.
Report(p) ==
    /\ at[p] = "report"
    /\ printed' = printed \cup {[worker |-> call[p].worker, id |-> call[p].id,
                                   slot |-> call[p].slot]}
    /\ End(p)
    /\ UNCHANGED <<dir, onDisk, lock, calls>>

\* An OSError before or after the rename: no receipt, whether or not the event
\* is there.  The pending file is removed.
AppendError(p) ==
    /\ "disk" \in MailFaults
    /\ at[p] \in {"write", "replace", "sync"}
    /\ End(p) /\ Release(p)
    /\ UNCHANGED <<dir, onDisk, calls, printed>>

\* The process dies; the kernel gives its lock back.
KillProcess(p) ==
    /\ "kill" \in MailFaults
    /\ at[p] # "idle"
    /\ End(p) /\ Release(p)
    /\ UNCHANGED <<dir, onDisk, calls, printed>>

\* What is left of a worker's files when n is the last rename to survive.
Surviving(w, n) ==
    [k \in Slot |->
        IF onDisk[w][k] # Absent \/ k > n THEN onDisk[w][k]
        ELSE IF dir[w][k] # Absent /\ ~dir[w][k].flushed THEN Torn
        ELSE dir[w][k]]

\* The machine loses its power.
Outage ==
    /\ "power" \in MailFaults
    /\ \E last \in [Worker -> 0..MaxCalls] :
          dir' = [w \in Worker |-> Surviving(w, last[w])]
    /\ onDisk' = dir'
    /\ at' = [p \in Process |-> "idle"]
    /\ call' = [p \in Process |-> NoCall]
    /\ lock' = Nobody
    /\ UNCHANGED <<calls, printed>>

MailInit ==
    /\ dir = [w \in Worker |-> [n \in Slot |-> Absent]]
    /\ onDisk = dir
    /\ lock = Nobody
    /\ at = [p \in Process |-> "idle"]
    /\ call = [p \in Process |-> NoCall]
    /\ calls = 0
    /\ printed = {}

Recording(p) ==
    \/ Acquire(p) \/ Load(p) \/ Write(p) \/ Replace(p) \/ Sync(p) \/ Report(p)

MailNext ==
    \/ \E p \in Process :
          \/ \E w \in Worker : Begin(p, w)
          \/ Recording(p) \/ AppendError(p) \/ KillProcess(p)
    \/ Outage

MailSpec == MailInit /\ [][MailNext]_mailbox

-----------------------------------------------------------------------------
(* Properties.                                                             *)

\* A file is absent or an event in one of the slots, and a process that is past
\* reading the chain has a slot to write to.
MailTypeOK ==
    /\ dir \in [Worker -> [Slot -> Event]]
    /\ onDisk \in [Worker -> [Slot -> Event]]
    /\ lock \in Process \cup {Nobody}
    /\ at \in [Process -> {"idle", "lock", "load", "write", "replace", "sync", "report"}]
    /\ call \in [Process -> CallState]
    /\ \A p \in Process : at[p] \in {"write", "replace", "sync", "report"} => call[p].slot \in Slot
    /\ calls \in 0..MaxCalls
    /\ printed \subseteq [worker : Worker, id : 0..MaxCalls, slot : Slot]

\* "atomic immutable append": whoever writes at once, is killed or loses power,
\* every reader finds a complete and linked chain.  A chain that is not would
\* make every later record and inspect fail.
ChainStaysValid == \A w \in Worker : ValidChain(w)

\* A receipt is never wrong afterwards: its event stays where it was recorded,
\* also over a loss of power, and no later event takes its number.
ReceiptsAreKept ==
    \A r \in printed : dir[r.worker][r.slot].id = r.id
=============================================================================
