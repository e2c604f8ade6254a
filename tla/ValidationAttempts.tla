-------------------------- MODULE ValidationAttempts --------------------------
(***************************************************************************)
(* The record of controlled CASE validations that case_attempt_policy.py   *)
(* lets grow: attempts, each the first of its validation or the successor  *)
(* of an earlier one, and dispositions of what blocked a validation.  Who  *)
(* runs the attempts is free to try any manifest; a record is added when   *)
(* the validators raise nothing.                                           *)
(*                                                                         *)
(* An attempt is named by its position.  The status is left out, since the *)
(* class decides it, and so are references, reasons and preserved evidence,*)
(* which a manifest must give and here does, and the phases of a           *)
(* disposition, which nothing is compared with.                            *)
(***************************************************************************)
EXTENDS Integers, FiniteSets, Sequences

CONSTANTS
    Validation,     \* issues of controlled validations
    Other,          \* issues of what blocks them, and of validations that may succeed them
    NoIssue,
    Class,          \* failure classes that happen in this instance, and "none"
    RetryLimit,     \* the bound the controller declares
    MaxChanges,     \* bound: fields in which an attempt differs from its predecessor,
                    \* one at most when it is a diagnostic
    MaxRecords      \* bound: attempts and dispositions

ASSUME AttemptsAssumption == RetryLimit \in Nat /\ MaxChanges \in Nat /\ MaxRecords \in Nat

VARIABLES
    attempts,       \* in the order of recording
    dispositions

records == <<attempts, dispositions>>

Systemic == {"C", "D", "E", "F"}

\* What a comparison of two attempts looks at, by groups of manifest fields.
Field == {"code", "profile_id", "profile_sha", "input", "baseline", "raw_evidence",
          "provider", "generation"}

\* A faulty form: an envelope that does not fit is retried like a bad connection.
MayRepeatMisfit(class, fixed, operational, number) ==
    \/ class = "A" /\ fixed
    \/ class \in {"B", "C"} /\ number \in 1..RetryLimit
    \/ class = "D" /\ operational /\ number \in 1..RetryLimit

\* same_envelope_retry_allowed, given what the caller says of the gate and the cause.
MayRepeat(class, fixed, operational, number) ==
    \/ class = "A" /\ fixed
    \/ class = "B" /\ number \in 1..RetryLimit
    \/ class = "D" /\ operational /\ number \in 1..RetryLimit

\* validate_attempt_manifest: a diagnostic is marked twice, what is linked has a
\* predecessor, and retries are counted from one.
IsManifest(a) ==
    /\ a.kind = "diagnostic" <=> ~a.canonical
    /\ a.kind = "initial" => a.previous = 0
    /\ a.kind \notin {"initial", "diagnostic"} => a.previous # 0
    /\ a.kind = "same_envelope" => a.retry > 0

\* A faulty form: a new baseline may bring another profile with it.
StableLoose(kind) ==
    CASE kind = "same_envelope" -> Field
      [] kind = "post_fix" -> Field \ {"code"}
      [] kind = "amended" -> {"input", "baseline", "raw_evidence", "provider"}
      [] kind = "new_baseline" -> {"input", "provider", "generation"}
      [] OTHER -> {}

\* The fields a successor of each kind shares with its predecessor.
Stable(kind) ==
    CASE kind = "same_envelope" -> Field
      [] kind = "post_fix" -> Field \ {"code"}
      [] kind = "amended" -> {"input", "baseline", "raw_evidence", "provider"}
      [] kind = "new_baseline" -> {"profile_id", "profile_sha", "input", "provider", "generation"}
      [] OTHER -> {}

\* The fields in which it has to differ.
Renewed(kind) ==
    CASE kind = "amended" -> {"profile_id", "profile_sha"}
      [] kind = "new_baseline" -> {"baseline"}
      [] OTHER -> {}

\* validate_successor_attempt of b after a.
Succeeds(a, b, fixed, operational) ==
    /\ IsManifest(b)
    /\ b.parent = a.parent
    /\ b.kind = "same_envelope" =>
          b.canonical = a.canonical /\ MayRepeat(a.class, fixed, operational, b.retry)
    /\ b.kind \in {"post_fix", "amended", "new_baseline"} => b.canonical
    /\ b.kind # "initial"
    /\ \A f \in Stable(b.kind) : b.envelope[f] = a.envelope[f]
    /\ \A f \in Renewed(b.kind) : b.envelope[f] # a.envelope[f]

Room == Len(attempts) + Cardinality(dispositions) < MaxRecords

NewAttempt(parent, class, kind, previous, retry, envelope) ==
    [parent |-> parent, class |-> class, canonical |-> kind # "diagnostic", kind |-> kind,
     previous |-> previous, retry |-> retry, envelope |-> envelope]

\* The first attempt of a validation, or a diagnostic of its own.
Begin(parent, class, kind) ==
    LET a == NewAttempt(parent, class, kind, 0, 0, [f \in Field |-> 0])
    IN /\ Room /\ IsManifest(a)
       /\ attempts' = Append(attempts, a)
       /\ UNCHANGED dispositions

\* A retry, a rerun or a diagnostic after attempt n.
Rerun(n, class, kind, retry, changed) ==
    LET a == attempts[n]
        b == NewAttempt(a.parent, class, kind, n, retry,
                     [f \in Field |-> IF f \in changed THEN 1 - a.envelope[f] ELSE a.envelope[f]])
    IN /\ Room
       /\ \E fixed, operational \in BOOLEAN : Succeeds(a, b, fixed, operational)
       /\ attempts' = Append(attempts, b)
       /\ UNCHANGED dispositions

\* validate_validation_disposition, given the attempt that blocks.
IsDisposition(d) ==
    /\ d.class # "none"
    /\ d.resume =>
          /\ d.successor = NoIssue
          /\ d.class \in Systemic => d.blockers # {}
    /\ ~d.resume =>
          /\ d.class \in Systemic /\ d.blockers # {}
          /\ d.successor \notin {NoIssue, d.parent} \cup d.blockers

Dispose(n, resume, blockers, successor) ==
    LET d == [attempt |-> n, parent |-> attempts[n].parent, class |-> attempts[n].class,
              resume |-> resume, blockers |-> blockers, successor |-> successor]
    IN /\ Room /\ IsDisposition(d)
       /\ dispositions' = dispositions \cup {d}
       /\ UNCHANGED attempts

AttemptsInit == attempts = <<>> /\ dispositions = {}

\* Changes tried: any that the kind may have room for.
Changes(kind) ==
    LET free == Field \ Stable(kind)
        most == IF kind = "diagnostic" THEN 1 ELSE MaxChanges
    IN {s \cup Renewed(kind) : s \in {t \in SUBSET free : Cardinality(t) <= most}}
       \cup {{f} : f \in Field}

AttemptsNext ==
    /\ Room
    /\ \/ \E v \in Validation, c \in Class, k \in {"initial", "diagnostic"} : Begin(v, c, k)
       \/ \E n \in DOMAIN attempts, c \in Class, r \in 0..RetryLimit + 1,
             k \in {"same_envelope", "post_fix", "amended", "new_baseline", "diagnostic"} :
             /\ k = "same_envelope" \/ r = 0
             /\ \E changed \in Changes(k) : Rerun(n, c, k, r, changed)
       \/ \E n \in DOMAIN attempts, resume \in BOOLEAN, b \in SUBSET Other,
             s \in Validation \cup Other \cup {NoIssue} : Dispose(n, resume, b, s)

AttemptsSpec == AttemptsInit /\ [][AttemptsNext]_records

-----------------------------------------------------------------------------
\* Of each attempt, it and its predecessors down to m, which is left out.
Since(m) ==
    LET since[k \in 0..Len(attempts)] ==
            IF k <= m THEN {} ELSE {k} \cup since[attempts[k].previous]
    IN since

\* The attempts from m (left out) to n, by way of predecessors; {} if m is not one.
Lineage(m, n) ==
    IF \E k \in Since(m)[n] : attempts[k].previous = m THEN Since(m)[n] ELSE {}

\* However long the lineage of a canonical attempt, what it changed since any
\* canonical ancestor was declared on the way: another profile by an amendment,
\* another corpus by a new baseline, another program by a rerun; its input and
\* provider never change. "changes are contract amendments, not invisible
\* retries" (case-controlled-failure-protocol.md, core rule 5).
ChangesAreDeclared ==
    \A n \in DOMAIN attempts : \A m \in 1..n - 1 :
        LET path == Lineage(m, n)
            differs(f) == attempts[m].envelope[f] # attempts[n].envelope[f]
            declared(kinds) == \E k \in path : attempts[k].kind \in kinds
        IN path # {} /\ (\A k \in path \cup {m} : attempts[k].canonical) =>
             /\ ~differs("input") /\ ~differs("provider")
             /\ (\E f \in {"profile_id", "profile_sha", "generation"} : differs(f))
                   => declared({"amended"})
             /\ differs("baseline") \/ differs("raw_evidence") => declared({"new_baseline"})
             /\ differs("code") => declared({"post_fix", "amended", "new_baseline"})

\* What a validation was closed for is not repeated as it was, before or after the
\* disposition, unless its cause was operational: an attempt that a bounded retry
\* may still turn into a result is not a systemic failure.
ClosedForCause ==
    \A d \in dispositions, k \in DOMAIN attempts :
        /\ ~d.resume
        /\ attempts[k].previous = d.attempt /\ attempts[k].kind = "same_envelope"
        => attempts[d.attempt].class = "D"
===============================================================================
