-------------------------- MODULE CaseServiceProofs --------------------------
(***************************************************************************)
(* What is proved about bundle publication for every number of publishers, *)
(* refs, bodies and mishaps, and about the CASE service that publishes so, *)
(* for any number of threads, requests and commits of other programs.      *)
(***************************************************************************)
EXTENDS CaseService, FiniteSetTheorems, TLAPS

\* Points only a call in write mode reaches ...
Writing == {"insert", "confirm", "load", "write", "rename"}
\* ... and points past the comparison with the database.
Compared == {"confirm", "load", "plan", "write", "rename", "verify"}

\* The inductive invariant: HoldsStored needs to know that a dry run never gets
\* to the points at which something is written.
Inv ==
    /\ TypeOK
    /\ HoldsStored
    /\ \A p \in Publisher : pc[p] \in Writing => ~job[p].dry

-----------------------------------------------------------------------------

\* Nothing is stored, nobody is at work.
LEMMA InitInv == ASSUME PublicationAssumption PROVE Init => Inv
BY DEF PublicationAssumption, Init, Inv, TypeOK, HoldsStored, NoJob, Job,
       Control, Answers, Writing

\* A call begins with a well-formed bundle and holds nothing yet.
LEMMA BeginInv ==
    ASSUME PublicationAssumption, Inv, NEW p \in Publisher,
           NEW r \in Ref, NEW b \in Body, NEW d \in BOOLEAN, Begin(p, r, b, d)
    PROVE  Inv'
<1>1. [ref |-> r, body |-> b, held |-> b, dry |-> d] \in Job
  BY DEF Job
<1>2. TypeOK'
  BY <1>1 DEF Inv, TypeOK, Begin, Control, Answers
<1>3. \A q \in Publisher : q # p => pc'[q] = pc[q] /\ job'[q] = job[q]
  BY DEF Begin, Inv, TypeOK
<1>4. pc'[p] = "lookup" /\ store' = store
  BY DEF Begin, Inv, TypeOK
<1> QED
  BY <1>2, <1>3, <1>4 DEF Inv, HoldsStored, Writing

\* A call that ends holds nothing any more; rows are where they were.
LEMMA ReturnInv ==
    ASSUME PublicationAssumption, Inv, NEW p \in Publisher,
           NEW a \in Answers, Return(p, a),
           store' = store, files' \in [Ref -> Body \cup {NoBody, Foreign}],
           acked' \subseteq Ref \X Body, edited' \subseteq Ref, mishaps' \in 0..MaxMishaps
    PROVE  Inv'
<1>1. TypeOK'
  BY DEF Inv, TypeOK, Return, Control, Answers
<1>2. \A q \in Publisher : q # p => pc'[q] = pc[q] /\ job'[q] = job[q]
  BY DEF Return, Inv, TypeOK
<1>3. pc'[p] = "idle"
  BY DEF Return, Inv, TypeOK
<1> QED
  BY <1>1, <1>2, <1>3 DEF Inv, HoldsStored, Writing

\* The control point of one publisher moves, under what the invariant asks of
\* the new point; the database may have grown a row.
LEMMA GotoInv ==
    ASSUME PublicationAssumption, Inv, NEW p \in Publisher,
           NEW point \in Control \ {"idle"}, Goto(p, point), pc[p] # "idle",
           store' \in [Ref -> Body \cup {NoBody}],
           \A r \in Ref : store[r] # NoBody => store'[r] = store[r],
           files' \in [Ref -> Body \cup {NoBody, Foreign}],
           acked' = acked, edited' \subseteq Ref, mishaps' = mishaps,
           point \in Writing => ~job[p].dry,
           point \in Compared /\ ~job[p].dry => store'[job[p].ref] = job[p].body,
           point \in Compared \ {"confirm", "load"} /\ ~job[p].dry => job[p].held = job[p].body
    PROVE  Inv'
<1>1. TypeOK'
  BY DEF Inv, TypeOK, Goto, Control, Answers
<1>2. \A q \in Publisher : q # p => pc'[q] = pc[q]
  BY DEF Goto, Inv, TypeOK
<1>3. pc'[p] = point /\ job' = job
  BY DEF Goto, Inv, TypeOK
<1>4. ASSUME NEW q \in Publisher, q # p, pc'[q] \in Compared, ~job'[q].dry
      PROVE  store'[job'[q].ref] = job'[q].body
  <2>1. job[q] \in Job /\ pc[q] \in Compared
    BY <1>2, <1>4 DEF Inv, TypeOK, Compared
  <2>2. store[job[q].ref] = job[q].body /\ job[q].body \in Body /\ job[q].ref \in Ref
    BY <2>1, <1>3, <1>4 DEF Inv, HoldsStored, Compared, Job
  <2> QED
    BY <2>2, <1>3 DEF PublicationAssumption
<1>5. HoldsStored'
  BY <1>2, <1>3, <1>4 DEF Inv, HoldsStored, Compared
<1> QED
  BY <1>1, <1>2, <1>3, <1>5 DEF Inv, Writing

\* Every step of a call preserves the invariant.
LEMMA StepInv ==
    ASSUME PublicationAssumption, Inv, NEW p \in Publisher, Step(p)
    PROVE  Inv'
<1>0. /\ store \in [Ref -> Body \cup {NoBody}]
      /\ files \in [Ref -> Body \cup {NoBody, Foreign}]
      /\ acked \subseteq Ref \X Body /\ edited \subseteq Ref /\ mishaps \in 0..MaxMishaps
      /\ pc[p] # "idle" => job[p] \in Job
  BY DEF Inv, TypeOK
<1>1. CASE Lookup(p)
  <2>1. pc[p] = "lookup" /\ job[p] \in Job
    BY <1>0, <1>1 DEF Lookup
  <2>2. CASE Return(p, "integrity")
    BY <1>0, <1>1, <2>2, ReturnInv DEF Lookup, Answers
  <2>3. CASE Goto(p, "plan") /\ job[p].dry
    BY <1>0, <1>1, <2>1, <2>3, GotoInv DEF Lookup, Control, Writing
  <2>4. CASE Goto(p, "insert") /\ ~job[p].dry
    BY <1>0, <1>1, <2>1, <2>4, GotoInv DEF Lookup, Control, Writing, Compared
  <2>5. CASE Goto(p, "load") /\ ~job[p].dry /\ SameRow(p)
    BY <1>0, <1>1, <2>1, <2>5, GotoInv DEF Lookup, Control, Writing, Compared, SameRow
  <2> QED
    BY <1>1, <2>2, <2>3, <2>4, <2>5 DEF Lookup
<1>2. CASE Insert(p)
  <2>1. pc[p] = "insert" /\ job[p] \in Job /\ ~job[p].dry
    BY <1>0, <1>2 DEF Insert, Inv, Writing
  <2>2. CASE Return(p, "persistence") /\ UNCHANGED store
    BY <1>0, <1>2, <2>2, ReturnInv DEF Insert, Answers
  <2>3. CASE /\ store[job[p].ref] = NoBody
             /\ store' = [store EXCEPT ![job[p].ref] = job[p].body]
             /\ Goto(p, "confirm")
    <3>1. job[p].ref \in Ref /\ job[p].body \in Body
      BY <2>1 DEF Job
    <3>2. /\ store' \in [Ref -> Body \cup {NoBody}]
          /\ store'[job[p].ref] = job[p].body
          /\ \A r \in Ref : store[r] # NoBody => store'[r] = store[r]
      BY <1>0, <2>3, <3>1
    <3> QED
      BY <1>0, <1>2, <2>1, <2>3, <3>2, GotoInv DEF Insert, Control, Writing, Compared
  <2> QED
    BY <1>2, <2>2, <2>3 DEF Insert
<1>3. CASE Confirm(p)
  <2>1. pc[p] = "confirm" /\ job[p] \in Job /\ ~job[p].dry
    BY <1>0, <1>3 DEF Confirm, Inv, Writing
  <2>2. CASE Return(p, "integrity")
    BY <1>0, <1>3, <2>2, ReturnInv DEF Confirm, Answers
  <2>3. CASE Goto(p, "load") /\ SameRow(p)
    BY <1>0, <1>3, <2>1, <2>3, GotoInv DEF Confirm, Control, Writing, Compared, SameRow
  <2> QED
    BY <1>3, <2>2, <2>3 DEF Confirm
<1>4. CASE Load(p)
  <2>1. pc[p] = "load" /\ job[p] \in Job /\ ~job[p].dry
    BY <1>0, <1>4 DEF Load, Inv, Writing
  <2>2. /\ store[job[p].ref] = job[p].body
        /\ job[p].body \in Body
    BY <2>1 DEF Inv, HoldsStored, Job
  <2>3. store[job[p].ref] # NoBody
    BY <2>2 DEF PublicationAssumption
  <2> DEFINE loaded == [job[p] EXCEPT !.held = job[p].body]
  <2>4. loaded \in Job /\ ~loaded.dry /\ loaded.held = loaded.body
        /\ loaded.ref = job[p].ref /\ loaded.body = job[p].body
    BY <2>1, <2>2 DEF Job
  <2>5. job' = [job EXCEPT ![p] = loaded] /\ pc' = [pc EXCEPT ![p] = "plan"]
        /\ UNCHANGED <<store, files, answer, acked, edited, mishaps>>
    BY <1>4, <2>2, <2>3 DEF Load
  <2> HIDE DEF loaded
  <2>6. TypeOK'
    BY <2>4, <2>5 DEF Inv, TypeOK, Control
  <2>7. \A q \in Publisher : q # p => pc'[q] = pc[q] /\ job'[q] = job[q]
    BY <2>5 DEF Inv, TypeOK
  <2>8. pc'[p] = "plan" /\ job'[p] = loaded
    BY <2>5 DEF Inv, TypeOK
  <2>9. HoldsStored'
    BY <2>2, <2>4, <2>5, <2>7, <2>8 DEF Inv, HoldsStored
  <2> QED
    BY <2>6, <2>7, <2>8, <2>9 DEF Inv, Writing
<1>5. CASE PlanFile(p)
  <2>1. pc[p] = "plan" /\ job[p] \in Job
    BY <1>0, <1>5 DEF PlanFile
  <2>2. ~job[p].dry => store[job[p].ref] = job[p].body /\ job[p].held = job[p].body
    BY <2>1 DEF Inv, HoldsStored
  <2>3. CASE Goto(p, "verify")
    BY <1>0, <1>5, <2>1, <2>2, <2>3, GotoInv DEF PlanFile, Control, Writing, Compared
  <2>4. CASE Goto(p, "write") /\ ~job[p].dry
    BY <1>0, <1>5, <2>1, <2>2, <2>4, GotoInv DEF PlanFile, Control, Writing, Compared
  <2> QED
    BY <1>5, <2>3, <2>4 DEF PlanFile
<1>6. CASE WriteTemp(p) \/ Rename(p)
  <2>1. pc[p] \in {"write", "rename"} /\ job[p] \in Job /\ ~job[p].dry
    BY <1>0, <1>6 DEF WriteTemp, Rename, Inv, Writing
  <2>2. store[job[p].ref] = job[p].body /\ job[p].held = job[p].body
    BY <2>1 DEF Inv, HoldsStored
  <2>3. files' \in [Ref -> Body \cup {NoBody, Foreign}]
    BY <1>0, <1>6, <2>1 DEF WriteTemp, Rename, Job
  <2>4. CASE WriteTemp(p)
    BY <1>0, <2>1, <2>2, <2>3, <2>4, GotoInv DEF WriteTemp, Control, Writing, Compared
  <2>5. CASE Rename(p)
    BY <1>0, <2>1, <2>2, <2>3, <2>5, GotoInv DEF Rename, Control, Writing, Compared
  <2> QED
    BY <1>6, <2>4, <2>5
<1>7. CASE Verify(p)
  <2>1. job[p] \in Job
    BY <1>0, <1>7 DEF Verify
  <2>2. acked' \subseteq Ref \X Body
    BY <1>0, <1>7, <2>1 DEF Verify, Job
  <2>3. \E a \in Answers : Return(p, a)
    BY <1>7 DEF Verify, Answers
  <2> QED
    BY <1>0, <1>7, <2>2, <2>3, ReturnInv DEF Verify
<1> QED
  BY <1>1, <1>2, <1>3, <1>4, <1>5, <1>6, <1>7 DEF Step

\* Locks, disk errors, crashes and tampering only end calls or change files.
LEMMA TroubleInv ==
    ASSUME PublicationAssumption, Inv,
           \/ \E p \in Publisher : Trouble(p)
           \/ \E r \in Ref, found \in {NoBody, Foreign} : Tamper(r, found)
    PROVE  Inv'
<1>0. /\ files \in [Ref -> Body \cup {NoBody, Foreign}]
      /\ acked \subseteq Ref \X Body /\ edited \subseteq Ref /\ mishaps \in 0..MaxMishaps
  BY DEF Inv, TypeOK
<1>1. ASSUME NEW kind, Mishap(kind) PROVE mishaps' \in 0..MaxMishaps
  BY <1>0, <1>1 DEF Mishap, PublicationAssumption
<1>2. ASSUME NEW p \in Publisher, Trouble(p) PROVE Inv'
  <2>1. /\ store' = store /\ files' = files /\ acked' = acked /\ edited' = edited
        /\ \E kind : Mishap(kind)
        /\ \E a \in Answers : Return(p, a)
    BY <1>2 DEF Trouble, Busy, DiskError, Crash, Answers
  <2> QED
    BY <1>0, <1>1, <2>1, ReturnInv
<1>3. ASSUME NEW r \in Ref, NEW found \in {NoBody, Foreign}, Tamper(r, found)
      PROVE  Inv'
  <2>1. mishaps' \in 0..MaxMishaps
    BY <1>1, <1>3 DEF Tamper
  <2>2. files' \in [Ref -> Body \cup {NoBody, Foreign}]
    BY <1>0, <1>3 DEF Tamper
  <2> QED
    BY <1>3, <2>1, <2>2 DEF Tamper, Inv, TypeOK, HoldsStored
<1> QED
  BY <1>2, <1>3

\* The invariant survives every step of the specification.
LEMMA NextInv == ASSUME PublicationAssumption, Inv, [Next]_vars PROVE Inv'
<1>1. CASE UNCHANGED vars
  BY <1>1 DEF vars, Inv, TypeOK, HoldsStored
<1>2. CASE Next
  BY <1>2, BeginInv, StepInv, TroubleInv DEF Next, Call
<1> QED
  BY <1>1, <1>2

\* The invariant always holds.
LEMMA Invariance == PublicationAssumption => (Spec => []Inv)
<1> SUFFICES ASSUME PublicationAssumption PROVE Spec => []Inv
  OBVIOUS
<1>1. Init => Inv
  BY InitInv
<1>2. Inv /\ [Next]_vars => Inv'
  BY NextInv
<1> QED
  BY <1>1, <1>2, PTL DEF Spec

\* Every variable keeps its type.
THEOREM PublicationTypeCorrect == PublicationAssumption => (Spec => []TypeOK)
BY Invariance, PTL DEF Inv

\* A publisher in write mode that has passed the comparison with the database
\* holds what is stored under its reference, however many others are at work.
THEOREM PublisherHoldsStored == PublicationAssumption => (Spec => []HoldsStored)
BY Invariance, PTL DEF Inv

-----------------------------------------------------------------------------
(* What the steps do to the rows and the files.                            *)

\* Only Insert writes rows, and only where there is none.
LEMMA RowsGrow ==
    ASSUME PublicationAssumption, Inv, [Next]_vars
    PROVE  \A r \in Ref : store[r] # NoBody => store'[r] = store[r]
<1>1. ASSUME NEW p \in Publisher, Insert(p)
      PROVE  \A r \in Ref : store[r] # NoBody => store'[r] = store[r]
  BY <1>1 DEF Insert, Return, Inv, TypeOK
<1>2. CASE ~\E p \in Publisher : Insert(p)
  <2>1. store' = store
    BY <1>2 DEF Next, Call, Begin, Step, Lookup, Confirm, Load, PlanFile, WriteTemp,
       Rename, Verify, Trouble, Busy, DiskError, Crash, Tamper, vars
  <2> QED
    BY <2>1
<1> QED
  BY <1>1, <1>2

\* A stored row never changes, whatever races, crashes, disk errors or
\* tampering happen around it.
THEOREM RowsAreImmutable == PublicationAssumption => (Spec => StoredForEver)
<1> SUFFICES ASSUME PublicationAssumption PROVE Spec => StoredForEver
  OBVIOUS
<1>1. Inv /\ [Next]_vars => [\A r \in Ref : store[r] # NoBody => store'[r] = store[r]]_vars
  BY RowsGrow
<1>2. Spec => []Inv
  BY Invariance
<1> QED
  BY <1>1, <1>2, PTL DEF Spec, StoredForEver

\* The initial states are those of WriteOnceBundles.
LEMMA AbstractInit == Init => Abstract!Init
BY DEF Init, Abstract!Init

\* Every step is one of WriteOnceBundles or leaves its variables alone.
LEMMA AbstractStep ==
    ASSUME PublicationAssumption, Inv, [Next]_vars
    PROVE  [Abstract!Next]_(Abstract!vars)
<1> USE DEF Abstract!vars
<1>0. \A p \in Publisher : pc[p] # "idle" => job[p].ref \in Ref /\ job[p].body \in Body
  BY DEF Inv, TypeOK, Job
<1>1. ASSUME NEW p \in Publisher, Insert(p) PROVE [Abstract!Next]_(Abstract!vars)
  <2>1. CASE store[job[p].ref] = NoBody
    <3>1. Abstract!Commit(job[p].ref, job[p].body)
      BY <1>1, <2>1 DEF Insert, Abstract!Commit
    <3>2. job[p].ref \in Ref /\ job[p].body \in Body
      BY <1>0, <1>1 DEF Insert
    <3> QED
      BY <3>1, <3>2 DEF Abstract!Next
  <2>2. CASE store[job[p].ref] # NoBody
    BY <1>1, <2>2 DEF Insert
  <2> QED
    BY <2>1, <2>2
<1>2. ASSUME NEW p \in Publisher, Rename(p) PROVE [Abstract!Next]_(Abstract!vars)
  <2>1. pc[p] = "rename" /\ ~job[p].dry /\ job[p].ref \in Ref /\ job[p].body \in Body
    BY <1>0, <1>2 DEF Rename, Inv, Writing
  <2>2. store[job[p].ref] = job[p].body /\ job[p].held = job[p].body
    BY <2>1 DEF Inv, HoldsStored
  <2>3. Abstract!Copy(job[p].ref)
    BY <1>2, <2>1, <2>2 DEF Rename, Abstract!Copy, PublicationAssumption
  <2> QED
    BY <2>1, <2>3 DEF Abstract!Next
<1>3. ASSUME NEW p \in Publisher, Verify(p) PROVE [Abstract!Next]_(Abstract!vars)
  <2>1. CASE ~job[p].dry /\ Current(p)
    <3>1. pc[p] = "verify" /\ job[p].ref \in Ref /\ job[p].body \in Body
      BY <1>0, <1>3 DEF Verify
    <3>2. store[job[p].ref] = job[p].body /\ job[p].held = job[p].body
      BY <2>1, <3>1 DEF Inv, HoldsStored
    <3>3. Abstract!Acknowledge(job[p].ref)
      BY <1>3, <2>1, <3>1, <3>2 DEF Verify, Current, Abstract!Acknowledge, PublicationAssumption
    <3> QED
      BY <3>1, <3>3 DEF Abstract!Next
  <2>2. CASE ~(~job[p].dry /\ Current(p))
    BY <1>3, <2>2 DEF Verify
  <2> QED
    BY <2>1, <2>2
<1>4. ASSUME NEW r \in Ref, NEW found \in {NoBody, Foreign}, Tamper(r, found)
      PROVE  [Abstract!Next]_(Abstract!vars)
  BY <1>4 DEF Tamper, Abstract!Edit, Abstract!Next
<1>5. CASE /\ ~\E p \in Publisher : Insert(p) \/ Rename(p) \/ Verify(p)
           /\ ~\E r \in Ref, found \in {NoBody, Foreign} : Tamper(r, found)
  BY <1>5 DEF Next, Call, Begin, Step, Lookup, Confirm, Load, PlanFile, WriteTemp,
     Trouble, Busy, DiskError, Crash, Mishap, vars
<1> QED
  BY <1>1, <1>2, <1>3, <1>4, <1>5

\* The protocol keeps the promise of WriteOnceBundles: no interleaving, crash,
\* lock or disk error shows a reader a partial file, a file without its rows,
\* or an acknowledgement before both.
THEOREM PublicationIsWriteOnce ==
    PublicationAssumption => (Spec => ImplementsWriteOnce)
<1> SUFFICES ASSUME PublicationAssumption PROVE Spec => Abstract!Spec
  BY DEF ImplementsWriteOnce
<1>1. Spec => []Inv
  BY Invariance
<1>2. Inv /\ [Next]_vars => [Abstract!Next]_(Abstract!vars)
  BY AbstractStep
<1> QED
  BY <1>1, <1>2, AbstractInit, PTL DEF Spec, Abstract!Spec

-----------------------------------------------------------------------------
(* The service: every step of its threads is one of the protocol.          *)

Stages == {"free", "waiting", "structuring", "researching", "publishing"}

\* Requests that may still store a row.
Pending == {p \in Publisher :
                \/ stage[p] \in {"waiting", "structuring", "researching"}
                \/ stage[p] = "publishing" /\ pc[p] \in {"lookup", "insert"}}

Dirty == IF wal THEN 1 ELSE 0

\* The main file changes at most once for every row stored and every commit of others.
Counted ==
    /\ IsFiniteSet(Pending)
    /\ main + Dirty + Cardinality(Pending) <= requests + commits

ServiceTypeOK ==
    /\ stage \in [Publisher -> Stages]
    /\ case \in [Publisher -> Case \cup {NoCase}]
    /\ \A p \in Publisher : stage[p] # "free" => case[p] \in Case
    /\ at \in [Publisher -> 0..MaxTime] /\ clock \in 0..MaxTime
    /\ main \in Nat /\ wal \in BOOLEAN
    /\ requests \in 0..MaxRequests /\ commits \in 0..MaxCommits

\* What a thread publishes is its own bundle, and "written" is true while it answers.
Handed(p) ==
    /\ pc[p] # "idle" =>
          stage[p] = "publishing" /\ job[p].ref[1] = case[p] /\ job[p].body = at[p] /\ ~job[p].dry
    /\ stage[p] = "publishing" /\ pc[p] = "idle" /\ answer[p] = "written" =>
          \E r \in Ref : r[1] = case[p] /\ store[r] = at[p] /\ files[r] = at[p]

Copies == \A r \in Ref : files[r] # NoBody => files[r] = store[r]

ServiceInv ==
    /\ Inv /\ ServiceTypeOK /\ Counted /\ Copies
    /\ \A p \in Publisher : Handed(p)

LEMMA ServiceStarts == ASSUME PublicationAssumption, ServiceAssumption, ServiceInit PROVE ServiceInv
<1>1. Inv
  BY InitInv DEF ServiceInit
<1>2. Pending = {}
  BY DEF ServiceInit, Pending
<1>3. Counted
  BY <1>2, FS_EmptySet DEF ServiceInit, Counted, Dirty
<1>4. ServiceTypeOK
  <2>1. /\ 0 \in 0..MaxTime /\ 0 \in 0..MaxRequests /\ 0 \in 0..MaxCommits
        /\ "free" \in Stages
    BY DEF Stages, ServiceAssumption
  <2>2. /\ stage = [p \in Publisher |-> "free"] /\ case = [p \in Publisher |-> NoCase]
        /\ at = [p \in Publisher |-> 0] /\ main = 0 /\ wal = FALSE
        /\ requests = 0 /\ commits = 0 /\ clock = 0
    BY DEF ServiceInit
  <2> QED
    BY <2>1, <2>2 DEF ServiceTypeOK
<1>5. Copies /\ \A p \in Publisher : Handed(p)
  BY DEF ServiceInit, Init, Copies, Handed
<1> QED
  BY <1>1, <1>3, <1>4, <1>5 DEF ServiceInv

\* A step that brings no new request and leaves the database file alone.
LEMMA NoneMore ==
    ASSUME ServiceInv, Pending' \subseteq Pending, UNCHANGED <<main, wal, requests, commits>>
    PROVE  Counted'
<1>1. IsFiniteSet(Pending') /\ Cardinality(Pending') <= Cardinality(Pending)
  BY FS_Subset DEF ServiceInv, Counted
<1>2. Cardinality(Pending') \in Nat /\ Cardinality(Pending) \in Nat
  BY <1>1, FS_CardinalityType DEF ServiceInv, Counted
<1>3. Dirty' = Dirty /\ Dirty \in Nat
  BY DEF Dirty, ServiceInv, ServiceTypeOK
<1> QED
  BY <1>1, <1>2, <1>3 DEF ServiceInv, Counted, ServiceTypeOK

\* A thread moves outside of its publication.
LEMMA ThreadStep ==
    ASSUME ServiceInv, NEW p \in Publisher, UNCHANGED vars, pc[p] = "idle",
           stage'[p] # "publishing",
           \A q \in Publisher \ {p} : stage'[q] = stage[q] /\ case'[q] = case[q] /\ at'[q] = at[q],
           ServiceTypeOK', Counted'
    PROVE  ServiceInv'
<1>1. UNCHANGED <<store, files, pc, job, answer, acked, edited, mishaps>>
  BY DEF vars
<1>2. Inv'
  BY <1>1 DEF ServiceInv, Inv, TypeOK, HoldsStored
<1>3. Copies'
  BY <1>1 DEF ServiceInv, Copies
<1>4. ASSUME NEW q \in Publisher PROVE Handed(q)'
  <2>1. CASE q = p
    BY <1>1, <2>1 DEF Handed
  <2>2. CASE q # p
    BY <1>1, <2>2 DEF ServiceInv, Handed
  <2> QED
    BY <2>1, <2>2
<1> QED
  BY <1>2, <1>3, <1>4 DEF ServiceInv

LEMMA RequestStep ==
    ASSUME ServiceAssumption, ServiceInv, NEW p \in Publisher, NEW c \in Case, Request(p, c)
    PROVE  ServiceInv'
<1>1. /\ stage[p] = "free" /\ requests < MaxRequests /\ requests' = requests + 1
      /\ case' = [case EXCEPT ![p] = c]
      /\ UNCHANGED <<vars, at, main, wal, commits, clock>>
  BY DEF Request
<1>2. PICK next \in {"waiting", "structuring"} : stage' = [stage EXCEPT ![p] = next]
  BY DEF Request, At
<1>3. ServiceTypeOK'
  BY <1>1, <1>2 DEF ServiceInv, ServiceTypeOK, Stages, ServiceAssumption
<1>4. UNCHANGED pc
  BY <1>1 DEF vars
<1>5. Pending' = Pending \cup {p} /\ p \notin Pending
  BY <1>1, <1>2, <1>4 DEF ServiceInv, ServiceTypeOK, Pending
<1>6. IsFiniteSet(Pending') /\ Cardinality(Pending') = Cardinality(Pending) + 1
  BY <1>5, FS_AddElement DEF ServiceInv, Counted
<1>7. Counted'
  <2>1. Cardinality(Pending) \in Nat /\ main \in Nat /\ requests \in Nat /\ commits \in Nat
    BY FS_CardinalityType DEF ServiceInv, ServiceTypeOK, Counted
  <2>2. Dirty' = Dirty /\ Dirty \in Nat
    BY <1>1 DEF Dirty
  <2>3. main + Dirty + Cardinality(Pending) <= requests + commits
    BY DEF ServiceInv, Counted
  <2> QED
    BY <1>1, <1>6, <2>1, <2>2, <2>3 DEF Counted
<1>8. pc[p] = "idle"
  BY <1>1 DEF ServiceInv, Handed
<1> QED
  BY <1>1, <1>2, <1>3, <1>7, <1>8, ThreadStep DEF ServiceInv, ServiceTypeOK

\* Through the gate, from the draft to the research, and out with an answer.
LEMMA ThreadMoves ==
    ASSUME ServiceAssumption, ServiceInv, NEW p \in Publisher,
           \/ Admit(p) \/ Structured(p) \/ Respond(p)
           \/ \E code : StructuringFails(p, code) \/ ResearchFails(p, code)
    PROVE  ServiceInv'
<1>1. UNCHANGED <<vars, main, wal, requests, commits, clock>>
  BY DEF Admit, Structured, Respond, StructuringFails, ResearchFails
<1>2. UNCHANGED pc
  BY <1>1 DEF vars
<1>3. pc[p] = "idle"
  BY DEF Admit, Structured, Respond, StructuringFails, ResearchFails, ServiceInv, Handed
<1>4. CASE Admit(p) \/ Structured(p)
  <2>1. PICK next \in {"structuring", "researching"} :
            stage' = [stage EXCEPT ![p] = next] /\ stage[p] \in {"waiting", "structuring"}
    BY <1>4 DEF Admit, Structured, At
  <2>2. UNCHANGED case /\ (UNCHANGED at \/ at' = [at EXCEPT ![p] = clock])
    BY <1>4 DEF Admit, Structured
  <2>3. ServiceTypeOK'
    BY <1>1, <2>1, <2>2 DEF ServiceInv, ServiceTypeOK, Stages
  <2>4. Pending' \subseteq Pending
    BY <1>2, <2>1 DEF ServiceInv, ServiceTypeOK, Pending
  <2> QED
    BY <1>1, <1>3, <2>1, <2>2, <2>3, <2>4, NoneMore, ThreadStep DEF ServiceInv, ServiceTypeOK
<1>5. CASE \E code : Answer(p, code)
  <2>1. /\ stage' = [stage EXCEPT ![p] = "free"]
        /\ case' = [case EXCEPT ![p] = NoCase] /\ at' = [at EXCEPT ![p] = 0]
    BY <1>5 DEF Answer, At
  <2>2. ServiceTypeOK'
    BY <1>1, <2>1 DEF ServiceInv, ServiceTypeOK, Stages, ServiceAssumption
  <2>3. Pending' \subseteq Pending
    BY <1>2, <2>1 DEF ServiceInv, ServiceTypeOK, Pending
  <2> QED
    BY <1>1, <1>3, <2>1, <2>2, <2>3, NoneMore, ThreadStep DEF ServiceInv, ServiceTypeOK
<1> QED
  BY <1>4, <1>5 DEF Respond, StructuringFails, ResearchFails

\* The fingerprint is one of the instance's: a thread that has yet to publish is pending.
LEMMA HandOver ==
    ASSUME ServiceAssumption, ServiceInv, NEW p \in Publisher, Researched(p)
    PROVE  case[p] \in Case /\ <<case[p], CurrentSnapshot>> \in Ref /\ at[p] \in Body
<1>1. case[p] \in Case /\ at[p] \in Body
  BY DEF Researched, ServiceInv, ServiceTypeOK, ServiceAssumption
<1>2. Cardinality(Pending) \in Nat /\ Dirty \in Nat
  BY FS_CardinalityType DEF ServiceInv, Counted, Dirty
<1>3. main \in 0..(MaxRequests + MaxCommits)
  BY <1>2 DEF ServiceInv, Counted, ServiceTypeOK, ServiceAssumption
<1> QED
  BY <1>1, <1>3 DEF CurrentSnapshot, Snapshot, ServiceAssumption

LEMMA ResearchedStep ==
    ASSUME PublicationAssumption, ServiceAssumption, ServiceInv, NEW p \in Publisher, Researched(p)
    PROVE  ServiceInv'
<1> DEFINE r == <<case[p], CurrentSnapshot>>
<1>1. /\ stage[p] = "researching" /\ Begin(p, r, at[p], FALSE)
      /\ stage' = [stage EXCEPT ![p] = "publishing"]
      /\ UNCHANGED <<case, at, gate, reply, main, wal, worker, requests, commits, clock>>
  BY DEF Researched, At
<1>2. case[p] \in Case /\ r \in Ref /\ at[p] \in Body
  BY HandOver
<1>3. Inv'
  BY <1>1, <1>2, BeginInv DEF ServiceInv
<1> HIDE DEF r
<1>4. /\ pc' = [pc EXCEPT ![p] = "lookup"]
      /\ job' = [job EXCEPT ![p] = [ref |-> r, body |-> at[p], held |-> at[p], dry |-> FALSE]]
      /\ answer' = [answer EXCEPT ![p] = "none"]
      /\ UNCHANGED <<store, files>>
  BY <1>1 DEF Begin
<1>5. r[1] = case[p]
  BY DEF r
<1>6. /\ pc \in [Publisher -> Control] /\ job \in [Publisher -> Job \cup {NoJob}]
      /\ answer \in [Publisher -> Answers] /\ stage \in [Publisher -> Stages]
  BY DEF ServiceInv, Inv, TypeOK, ServiceTypeOK
<1>7. ServiceTypeOK'
  BY <1>1, <1>2 DEF ServiceInv, ServiceTypeOK, Stages
<1>8. Pending' \subseteq Pending
  BY <1>1, <1>4, <1>6 DEF Pending
<1>9. Copies'
  BY <1>4 DEF ServiceInv, Copies
<1>10. ASSUME NEW q \in Publisher PROVE Handed(q)'
  <2>1. CASE q = p
    <3>1. /\ job'[p].ref = r /\ job'[p].body = at[p] /\ ~job'[p].dry
          /\ pc'[p] = "lookup" /\ stage'[p] = "publishing"
      BY <1>1, <1>4, <1>6
    <3> QED
      BY <1>1, <1>5, <2>1, <3>1 DEF Handed
  <2>2. CASE q # p
    <3>1. pc'[q] = pc[q] /\ job'[q] = job[q] /\ answer'[q] = answer[q] /\ stage'[q] = stage[q]
      BY <1>1, <1>4, <1>6, <2>2
    <3> QED
      BY <1>1, <1>4, <3>1 DEF ServiceInv, Handed
  <2> QED
    BY <2>1, <2>2
<1> QED
  BY <1>1, <1>3, <1>7, <1>8, <1>9, <1>10, NoneMore DEF ServiceInv

\* What a step of a publication does besides keeping the protocol's invariant.
LEMMA PublicationFacts ==
    ASSUME PublicationAssumption, ServiceInv, NEW p \in Publisher,
           Step(p) \/ Busy(p) \/ DiskError(p)
    PROVE  /\ Inv'
           /\ pc[p] # "idle"
           /\ \A q \in Publisher \ {p} : pc'[q] = pc[q] /\ job'[q] = job[q] /\ answer'[q] = answer[q]
           /\ pc'[p] # "idle" => job'[p].ref = job[p].ref /\ job'[p].body = job[p].body
                                 /\ job'[p].dry = job[p].dry
           /\ pc'[p] \in {"lookup", "insert"} => pc[p] = "lookup" /\ store[job[p].ref] = NoBody
           /\ store' # store => /\ pc[p] = "insert" /\ pc'[p] = "confirm"
                                /\ store[job[p].ref] = NoBody
                                /\ store' = [store EXCEPT ![job[p].ref] = job[p].body]
           /\ \A r \in Ref : store[r] # NoBody => store'[r] = store[r]
           /\ \A r \in Ref : files[r] # NoBody => files'[r] = files[r]
           /\ Copies'
           /\ pc'[p] = "idle" /\ answer'[p] = "written" =>
                 files'[job[p].ref] = job[p].body /\ store'[job[p].ref] = job[p].body
<1>1. Inv' /\ \A r \in Ref : store[r] # NoBody => store'[r] = store[r]
  <2>1. Next
    BY DEF Next, Trouble
  <2> QED
    BY <2>1, NextInv, RowsGrow DEF ServiceInv
<1>2. /\ pc \in [Publisher -> Control] /\ job \in [Publisher -> Job \cup {NoJob}]
      /\ answer \in [Publisher -> Answers] /\ files \in [Ref -> Body \cup {NoBody, Foreign}]
      /\ store \in [Ref -> Body \cup {NoBody}]
      /\ Copies /\ HoldsStored
  BY DEF ServiceInv, Inv, TypeOK
<1>3. pc[p] # "idle"
  BY DEF Step, Lookup, Insert, Confirm, Load, PlanFile, WriteTemp, Rename, Verify, Busy, DiskError
<1>4. job[p] \in Job /\ ~job[p].dry
  BY <1>3 DEF ServiceInv, Inv, TypeOK, Handed
<1>5. CASE \E a \in Answers \ {"written"} : Return(p, a) /\ UNCHANGED <<store, files>>
  BY <1>1, <1>2, <1>3, <1>5 DEF Return, Copies
<1>6. CASE \E point \in Control \ {"lookup", "insert", "idle"} : Goto(p, point) /\ UNCHANGED <<store, files>>
  BY <1>1, <1>2, <1>3, <1>6 DEF Goto, Copies
<1>7. CASE Lookup(p) /\ Goto(p, "insert")
  BY <1>1, <1>2, <1>3, <1>4, <1>7 DEF Lookup, Goto, Copies, Return, SameRow
<1>8. CASE Insert(p) /\ store[job[p].ref] = NoBody
  <2>1. /\ pc[p] = "insert" /\ store' = [store EXCEPT ![job[p].ref] = job[p].body]
        /\ Goto(p, "confirm") /\ UNCHANGED files
    BY <1>8 DEF Insert
  <2>2. Copies'
    BY <1>1, <1>2, <2>1, <1>8 DEF Copies
  <2> QED
    BY <1>1, <1>2, <1>3, <2>1, <2>2, <1>8 DEF Goto
<1>9. CASE Load(p) /\ store[job[p].ref] # NoBody
  BY <1>1, <1>2, <1>3, <1>4, <1>9 DEF Load, Copies, Job
<1>10. CASE Rename(p)
  <2>1. store[job[p].ref] = job[p].held
    BY <1>2, <1>4, <1>10 DEF HoldsStored, Rename
  <2>2. files' = [files EXCEPT ![job[p].ref] = job[p].held] /\ Goto(p, "verify") /\ UNCHANGED store
    BY <1>10 DEF Rename
  <2>3. job[p].ref \in Ref
    BY <1>4 DEF Job
  <2>4. Copies' /\ \A r \in Ref : files[r] # NoBody => files'[r] = files[r]
    BY <1>2, <2>1, <2>2, <2>3 DEF Copies
  <2> QED
    BY <1>1, <1>2, <1>3, <2>2, <2>4 DEF Goto
<1>11. CASE Verify(p) /\ Current(p)
  <2>1. store[job[p].ref] = job[p].body /\ files[job[p].ref] = job[p].body
    BY <1>2, <1>4, <1>11 DEF HoldsStored, Verify, Current
  <2>2. Return(p, "written") /\ UNCHANGED <<store, files>>
    BY <1>4, <1>11 DEF Verify
  <2> QED
    BY <1>1, <1>2, <1>3, <2>1, <2>2 DEF Return, Copies
<1>12. CASE Lookup(p) \/ Confirm(p) \/ PlanFile(p) \/ WriteTemp(p)
  BY <1>4, <1>5, <1>6, <1>7, <1>12
     DEF Lookup, Confirm, PlanFile, WriteTemp, Answers, Control, Goto
<1>13. CASE Insert(p) \/ Load(p) \/ Verify(p) \/ Busy(p) \/ DiskError(p)
  BY <1>4, <1>5, <1>8, <1>9, <1>11, <1>13 DEF Insert, Load, Verify, Busy, DiskError, Answers
<1> QED
  BY <1>10, <1>12, <1>13 DEF Step

\* A step of a publication, and its connection with it.
LEMMA PublicationStep ==
    ASSUME PublicationAssumption, ServiceAssumption, ServiceInv, NEW p \in Publisher, Publication(p)
    PROVE  ServiceInv'
<1>1. /\ stage[p] = "publishing"
      /\ Step(p) \/ Busy(p) \/ DiskError(p)
      /\ UNCHANGED <<stage, case, at, gate, reply, worker, requests, commits, clock>>
  BY DEF Publication
<1>2. /\ Inv' /\ Copies' /\ pc[p] # "idle"
      /\ \A q \in Publisher \ {p} : pc'[q] = pc[q] /\ job'[q] = job[q] /\ answer'[q] = answer[q]
      /\ pc'[p] # "idle" => job'[p].ref = job[p].ref /\ job'[p].body = job[p].body
                            /\ job'[p].dry = job[p].dry
      /\ \A r \in Ref : store[r] # NoBody => store'[r] = store[r]
      /\ \A r \in Ref : files[r] # NoBody => files'[r] = files[r]
  BY <1>1, PublicationFacts
<1>3. /\ pc'[p] \in {"lookup", "insert"} => pc[p] = "lookup"
      /\ store' # store => pc[p] = "insert" /\ pc'[p] = "confirm"
      /\ pc'[p] = "idle" /\ answer'[p] = "written" =>
            files'[job[p].ref] = job[p].body /\ store'[job[p].ref] = job[p].body
  BY <1>1, PublicationFacts
<1>4. job[p] \in Job /\ job[p].ref[1] = case[p] /\ job[p].body = at[p] /\ ~job[p].dry
  BY <1>2 DEF ServiceInv, Inv, TypeOK, Handed
<1>5. /\ main \in Nat /\ wal \in BOOLEAN /\ requests \in Nat /\ commits \in Nat
      /\ IsFiniteSet(Pending) /\ Cardinality(Pending) \in Nat
      /\ main + Dirty + Cardinality(Pending) <= requests + commits
  BY FS_CardinalityType DEF ServiceInv, ServiceTypeOK, Counted
<1>6. \/ main' = main + 1 /\ wal' = FALSE /\ (wal = TRUE \/ store' # store)
      \/ main' = main /\ wal' \in BOOLEAN /\ (wal' = FALSE <=> wal = FALSE /\ store' = store)
  BY <1>5 DEF Publication, Settle
<1>7. ServiceTypeOK'
  <2>0. main \in Nat /\ (main' = main \/ main' = main + 1) /\ wal' \in BOOLEAN
    BY <1>5, <1>6, Zenon
  <2>1. main' \in Nat /\ wal' \in BOOLEAN
    <3>1. main' \in Nat
      BY <2>0
    <3> QED
      BY <2>0, <3>1
  <2> QED
    BY <1>1, <2>1 DEF ServiceInv, ServiceTypeOK
<1>8. Pending' \subseteq Pending
  BY <1>1, <1>2, <1>3 DEF Pending
<1>9. Counted'
  <2>1. IsFiniteSet(Pending') /\ Cardinality(Pending') \in Nat /\ Cardinality(Pending') <= Cardinality(Pending)
    BY <1>5, <1>8, FS_Subset, FS_CardinalityType
  <2>2. CASE store' = store
    <3>1. main' + Dirty' = main + Dirty /\ main' + Dirty' \in Nat
      BY <1>5, <1>6, <2>2 DEF Dirty
    <3> QED
      BY <1>1, <1>5, <2>1, <3>1 DEF Counted
  <2>3. CASE store' # store
    <3>0. main' + Dirty' <= main + Dirty + 1 /\ main' + Dirty' \in Nat /\ main + Dirty \in Nat
      BY <1>5, <1>6, <2>3 DEF Dirty
    <3>1. p \in Pending /\ Pending' \subseteq Pending \ {p}
      <4>1. pc[p] = "insert" /\ pc'[p] = "confirm" /\ stage[p] = "publishing"
        BY <1>1, <1>3, <2>3
      <4>2. p \in Pending
        BY <4>1 DEF Pending
      <4>3. p \notin Pending'
        BY <1>1, <4>1 DEF Pending
      <4> QED
        BY <1>8, <4>2, <4>3
    <3>2. /\ IsFiniteSet(Pending \ {p}) /\ Cardinality(Pending \ {p}) = Cardinality(Pending) - 1
      BY <1>5, <3>1, FS_RemoveElement
    <3>3. Cardinality(Pending') <= Cardinality(Pending) - 1
      BY <3>1, <3>2, FS_Subset
    <3> QED
      BY <1>1, <1>5, <2>1, <3>0, <3>3 DEF Counted
  <2> QED
    BY <2>2, <2>3
<1>10. ASSUME NEW q \in Publisher PROVE Handed(q)'
  <2>1. CASE q = p
    <3>1. pc'[p] = "idle" /\ answer'[p] = "written" =>
             job[p].ref \in Ref /\ files'[job[p].ref] = at'[p] /\ store'[job[p].ref] = at'[p]
             /\ job[p].ref[1] = case'[p]
      BY <1>1, <1>3, <1>4 DEF Job
    <3>2. stage'[p] = "publishing" /\ case'[p] = case[p] /\ at'[p] = at[p]
      BY <1>1
    <3>3. ASSUME pc'[p] # "idle"
          PROVE  job'[p].ref[1] = case'[p] /\ job'[p].body = at'[p] /\ ~job'[p].dry
      BY <1>2, <1>4, <3>2, <3>3
    <3> QED
      BY <2>1, <3>1, <3>2, <3>3 DEF Handed
  <2>2. CASE q # p
    <3>1. /\ pc'[q] = pc[q] /\ job'[q] = job[q] /\ answer'[q] = answer[q]
          /\ stage'[q] = stage[q] /\ at'[q] = at[q] /\ case'[q] = case[q]
      BY <1>1, <1>2, <2>2
    <3>2. at[q] \in Body /\ Handed(q)
      BY DEF ServiceInv, ServiceTypeOK, ServiceAssumption
    <3>3. at[q] # NoBody
      BY <3>2 DEF PublicationAssumption
    <3> QED
      BY <1>2, <3>1, <3>2, <3>3 DEF Handed
  <2> QED
    BY <2>1, <2>2
<1> QED
  BY <1>2, <1>7, <1>9, <1>10 DEF ServiceInv

\* Other programs and the clock.
LEMMA OtherStep ==
    ASSUME ServiceAssumption, ServiceInv, WorkerOpen \/ WorkerCommit \/ WorkerClose \/ Tick
    PROVE  ServiceInv'
<1>1. UNCHANGED <<vars, stage, case, at, gate, reply, requests>>
  BY DEF WorkerOpen, WorkerCommit, WorkerClose, Tick
<1>2. UNCHANGED <<store, files, pc, job, answer, acked, edited, mishaps>>
  BY <1>1 DEF vars
<1>3. Inv' /\ Copies' /\ \A q \in Publisher : Handed(q)'
  BY <1>1, <1>2 DEF ServiceInv, Inv, TypeOK, HoldsStored, Copies, Handed
<1>4. Pending' = Pending
  BY <1>1, <1>2 DEF Pending
<1>5. /\ main \in Nat /\ wal \in BOOLEAN /\ requests \in Nat /\ commits \in 0..MaxCommits
      /\ clock \in 0..MaxTime /\ IsFiniteSet(Pending) /\ Cardinality(Pending) \in Nat
      /\ main + Dirty + Cardinality(Pending) <= requests + commits
  BY FS_CardinalityType DEF ServiceInv, ServiceTypeOK, Counted
<1>6. /\ commits' \in 0..MaxCommits /\ clock' \in 0..MaxTime
      /\ \/ main' = main /\ wal' = wal /\ commits' = commits
         \/ main' = main /\ wal' = TRUE /\ commits' = commits + 1
         \/ main' = main + 1 /\ wal' = FALSE /\ wal = TRUE /\ commits' = commits
  BY <1>5 DEF WorkerOpen, WorkerCommit, WorkerClose, Tick, Settle, ServiceAssumption
<1>7. ServiceTypeOK'
  <2>0. main \in Nat /\ (main' = main \/ main' = main + 1) /\ wal' \in BOOLEAN
    BY <1>5, <1>6, Zenon
  <2>1. main' \in Nat /\ wal' \in BOOLEAN
    <3>1. main' \in Nat
      BY <2>0
    <3> QED
      BY <2>0, <3>1
  <2>2. UNCHANGED <<stage, case, at, requests>>
    BY <1>1
  <2>3. /\ commits' \in 0..MaxCommits /\ clock' \in 0..MaxTime
    BY <1>6
  <2> QED
    BY <2>1, <2>2, <2>3 DEF ServiceInv, ServiceTypeOK
<1>8. Counted'
  <2>1. /\ main + Dirty \in Nat /\ main' + Dirty' \in Nat
        /\ main' + Dirty' + commits <= main + Dirty + commits'
    BY <1>5, <1>6 DEF Dirty
  <2> QED
    BY <1>1, <1>4, <1>5, <1>6, <2>1 DEF Counted
<1> QED
  BY <1>3, <1>7, <1>8 DEF ServiceInv

LEMMA ServiceStep ==
    ASSUME PublicationAssumption, ServiceAssumption, ServiceInv, [ServiceNext]_everything
    PROVE  ServiceInv'
<1>1. CASE UNCHANGED everything
  <2>1. UNCHANGED <<store, files, pc, job, answer, acked, edited, mishaps>>
        /\ UNCHANGED <<stage, case, at, gate, reply, main, wal, worker, requests, commits, clock>>
    BY <1>1 DEF everything, vars, service
  <2>2. Inv' /\ Copies' /\ ServiceTypeOK' /\ \A q \in Publisher : Handed(q)'
    BY <2>1 DEF ServiceInv, Inv, TypeOK, HoldsStored, Copies, ServiceTypeOK, Handed
  <2>3. Pending' \subseteq Pending
    BY <2>1 DEF Pending
  <2> QED
    BY <2>1, <2>2, <2>3, NoneMore DEF ServiceInv
<1>2. ASSUME NEW p \in Publisher, Handling(p) PROVE ServiceInv'
  BY <1>2, ThreadMoves, ResearchedStep, PublicationStep DEF Handling
<1>3. ASSUME NEW p \in Publisher, NEW c \in Case, Request(p, c) PROVE ServiceInv'
  BY <1>3, RequestStep
<1> QED
  BY <1>1, <1>2, <1>3, OtherStep DEF ServiceNext

LEMMA ServiceInvariance ==
    ASSUME PublicationAssumption, ServiceAssumption PROVE ServiceSpec => []ServiceInv
<1>1. ServiceInit => ServiceInv
  BY ServiceStarts
<1>2. ServiceInv /\ [ServiceNext]_everything => ServiceInv'
  BY ServiceStep
<1> QED
  BY <1>1, <1>2, PTL DEF ServiceSpec

\* Whatever the service does, its publications follow the protocol.
LEMMA ServiceFollows ==
    ASSUME PublicationAssumption, ServiceAssumption PROVE ServiceSpec => Spec
<1>1. ServiceInit => Init
  BY DEF ServiceInit
<1>2. ASSUME ServiceInv, [ServiceNext]_everything PROVE [Next]_vars
  <2>1. ASSUME NEW p \in Publisher, Researched(p) PROVE Next
    <3>1. Begin(p, <<case[p], CurrentSnapshot>>, at[p], FALSE)
      BY <2>1 DEF Researched
    <3>2. <<case[p], CurrentSnapshot>> \in Ref /\ at[p] \in Body
      BY <1>2, <2>1, HandOver
    <3> QED
      BY <3>1, <3>2 DEF Next, Call
  <2>2. ASSUME NEW p \in Publisher, Publication(p) PROVE Next
    BY <2>2 DEF Publication, Next, Trouble
  <2>3. CASE ~\E p \in Publisher : Researched(p) \/ Publication(p)
    BY <1>2, <2>3 DEF ServiceNext, Handling, Request, Admit, Structured, Respond, StructuringFails,
       ResearchFails, WorkerOpen, WorkerCommit, WorkerClose, Tick, everything
  <2> QED
    BY <2>1, <2>2, <2>3
<1> QED
  BY <1>1, <1>2, ServiceInvariance, PTL DEF ServiceSpec, Spec

\* Several layers up, the promise still holds: threads, gate, answers and other programs
\* on the database add nothing that WriteOnceBundles does not allow.
THEOREM ServiceIsWriteOnce ==
    ASSUME PublicationAssumption, ServiceAssumption PROVE ServiceSpec => ImplementsWriteOnce
BY ServiceFollows, PublicationIsWriteOnce

\* A client is told "ok" only for a bundle whose rows and whose file are there with the
\* contents its own request produced, however many threads and processes publish.
THEOREM OkMeansPublished ==
    ASSUME PublicationAssumption, ServiceAssumption PROVE ServiceSpec => OkIsPublished
<1>1. ServiceInv /\ [ServiceNext]_everything =>
         [\A p \in Publisher :
            reply[p] # "ok" /\ reply'[p] = "ok" =>
               \E r \in Ref : /\ r[1] = case[p] /\ store[r] = at[p] /\ files[r] = at[p]]_everything
  <2> SUFFICES ASSUME ServiceInv, ServiceNext, NEW p \in Publisher, reply[p] # "ok", reply'[p] = "ok"
               PROVE  \E r \in Ref : r[1] = case[p] /\ store[r] = at[p] /\ files[r] = at[p]
    OBVIOUS
  <2>1. ASSUME NEW q \in Publisher, NEW code, Answer(q, code) PROVE q = p /\ code = "ok"
    BY <2>1 DEF Answer, ServiceInv, ServiceTypeOK
  <2>2. Respond(p)
    <3>1. reply' # reply
      OBVIOUS
    <3>2. PICK q \in Publisher : Handling(q) \/ \E c \in Case : Request(q, c)
      BY <3>1 DEF ServiceNext, WorkerOpen, WorkerCommit, WorkerClose, Tick
    <3>3. ASSUME NEW c \in Case, Request(q, c) PROVE FALSE
      BY <3>3 DEF Request
    <3>4. Respond(q) \/ \E code \in {"integrity", "unavailable", "timeout", "internal"} : Answer(q, code)
      BY <3>1, <3>2, <3>3
         DEF Handling, Admit, Structured, Researched, Publication, StructuringFails, ResearchFails
    <3> QED
      BY <2>1, <3>4 DEF Respond
  <2>3. stage[p] = "publishing" /\ pc[p] = "idle" /\ answer[p] = "written"
    BY <2>1, <2>2 DEF Respond, Code
  <2> QED
    BY <2>3 DEF ServiceInv, Handed
<1>2. ServiceSpec => []ServiceInv
  BY ServiceInvariance
<1> QED
  BY <1>1, <1>2, PTL DEF ServiceSpec, OkIsPublished

-----------------------------------------------------------------------------
(* One server: the gate and the fingerprint keep its own runs apart.       *)

\* The gate lets one request through at a time.
OneInside ==
    /\ \A p \in Publisher : p \in gate <=> stage[p] \in {"structuring", "researching", "publishing"}
    /\ \A p, q \in Publisher : p \in gate /\ q \in gate => p = q

\* A row stored under a fingerprint has changed the file since, or is still in the WAL.
Outdated ==
    \A r \in Ref :
        store[r] # NoBody /\ r[2] # NoSnapshot => r[2] < main \/ (r[2] = main /\ wal)

\* The fingerprint a thread took is not used yet.
Fresh(p) ==
    pc[p] \in {"lookup", "insert"} /\ job[p].ref[2] # NoSnapshot =>
        store[job[p].ref] = NoBody /\ job[p].ref[2] <= main

GateInv == OneInside /\ Outdated /\ \A p \in Publisher : Fresh(p)

LEMMA OneInsideStep ==
    ASSUME Served = Publisher, ServiceInv, OneInside, [ServiceNext]_everything
    PROVE  OneInside'
<1>0. stage \in [Publisher -> Stages]
  BY DEF ServiceInv, ServiceTypeOK
<1>1. CASE UNCHANGED <<stage, gate>>
  BY <1>1 DEF OneInside
<1>2. ASSUME NEW p \in Publisher, NEW c \in Case, Request(p, c) PROVE OneInside'
  BY <1>0, <1>2 DEF Request, At, OneInside
<1>3. ASSUME NEW p \in Publisher, Admit(p) PROVE OneInside'
  <2>1. stage' = [stage EXCEPT ![p] = "structuring"] /\ gate = {} /\ gate' = {p}
    BY <1>3 DEF Admit, At
  <2> QED
    BY <1>0, <2>1 DEF OneInside
<1>4. ASSUME NEW p \in Publisher, Structured(p) \/ Researched(p) PROVE OneInside'
  <2>1. /\ UNCHANGED gate /\ stage[p] \in {"structuring", "researching"}
        /\ \E next \in {"researching", "publishing"} : stage' = [stage EXCEPT ![p] = next]
    BY <1>4 DEF Structured, Researched, At
  <2> QED
    BY <1>0, <2>1 DEF OneInside
<1>5. ASSUME NEW p \in Publisher, NEW code, Answer(p, code) PROVE OneInside'
  <2>1. stage' = [stage EXCEPT ![p] = "free"] /\ gate' = gate \ {p}
    BY <1>5 DEF Answer, At
  <2> QED
    BY <1>0, <2>1 DEF OneInside
<1>6. ASSUME NEW p \in Publisher, Handling(p) PROVE OneInside'
  <2>1. Publication(p) => UNCHANGED <<stage, gate>>
    BY DEF Publication
  <2>2. Respond(p) => Answer(p, Code(answer[p]))
    BY DEF Respond
  <2>3. \A code : StructuringFails(p, code) \/ ResearchFails(p, code) => Answer(p, code)
    BY DEF StructuringFails, ResearchFails
  <2> QED
    BY <1>1, <1>3, <1>4, <1>5, <1>6, <2>1, <2>2, <2>3 DEF Handling
<1>7. CASE WorkerOpen \/ WorkerCommit \/ WorkerClose \/ Tick \/ UNCHANGED everything
  BY <1>1, <1>7 DEF WorkerOpen, WorkerCommit, WorkerClose, Tick, everything, service
<1> QED
  BY <1>2, <1>6, <1>7 DEF ServiceNext

\* A fingerprint is a version of the file.
LEMMA Versions ==
    ASSUME ServiceAssumption, NEW r \in Ref PROVE r[2] # NoSnapshot => r[2] \in Nat
<1>1. r[2] \in Snapshot
  BY DEF ServiceAssumption
<1> QED
  BY <1>1 DEF Snapshot, ServiceAssumption

\* No row comes in, no fingerprint is taken.
LEMMA FileStep ==
    ASSUME ServiceAssumption, ServiceInv, Outdated, \A p \in Publisher : Fresh(p),
           UNCHANGED <<store, pc, job>>,
           \/ main' = main + 1
           \/ main' = main /\ (wal => wal')
    PROVE  Outdated' /\ \A p \in Publisher : Fresh(p)'
<1>1. main \in Nat
  BY DEF ServiceInv, ServiceTypeOK
<1>2. Outdated'
  <2> SUFFICES ASSUME NEW r \in Ref, store[r] # NoBody, r[2] # NoSnapshot
               PROVE  r[2] < main' \/ (r[2] = main' /\ wal')
    BY DEF Outdated
  <2>1. r[2] \in Nat /\ (r[2] < main \/ (r[2] = main /\ wal))
    BY Versions DEF Outdated
  <2>2. CASE main' = main + 1
    BY <1>1, <2>1, <2>2
  <2>3. CASE main' = main /\ (wal => wal')
    BY <2>1, <2>3
  <2> QED
    BY <2>2, <2>3
<1>3. ASSUME NEW p \in Publisher, pc[p] \in {"lookup", "insert"}, job[p].ref[2] # NoSnapshot
      PROVE  store[job[p].ref] = NoBody /\ job[p].ref[2] <= main'
  <2>1. job[p].ref \in Ref
    BY <1>3 DEF ServiceInv, Inv, TypeOK, Job
  <2>2. job[p].ref[2] \in Nat
    BY <1>3, <2>1, Versions
  <2> QED
    BY <1>1, <1>3, <2>2 DEF Fresh
<1> QED
  BY <1>2, <1>3 DEF Fresh

LEMMA ResearchedFresh ==
    ASSUME ServiceAssumption, ServiceInv, Outdated, \A p \in Publisher : Fresh(p),
           NEW p \in Publisher, Researched(p)
    PROVE  Outdated' /\ \A q \in Publisher : Fresh(q)'
<1> DEFINE r == <<case[p], CurrentSnapshot>>
<1>1. /\ UNCHANGED <<main, wal, store>>
      /\ pc' = [pc EXCEPT ![p] = "lookup"]
      /\ job' = [job EXCEPT ![p] = [ref |-> r, body |-> at[p], held |-> at[p], dry |-> FALSE]]
  BY DEF Researched, Begin
<1>2. r \in Ref
  BY HandOver
<1>3. r[2] # NoSnapshot => store[r] = NoBody /\ r[2] <= main
  <2>1. main \in Nat
    BY DEF ServiceInv, ServiceTypeOK
  <2>2. r[2] # NoSnapshot => r[2] = main /\ ~wal
    BY DEF CurrentSnapshot
  <2> HIDE DEF r
  <2> QED
    BY <1>2, <2>1, <2>2 DEF Outdated
<1> HIDE DEF r
<1>4. pc \in [Publisher -> Control] /\ job \in [Publisher -> Job \cup {NoJob}]
  BY DEF ServiceInv, Inv, TypeOK
<1>5. job'[p].ref = r /\ \A q \in Publisher \ {p} : pc'[q] = pc[q] /\ job'[q] = job[q]
  BY <1>1, <1>4
<1>6. Outdated'
  BY <1>1 DEF Outdated
<1> QED
  BY <1>1, <1>3, <1>5, <1>6 DEF Fresh

\* Behind the gate a publication is alone; its row is in the WAL or in a newer file.
LEMMA PublicationFresh ==
    ASSUME PublicationAssumption, ServiceAssumption, ServiceInv, GateInv,
           NEW p \in Publisher, Publication(p)
    PROVE  Outdated' /\ \A q \in Publisher : Fresh(q)'
<1>1. /\ stage[p] = "publishing"
      /\ Step(p) \/ Busy(p) \/ DiskError(p)
  BY DEF Publication
<1>2. /\ pc[p] # "idle"
      /\ \A q \in Publisher \ {p} : pc'[q] = pc[q] /\ job'[q] = job[q]
      /\ pc'[p] # "idle" => job'[p].ref = job[p].ref
      /\ pc'[p] \in {"lookup", "insert"} => pc[p] = "lookup" /\ store[job[p].ref] = NoBody
      /\ store' # store => /\ pc[p] = "insert" /\ pc'[p] = "confirm"
                           /\ store' = [store EXCEPT ![job[p].ref] = job[p].body]
  BY <1>1, PublicationFacts
<1>3. \/ main' = main + 1
      \/ main' = main /\ (wal' = FALSE => wal = FALSE /\ store' = store)
  BY DEF Publication, Settle, ServiceInv, ServiceTypeOK
<1>4. ASSUME NEW q \in Publisher, q # p PROVE pc[q] = "idle"
  <2>1. stage[q] # "publishing"
    BY <1>1, <1>4 DEF GateInv, OneInside
  <2> QED
    BY <2>1 DEF ServiceInv, Handed
<1>5. main \in Nat /\ wal \in BOOLEAN /\ store \in [Ref -> Body \cup {NoBody}] /\ job[p].ref \in Ref
  BY <1>2 DEF ServiceInv, ServiceTypeOK, Inv, TypeOK, Job
<1>6. Outdated'
  <2> SUFFICES ASSUME NEW r \in Ref, store'[r] # NoBody, r[2] # NoSnapshot
               PROVE  r[2] < main' \/ (r[2] = main' /\ wal')
    BY DEF Outdated
  <2>1. r[2] \in Nat
    BY Versions
  <2>2. CASE store[r] # NoBody
    <3>1. r[2] < main \/ (r[2] = main /\ wal)
      BY <2>2 DEF GateInv, Outdated
    <3> QED
      BY <1>3, <1>5, <2>1, <3>1
  <2>3. CASE store[r] = NoBody
    <3>1. pc[p] = "insert" /\ r = job[p].ref /\ store' # store
      BY <1>2, <1>5, <2>3
    <3>2. r[2] <= main
      BY <3>1 DEF GateInv, Fresh
    <3> QED
      BY <1>3, <1>5, <2>1, <3>1, <3>2
  <2> QED
    BY <2>2, <2>3
<1>7. Fresh(p)'
  <2> SUFFICES ASSUME pc'[p] \in {"lookup", "insert"}, job'[p].ref[2] # NoSnapshot
               PROVE  store'[job'[p].ref] = NoBody /\ job'[p].ref[2] <= main'
    BY DEF Fresh
  <2>1. job'[p].ref = job[p].ref /\ pc[p] = "lookup" /\ store[job[p].ref] = NoBody /\ store' = store
    BY <1>2
  <2>2. job[p].ref[2] <= main /\ job[p].ref[2] \in Nat
    BY <1>5, <2>1, Versions DEF GateInv, Fresh
  <2> QED
    BY <1>3, <1>5, <2>1, <2>2
<1>8. ASSUME NEW q \in Publisher, q # p PROVE Fresh(q)'
  BY <1>2, <1>4, <1>8 DEF Fresh
<1> QED
  BY <1>6, <1>7, <1>8

LEMMA GateStep ==
    ASSUME PublicationAssumption, ServiceAssumption, Served = Publisher, ServiceInv, GateInv,
           [ServiceNext]_everything
    PROVE  GateInv'
<1>1. OneInside'
  BY OneInsideStep DEF GateInv
<1>2. CASE UNCHANGED <<vars, main, wal>>
  <2>1. UNCHANGED <<store, pc, job, main, wal>>
    BY <1>2 DEF vars
  <2> QED
    BY <1>1, <2>1, FileStep DEF GateInv
<1>3. CASE WorkerCommit \/ WorkerClose
  <2>1. UNCHANGED <<store, pc, job>>
    BY <1>3 DEF WorkerCommit, WorkerClose, vars
  <2>2. main' = main + 1 \/ (main' = main /\ (wal => wal'))
    BY <1>3 DEF WorkerCommit, WorkerClose, Settle
  <2> QED
    BY <1>1, <2>1, <2>2, FileStep DEF GateInv
<1>4. ASSUME NEW p \in Publisher, Researched(p) \/ Publication(p) PROVE GateInv'
  BY <1>1, <1>4, ResearchedFresh, PublicationFresh DEF GateInv
<1>5. CASE /\ ~\E p \in Publisher : Researched(p) \/ Publication(p)
           /\ ~(WorkerCommit \/ WorkerClose)
  <2>1. UNCHANGED <<vars, main, wal>>
    BY <1>5 DEF ServiceNext, Handling, Request, Admit, Structured, Respond, StructuringFails,
       ResearchFails, WorkerOpen, Tick, everything, service
  <2> QED
    BY <1>2, <2>1
<1> QED
  BY <1>3, <1>4, <1>5

\* When every analysis comes through the one server, two of its runs meet on a reference
\* with different contents only if the fingerprint was unavailable, because some other
\* program kept the WAL alive.
THEOREM ConflictsNeedWal ==
    ASSUME PublicationAssumption, ServiceAssumption, Served = Publisher
    PROVE  ServiceSpec => []ConflictNeedsLiveWal
<1>1. ServiceInit => GateInv
  BY DEF ServiceInit, Init, GateInv, OneInside, Outdated, Fresh
<1>2. ServiceInv /\ GateInv /\ [ServiceNext]_everything => GateInv'
  BY GateStep
<1>3. ServiceInv /\ GateInv => ConflictNeedsLiveWal
  BY DEF GateInv, Fresh, ConflictNeedsLiveWal, Conflict
<1>4. ServiceSpec => []ServiceInv
  BY ServiceInvariance
<1> QED
  BY <1>1, <1>2, <1>3, <1>4, PTL DEF ServiceSpec
=============================================================================
