---------------------------- MODULE DatabaseProofs ----------------------------
(*****************************************************************************)
(* What is proved about the state database: its schema, for every chain of   *)
(* scripts and any number of programs starting together; the dates of a      *)
(* document, for any pages, extractions and relationships, and whatever      *)
(* version 2 had dated; and the corpus, for any pages, references, earlier   *)
(* bindings and number of interleaved runs of its tools.                     *)
(*****************************************************************************)
EXTENDS Migrations, Temporality, Corpus, FiniteSetTheorems, TLAPS

-----------------------------------------------------------------------------
(* The chain of migrations.                                                *)

Recorded(m) == recorded[m] # Unrecorded

\* What a running program has already seen or done.
Progress(p) ==
    /\ pc[p] \in {"check", "script", "record"} => \A k \in 1..(at[p] - 1) : Recorded(k)
    /\ pc[p] = "script" => \A i \in 1..(line[p] - 1) : <<at[p], i>> \in schema
    /\ pc[p] = "record" => Installed(at[p])

\* The inductive invariant.
ChainInv == TypeOK /\ PrefixOfChain /\ ReadyIsComplete /\ \A p \in Process : Progress(p)

\* The chain is a finite sequence of non-empty scripts.
LEMMA Chain ==
    ASSUME MigrationAssumption
    PROVE  /\ Len(Script) \in Nat /\ Migration = 1..Len(Script)
           /\ \A m \in Migration : Len(Script[m]) \in Nat \ {0}
<1>1. Script \in Seq(Seq({"create", "alter"}))
  BY DEF MigrationAssumption
<1>2. Len(Script) \in Nat /\ Migration = 1..Len(Script)
  BY <1>1 DEF Migration
<1>3. ASSUME NEW m \in Migration PROVE Len(Script[m]) \in Nat \ {0}
  BY <1>1, <1>2 DEF MigrationAssumption
<1> QED
  BY <1>2, <1>3

\* Nothing is recorded, nobody runs.
LEMMA ChainInit == ASSUME MigrationAssumption PROVE Init => ChainInv
<1> SUFFICES ASSUME Init PROVE ChainInv
  OBVIOUS
<1>1. Len(Script) \in Nat /\ Migration = 1..Len(Script)
  BY Chain
<1>2. TypeOK
  BY <1>1 DEF MigrationAssumption, Init, TypeOK
<1>3. PrefixOfChain /\ ReadyIsComplete /\ \A p \in Process : Progress(p)
  BY DEF Init, PrefixOfChain, ReadyIsComplete, Progress
<1> QED
  BY <1>2, <1>3 DEF ChainInv

\* A step that records nothing new and installs nothing new keeps the database
\* as it was; what remains is the program that moved.
LEMMA MarkStep ==
    ASSUME MigrationAssumption, ChainInv, TypeOK', UNCHANGED <<recorded, schema>>,
           NEW p \in Process,
           \A q \in Process \ {p} : pc'[q] = pc[q] /\ at'[q] = at[q] /\ line'[q] = line[q],
           Progress(p)', pc'[p] = "ready" => \A m \in Migration : Recorded(m)
    PROVE  ChainInv'
<1>1. PrefixOfChain'
  BY DEF ChainInv, PrefixOfChain, Installed
<1>2. ReadyIsComplete'
  BY DEF ChainInv, ReadyIsComplete, Recorded
<1>3. ASSUME NEW q \in Process PROVE Progress(q)'
  <2>1. CASE q = p
    BY <2>1
  <2>2. CASE q # p
    BY <2>2 DEF ChainInv, Progress, Recorded, Installed
  <2> QED
    BY <2>1, <2>2
<1> QED
  BY <1>1, <1>2, <1>3 DEF ChainInv

\* Starting, skipping, refusing, choosing a migration, getting ready, failing
\* and being interrupted.
LEMMA ControlInv ==
    ASSUME MigrationAssumption, ChainInv, NEW p \in Process,
           Start(p) \/ Skip(p) \/ Refuse(p) \/ Apply(p) \/ Ready(p) \/ Interrupt(p)
    PROVE  ChainInv'
<1> USE Chain
<1>0. TypeOK /\ Progress(p) /\ ReadyIsComplete
  BY DEF ChainInv
<1>1. CASE Start(p)
  <2>1. TypeOK'
    BY <1>0, <1>1 DEF Start, Goto, TypeOK
  <2>2. pc'[p] = "check" /\ at'[p] = 1
    BY <1>0, <1>1 DEF Start, Goto, TypeOK
  <2> QED
    BY <1>0, <1>1, <2>1, <2>2, MarkStep DEF Start, Goto, TypeOK, Progress
<1>2. CASE Skip(p)
  <2>1. TypeOK'
    BY <1>0, <1>2 DEF Skip, Advance, TypeOK
  <2>2. pc'[p] = "check" /\ at'[p] = at[p] + 1 /\ at[p] \in Nat \ {0}
    BY <1>0, <1>2 DEF Skip, Advance, TypeOK
  <2>3. recorded[at[p]] # Unrecorded
    BY <1>0, <1>2 DEF Skip, TypeOK, MigrationAssumption
  <2>4. Progress(p)'
    BY <1>0, <1>2, <2>2, <2>3 DEF Skip, Progress, Recorded
  <2> QED
    BY <1>0, <1>2, <2>1, <2>2, <2>4, MarkStep DEF Skip, Advance, TypeOK
<1>3. CASE Apply(p)
  <2>0. at[p] \in Migration /\ Len(Script[at[p]]) \in Nat \ {0} /\ disk[at[p]] \in Version
    BY <1>0, <1>3 DEF Apply, TypeOK
  <2>1. TypeOK'
    <3>1. /\ line' \in [Process -> Nat \ {0}] /\ hash' \in [Process -> Version]
          /\ pc' \in [Process -> {"off", "check", "script", "record", "ready", "failed"}]
      BY <1>0, <1>3, <2>0 DEF Apply, Goto, TypeOK
    <3>2. ASSUME NEW q \in Process, pc'[q] = "script" PROVE line'[q] <= Len(Script[at[q]])
      <4>1. CASE q = p
        BY <1>0, <1>3, <2>0, <4>1 DEF Apply, TypeOK
      <4>2. CASE q # p
        BY <1>0, <1>3, <3>2, <4>2 DEF Apply, Goto, TypeOK
      <4> QED
        BY <4>1, <4>2
    <3> QED
      BY <1>0, <1>3, <2>0, <3>1, <3>2 DEF Apply, Goto, TypeOK
  <2>2. pc'[p] = "script" /\ line'[p] = 1 /\ at' = at
    BY <1>0, <1>3 DEF Apply, Goto, TypeOK
  <2>3. Progress(p)'
    BY <1>0, <1>3, <2>2 DEF Apply, Progress, Recorded
  <2> QED
    BY <1>0, <1>3, <2>1, <2>2, <2>3, MarkStep DEF Apply, Goto, TypeOK
<1>4. CASE Ready(p)
  <2>1. TypeOK'
    BY <1>0, <1>4 DEF Ready, Goto, TypeOK
  <2>2. pc'[p] = "ready" /\ \A m \in Migration : Recorded(m)
    BY <1>0, <1>4 DEF Ready, Goto, TypeOK, Progress
  <2> QED
    BY <1>0, <1>4, <2>1, <2>2, MarkStep DEF Ready, Goto, TypeOK, Progress
<1>5. CASE Refuse(p) \/ Interrupt(p)
  <2>1. TypeOK'
    BY <1>0, <1>5 DEF Refuse, Interrupt, Goto, TypeOK
  <2>2. pc'[p] \in {"failed", "off"}
    BY <1>0, <1>5 DEF Refuse, Interrupt, Goto, TypeOK
  <2> QED
    BY <1>0, <1>5, <2>1, <2>2, MarkStep DEF Refuse, Interrupt, Goto, TypeOK, Progress
<1> QED
  BY <1>1, <1>2, <1>3, <1>4, <1>5

\* A statement takes effect only under a prefix that is recorded, and in order.
LEMMA StatementInv ==
    ASSUME MigrationAssumption, ChainInv, NEW p \in Process, Statement(p)
    PROVE  ChainInv'
<1> USE Chain
<1>0. TypeOK /\ PrefixOfChain /\ ReadyIsComplete /\ Progress(p)
  BY DEF ChainInv
<1> DEFINE m == at[p]
           i == line[p]
<1>1. /\ pc[p] = "script" /\ m \in Migration /\ m \in Nat /\ i \in Nat \ {0}
      /\ i <= Len(Script[m]) /\ Len(Script[m]) \in Nat \ {0}
  BY <1>0 DEF Statement, TypeOK
<1>2. CASE Goto(p, "failed") /\ UNCHANGED <<schema, line>>
  <2>1. TypeOK'
    BY <1>0, <1>2 DEF Statement, Goto, TypeOK
  <2>2. pc'[p] = "failed"
    BY <1>0, <1>2 DEF Goto, TypeOK
  <2> QED
    BY <1>0, <1>2, <2>1, <2>2, MarkStep DEF Statement, Goto, TypeOK, Progress
<1>3. CASE /\ schema' = schema \cup {<<m, i>>}
           /\ Goto(p, IF i = Len(Script[m]) THEN "record" ELSE "script")
           /\ line' = [line EXCEPT ![p] = @ + 1]
           /\ UNCHANGED <<disk, recorded, at, hash>>
  <2>1. \A q \in Process \ {p} : pc'[q] = pc[q] /\ line'[q] = line[q]
    BY <1>0, <1>3 DEF Goto, TypeOK
  <2>2. /\ pc'[p] = IF i = Len(Script[m]) THEN "record" ELSE "script"
        /\ line'[p] = i + 1
    BY <1>0, <1>3 DEF Goto, TypeOK
  <2>3. TypeOK'
    <3>1. schema' \subseteq {e \in Migration \X Nat : e[2] \in 1..Len(Script[e[1]])}
      BY <1>0, <1>1, <1>3 DEF TypeOK
    <3>2. line' \in [Process -> Nat \ {0}]
      BY <1>0, <1>1, <1>3 DEF TypeOK
    <3>3. pc' \in [Process -> {"off", "check", "script", "record", "ready", "failed"}]
      BY <1>0, <1>3 DEF Goto, TypeOK
    <3>4. \A q \in Process : pc'[q] = "script" => line'[q] <= Len(Script[at[q]])
      BY <1>0, <1>1, <2>1, <2>2 DEF TypeOK
    <3>5. \A q \in Process : pc'[q] \in {"script", "record"} => at[q] \in Migration
      BY <1>0, <1>1, <2>1 DEF TypeOK
    <3> QED
      BY <1>0, <1>3, <3>1, <3>2, <3>3, <3>4, <3>5 DEF TypeOK
  <2>4. schema \subseteq schema' /\ recorded' = recorded /\ at' = at /\ <<m, i>> \in schema'
    BY <1>3
  <2>5. \A k \in Migration : Installed(k) => Installed(k)'
    BY <2>4 DEF Installed
  <2>6. PrefixOfChain'
    <3>1. \A k \in 1..(m - 1) : recorded[k] # Unrecorded
      BY <1>0, <1>1 DEF Progress, Recorded
    <3>2. \A e \in schema' : \A k \in 1..(e[1] - 1) : recorded[k] # Unrecorded
      BY <1>0, <1>3, <3>1 DEF PrefixOfChain
    <3> QED
      BY <1>0, <2>4, <2>5, <3>2 DEF PrefixOfChain
  <2>7. ReadyIsComplete'
    BY <1>0, <2>1, <2>2, <2>4 DEF ReadyIsComplete
  <2>8. Progress(p)'
    <3>0. \A j \in 1..(i - 1) : <<m, j>> \in schema
      BY <1>0, <1>1 DEF Progress
    <3>1. ASSUME NEW j \in 1..i PROVE <<m, j>> \in schema'
      <4>1. CASE j = i
        BY <2>4, <4>1
      <4>2. CASE j # i
        <5>1. j \in 1..(i - 1)
          BY <1>1, <4>2
        <5>2. <<m, j>> \in schema
          BY <3>0, <5>1
        <5> QED
          BY <2>4, <5>2
      <4> QED
        BY <4>1, <4>2
    <3>2. CASE i = Len(Script[m])
      <4>1. pc'[p] = "record" /\ Installed(at[p])'
        BY <1>1, <2>2, <2>4, <3>1, <3>2 DEF Installed
      <4>2. \A k \in 1..(at[p] - 1) : Recorded(k)
        BY <1>0, <1>1 DEF Progress
      <4> QED
        BY <2>4, <4>1, <4>2 DEF Progress, Recorded
    <3>3. CASE i # Len(Script[m])
      <4>1. pc'[p] = "script" /\ line'[p] = i + 1 /\ i + 1 - 1 = i
        BY <1>1, <2>2, <3>3
      <4>2. \A k \in 1..(at[p] - 1) : Recorded(k)
        BY <1>0, <1>1 DEF Progress
      <4> QED
        BY <1>1, <2>4, <3>1, <4>1, <4>2 DEF Progress, Recorded
    <3> QED
      BY <3>2, <3>3
  <2>9. ASSUME NEW q \in Process, q # p PROVE Progress(q)'
    <3>1. Progress(q) /\ (pc[q] = "record" => at[q] \in Migration)
      BY DEF ChainInv, TypeOK
    <3> QED
      BY <2>1, <2>4, <2>5, <2>9, <3>1 DEF Progress, Recorded
  <2> QED
    BY <2>3, <2>6, <2>7, <2>8, <2>9 DEF ChainInv
<1> QED
  BY <1>2, <1>3 DEF Statement

\* A row is written for a migration whose script has run to its end.
LEMMA RecordInv ==
    ASSUME MigrationAssumption, ChainInv, NEW p \in Process, Record(p)
    PROVE  ChainInv'
<1> USE Chain
<1>0. TypeOK /\ PrefixOfChain /\ ReadyIsComplete /\ Progress(p)
  BY DEF ChainInv
<1>1. /\ pc[p] = "record" /\ at[p] \in Migration /\ at[p] \in Nat \ {0}
      /\ hash[p] \in Version /\ Installed(at[p])
  BY <1>0 DEF Record, TypeOK, Progress
<1>2. CASE Goto(p, "failed") /\ UNCHANGED <<recorded, at>>
  <2>1. TypeOK'
    BY <1>0, <1>2 DEF Record, Goto, TypeOK
  <2>2. pc'[p] = "failed"
    BY <1>0, <1>2 DEF Goto, TypeOK
  <2> QED
    BY <1>0, <1>2, <2>1, <2>2, MarkStep DEF Record, Goto, TypeOK, Progress
<1>3. CASE /\ recorded' = [recorded EXCEPT ![at[p]] = hash[p]]
           /\ Advance(p) /\ Goto(p, "check")
           /\ UNCHANGED <<disk, schema, line, hash>>
  <2>1. \A q \in Process \ {p} : pc'[q] = pc[q] /\ at'[q] = at[q]
    BY <1>0, <1>3 DEF Goto, Advance, TypeOK
  <2>2. pc'[p] = "check" /\ at'[p] = at[p] + 1
    BY <1>0, <1>3 DEF Goto, Advance, TypeOK
  <2>3. TypeOK'
    <3>1. /\ recorded' \in [Migration -> Version \cup {Unrecorded}]
          /\ at' \in [Process -> 1..(Len(Script) + 1)]
          /\ pc' \in [Process -> {"off", "check", "script", "record", "ready", "failed"}]
      BY <1>0, <1>1, <1>3 DEF Goto, Advance, TypeOK
    <3>2. \A q \in Process : pc'[q] \in {"script", "record"} =>
              at'[q] \in Migration /\ (pc'[q] = "script" => line[q] <= Len(Script[at'[q]]))
      BY <1>0, <2>1, <2>2 DEF TypeOK
    <3> QED
      BY <1>0, <1>3, <3>1, <3>2 DEF TypeOK
  <2>4. \A k \in Migration : Recorded(k) => Recorded(k)'
    BY <1>0, <1>1, <1>3 DEF Recorded, TypeOK, MigrationAssumption
  <2>5. recorded'[at[p]] # Unrecorded
    BY <1>0, <1>1, <1>3 DEF Recorded, TypeOK, MigrationAssumption
  <2>6. PrefixOfChain'
    <3>1. \A k \in Migration : Recorded(k)' => Installed(k)
      BY <1>0, <1>1, <1>3 DEF PrefixOfChain, Recorded, TypeOK
    <3>2. ASSUME NEW e \in schema, NEW k \in 1..(e[1] - 1) PROVE Recorded(k)'
      <4>0. e[1] \in 1..Len(Script)
        BY <1>0 DEF TypeOK
      <4>1. k \in Migration /\ Recorded(k)
        BY <1>0, <4>0 DEF PrefixOfChain, Recorded
      <4> QED
        BY <2>4, <4>1
    <3> QED
      BY <1>3, <3>1, <3>2 DEF PrefixOfChain, Recorded, Installed
  <2>7. ReadyIsComplete'
    BY <1>0, <2>1, <2>2, <2>4 DEF ReadyIsComplete, Recorded
  <2>8. \A q \in Process : at[q] \in 1..(Len(Script) + 1)
    BY <1>0 DEF TypeOK
  <2>9. Progress(p)'
    <3>1. ASSUME NEW k \in 1..at[p] PROVE recorded'[k] # Unrecorded
      <4>1. CASE k = at[p]
        BY <2>5, <4>1
      <4>2. CASE k # at[p]
        <5>1. k \in 1..(at[p] - 1) /\ k \in Migration
          BY <1>1, <4>2
        <5> QED
          BY <1>0, <1>1, <2>4, <5>1 DEF Progress, Recorded
      <4> QED
        BY <4>1, <4>2
    <3>2. \A k \in 1..(at'[p] - 1) : recorded'[k] # Unrecorded
      BY <1>1, <2>2, <3>1
    <3> QED
      BY <2>2, <3>2 DEF Progress, Recorded
  <2>10. ASSUME NEW q \in Process, q # p PROVE Progress(q)'
    <3>1. Progress(q)
      BY DEF ChainInv
    <3>2. \A k \in 1..(at[q] - 1) : Recorded(k) => recorded'[k] # Unrecorded
      BY <2>4, <2>8 DEF Recorded
    <3> QED
      BY <1>3, <2>1, <2>10, <3>1, <3>2 DEF Progress, Installed, Recorded
  <2> QED
    BY <2>3, <2>6, <2>7, <2>9, <2>10 DEF ChainInv
<1> QED
  BY <1>2, <1>3 DEF Record

\* The invariant survives every step; an edited file changes only the disk.
LEMMA ChainStep == ASSUME MigrationAssumption, ChainInv, [Next]_vars PROVE ChainInv'
<1>1. CASE UNCHANGED vars
  BY <1>1 DEF vars, ChainInv, TypeOK, PrefixOfChain, ReadyIsComplete, Progress, Recorded, Installed
<1>2. ASSUME NEW m \in Migration, NEW v \in Version, Edit(m, v) PROVE ChainInv'
  BY <1>2 DEF Edit, ChainInv, TypeOK, PrefixOfChain, ReadyIsComplete, Progress, Recorded, Installed
<1> QED
  BY <1>1, <1>2, ControlInv, StatementInv, RecordInv DEF Next, Run

\* The invariant always holds.
LEMMA Invariance == MigrationAssumption => (Spec => []ChainInv)
<1> SUFFICES ASSUME MigrationAssumption PROVE Spec => []ChainInv
  OBVIOUS
<1>1. Init => ChainInv
  BY ChainInit
<1>2. ChainInv /\ [Next]_vars => ChainInv'
  BY ChainStep
<1> QED
  BY <1>1, <1>2, PTL DEF Spec

\* Every variable keeps its type.
THEOREM MigrationsTypeCorrect == MigrationAssumption => (Spec => []TypeOK)
BY Invariance, PTL DEF ChainInv

\* Whatever the scripts are and however many programs migrate at once, crash or
\* meet a lock, the database is a recorded prefix of the chain and a part of at
\* most one migration more.
THEOREM DatabaseIsPrefix == MigrationAssumption => (Spec => []PrefixOfChain)
BY Invariance, PTL DEF ChainInv

\* No program goes to work on a database that lacks a migration.
THEOREM ReadyHasAll == MigrationAssumption => (Spec => []ReadyIsComplete)
BY Invariance, PTL DEF ChainInv

-----------------------------------------------------------------------------
(* The dates.                                                              *)

Kind(c) == IF c = "asserted" THEN "issued" ELSE "in force"

\* Only version 2 is ever superseded.
Shaped(e) ==
    /\ e = [type |-> e.type, date |-> e.date, version |-> e.version,
            evidence |-> e.evidence, active |-> e.active]
    /\ e.version \in {2, 3} /\ e.active \in BOOLEAN
    /\ e.version = 3 => e.active

\* What a piece of evidence s was read for is said once.
Supported(s) == s[1] \in DOMAIN pages /\ s[1] \in read /\ Promoted(pages[s[1]], s[2]) # {}

InReview(u) == u[1] \in DOMAIN pages /\ Status(pages[u[1]], u[2]) # "resolved"

Stands(type, date) == \E e \in events : e.version = 3 /\ e.type = type /\ e.date = date

\* A date of a relationship is one that version 3 gave, or rests on version 2.
Founded(r, c) ==
    /\ dated[r][c] # NoDate =>
          \/ Stands(Kind(c), dated[r][c])
          \/ RestsOnLegacy(r, c) /\ basis[r][c].type = Kind(c) /\ basis[r][c].date = dated[r][c]
    /\ basis[r][c] # NoEvent => basis[r][c] \in events /\ basis[r][c].active

\* The inductive invariant.
DatesInv ==
    /\ pages \in Seq(Pages) /\ picked \in 0..Len(pages)
    /\ \A e \in events : Shaped(e)
    /\ \A e \in events : e.version = 3 => \A s \in e.evidence : Supported(s)
    /\ \A u \in unsettled : InReview(u)
    /\ \A r \in Relation, c \in Column : Founded(r, c)
    /\ dates.issued # NoDate => IsActive("issued", dates.issued)
    /\ dates.published # NoDate => IsActive("published", dates.published)

-----------------------------------------------------------------------------
\* A role that is promoted is resolved.
LEMMA PromotedIsResolved ==
    ASSUME NEW page, NEW role, Promoted(page, role) # {}
    PROVE  Status(page, role) = "resolved"
<1>1. PICK c : Trusted(page, role) = {c}
  BY DEF Promoted
<1>2. Cardinality({c}) = 1
  BY FS_Singleton
<1> QED
  BY <1>1, <1>2 DEF Status

\* What an extraction finds has the form of an event, and the evidence it names
\* is promoted.
LEMMA Found ==
    ASSUME NEW x, NEW e \in EventsOf(x)
    PROVE  /\ Shaped(e) /\ e.version = 3 /\ e.date # NoDate
           /\ \A s \in e.evidence : s[1] = x /\ Promoted(pages[x], s[2]) # {}
<1> DEFINE published == DateOf(pages[x], "publication")
           issued == DateOf(pages[x], "issued")
<1>1. published # NoDate => Promoted(pages[x], "publication") # {}
  BY DEF DateOf
<1>2. issued # NoDate => Promoted(pages[x], "issued") # {}
  BY DEF DateOf
<1>3. /\ e.date # NoDate
      /\ e.type = "in force" => Promoted(pages[x], "commencement") # {}
      /\ \/ e = Event("issued", issued, 3, {<<x, "issued">>})
         \/ e = Event("published", published, 3, {<<x, "publication">>})
         \/ e = Event("in force", published, 3, {<<x, "publication">>, <<x, "commencement">>})
  BY DEF EventsOf
<1> HIDE DEF published, issued
<1>4. CASE e = Event("issued", issued, 3, {<<x, "issued">>})
  BY <1>2, <1>3, <1>4 DEF Event, Shaped
<1>5. CASE e = Event("published", published, 3, {<<x, "publication">>})
  BY <1>1, <1>3, <1>5 DEF Event, Shaped
<1>6. CASE e = Event("in force", published, 3, {<<x, "publication">>, <<x, "commencement">>})
  <2>1. /\ e.type = "in force" /\ e.version = 3
        /\ e.evidence = {<<x, "publication">>, <<x, "commencement">>}
    BY <1>6 DEF Event
  <2>2. Shaped(e)
    BY <1>6 DEF Event, Shaped
  <2>3. Promoted(pages[x], "publication") # {} /\ Promoted(pages[x], "commencement") # {}
    <3>1. e.date = published
      BY <1>6 DEF Event
    <3> QED
      BY <1>1, <1>3, <2>1, <3>1
  <2>4. ASSUME NEW s \in e.evidence PROVE s[1] = x /\ Promoted(pages[x], s[2]) # {}
    <3>1. s = <<x, "publication">> \/ s = <<x, "commencement">>
      BY <2>1
    <3> QED
      BY <2>3, <3>1
  <2> QED
    BY <1>3, <2>1, <2>2, <2>4
<1> QED
  BY <1>3, <1>4, <1>5, <1>6

\* Each date of the document that a page gives is the date of an event.
LEMMA FoundDates ==
    ASSUME NEW x
    PROVE  /\ DateOf(pages[x], "issued") # NoDate =>
                \E e \in EventsOf(x) : e.type = "issued" /\ e.date = DateOf(pages[x], "issued")
           /\ DateOf(pages[x], "publication") # NoDate =>
                \E e \in EventsOf(x) : e.type = "published" /\ e.date = DateOf(pages[x], "publication")
<1> DEFINE i == Event("issued", DateOf(pages[x], "issued"), 3, {<<x, "issued">>})
           p == Event("published", DateOf(pages[x], "publication"), 3, {<<x, "publication">>})
<1>1. i.type = "issued" /\ i.date = DateOf(pages[x], "issued")
  BY DEF Event
<1>2. p.type = "published" /\ p.date = DateOf(pages[x], "publication")
  BY DEF Event
<1>3. i.date # NoDate => i \in EventsOf(x)
  BY <1>1 DEF EventsOf
<1>4. p.date # NoDate => p \in EventsOf(x)
  BY <1>2 DEF EventsOf
<1> QED
  BY <1>1, <1>2, <1>3, <1>4
-----------------------------------------------------------------------------
\* Nothing of version 2 is lost or revived, and what an extraction finds is there
\* when it commits, under the evidence it was found with.
LEMMA Committed ==
    ASSUME DatesInv, NEW x, ProcessTemporality(x)
    PROVE  /\ \A e \in events' : Shaped(e) /\ (e.version = 3 => e \in events \cup EventsOf(x))
           /\ \A e \in events : e.version = 3 => e \in events'
           /\ \A e \in EventsOf(x) : e \in events'
<1> DEFINE fresh == {e \in EventsOf(x) : \A f \in events : ~SameIdentity(e, f)}
<1>1. events' = Retired \cup fresh /\ ~Clashes(x)
  BY DEF ProcessTemporality, Persist, SyncReviews
<1>2. ASSUME NEW e \in events' PROVE Shaped(e) /\ (e.version = 3 => e \in events \cup EventsOf(x))
  <2>1. CASE e \in fresh
    BY <2>1, Found
  <2>2. CASE e \in events
    BY <2>2 DEF DatesInv
  <2>3. CASE e \in {[f EXCEPT !.active = FALSE] : f \in Legacy}
    <3>1. PICK f \in Legacy : e = [f EXCEPT !.active = FALSE]
      BY <2>3
    <3>2. f = [type |-> f.type, date |-> f.date, version |-> f.version,
               evidence |-> f.evidence, active |-> f.active] /\ f.version = 2
      BY <3>1 DEF Legacy, DatesInv, Shaped
    <3>3. e = [type |-> f.type, date |-> f.date, version |-> 2,
               evidence |-> f.evidence, active |-> FALSE]
      BY <3>1, <3>2
    <3> QED
      BY <3>3 DEF Shaped
  <2> QED
    BY <1>1, <2>1, <2>2, <2>3 DEF Retired
<1>3. ASSUME NEW e \in events, e.version = 3 PROVE e \in events'
  BY <1>1, <1>3 DEF Retired, Legacy
<1>4. ASSUME NEW e \in EventsOf(x) PROVE e \in events'
  <2>1. CASE e \in fresh
    BY <1>1, <2>1
  <2>2. CASE e \notin fresh
    <3>1. PICK f \in events : SameIdentity(e, f)
      BY <2>2
    <3>2. f.type = e.type /\ f.date = e.date /\ f.version = e.version /\ f.evidence = e.evidence
      BY <1>1, <3>1 DEF Clashes, SameIdentity
    <3>3. Shaped(e) /\ Shaped(f) /\ e.version = 3
      BY Found DEF DatesInv
    <3>4. e = f
      BY <3>2, <3>3 DEF Shaped
    <3> QED
      BY <1>3, <3>3, <3>4
  <2> QED
    BY <2>1, <2>2
<1> QED
  BY <1>2, <1>3, <1>4

\* The dates of a relationship stay founded.
LEMMA RelationStep ==
    ASSUME DatesInv, NEW x, ProcessTemporality(x), NEW r \in Relation, NEW c \in Column
    PROVE  Founded(r, c)'
<1>1. dated'[r][c] = DateGiven(x, r, c) /\ basis'[r][c] = BasisGiven(x, r, c)
  BY DEF ProcessTemporality, Persist, SyncReviews
<1>2. \A e \in EventFor(x, r, c) :
         e \in EventsOf(x) /\ e \in events' /\ e.version = 3 /\ e.active /\ e.type = Kind(c)
  <2> SUFFICES ASSUME NEW e \in EventFor(x, r, c)
               PROVE  e \in EventsOf(x) /\ e \in events' /\ e.version = 3 /\ e.active /\ e.type = Kind(c)
    OBVIOUS
  <2>1. e \in EventsOf(x) /\ e.type = Kind(c)
    BY DEF EventFor, Kind, Column
  <2> QED
    BY <2>1, Committed, Found DEF Shaped
<1>3. EventFor(x, r, c) # {} => (CHOOSE e \in EventFor(x, r, c) : TRUE) \in EventFor(x, r, c)
  OBVIOUS
<1> DEFINE given == CHOOSE e \in EventFor(x, r, c) : TRUE
           new == r \in relations /\ EventFor(x, r, c) # {}
<1>4. new => given \in events' /\ given.version = 3 /\ given.active /\ given.type = Kind(c)
  BY <1>2, <1>3
<1>5. /\ DateGiven(x, r, c) = IF new THEN given.date
                              ELSE IF RestsOnLegacy(r, c) THEN NoDate ELSE dated[r][c]
      /\ BasisGiven(x, r, c) = IF basis[r][c] # NoEvent /\ ~RestsOnLegacy(r, c) THEN basis[r][c]
                               ELSE IF new THEN given ELSE NoEvent
  BY DEF DateGiven, BasisGiven
<1> HIDE DEF given, new
<1>6. dated'[r][c] # NoDate => \E e \in events' : e.version = 3 /\ e.type = Kind(c) /\ e.date = dated'[r][c]
  <2>1. CASE new
    BY <1>1, <1>4, <1>5, <2>1
  <2>2. CASE ~new /\ ~RestsOnLegacy(r, c)
    <3>1. dated'[r][c] = dated[r][c]
      BY <1>1, <1>5, <2>2
    <3>2. dated[r][c] # NoDate => Stands(Kind(c), dated[r][c])
      BY <2>2 DEF DatesInv, Founded
    <3> QED
      BY <3>1, <3>2, Committed DEF Stands
  <2>3. CASE ~new /\ RestsOnLegacy(r, c)
    BY <1>1, <1>5, <2>3
  <2> QED
    BY <2>1, <2>2, <2>3
<1>7. basis'[r][c] # NoEvent => basis'[r][c] \in events' /\ basis'[r][c].active
  <2>1. CASE basis[r][c] # NoEvent /\ ~RestsOnLegacy(r, c)
    <3>1. basis[r][c] \in events /\ basis[r][c].active
      BY <2>1 DEF DatesInv, Founded
    <3>2. basis[r][c].version = 3
      BY <2>1, <3>1 DEF DatesInv, Shaped, RestsOnLegacy, Legacy
    <3> QED
      BY <1>1, <1>5, <2>1, <3>1, <3>2, Committed
  <2>2. CASE ~(basis[r][c] # NoEvent /\ ~RestsOnLegacy(r, c))
    BY <1>1, <1>4, <1>5, <2>2
  <2> QED
    BY <2>1, <2>2
<1> QED
  BY <1>6, <1>7 DEF Founded, Stands

\* So do those of the document.
LEMMA DocumentStep ==
    ASSUME DatesInv, NEW x, ProcessTemporality(x)
    PROVE  /\ (dates.issued # NoDate => IsActive("issued", dates.issued))'
           /\ (dates.published # NoDate => IsActive("published", dates.published))'
<1>1. /\ dates'.issued = DocumentDate(DateOf(pages[x], "issued"), dates.issued, "issued")
      /\ dates'.published = DocumentDate(DateOf(pages[x], "publication"), dates.published, "published")
  BY DEF ProcessTemporality, Persist, SyncReviews
<1>2. ASSUME NEW found, NEW current, NEW type,
             found # NoDate => \E e \in EventsOf(x) : e.type = type /\ e.date = found,
             current # NoDate => IsActive(type, current),
             DocumentDate(found, current, type) # NoDate
      PROVE  \E e \in events' : e.active /\ e.type = type /\ e.date = DocumentDate(found, current, type)
  <2>1. CASE found # NoDate
    <3>1. PICK e \in EventsOf(x) : e.type = type /\ e.date = found
      BY <1>2, <2>1
    <3>2. e \in events' /\ e.active
      BY Committed, Found DEF Shaped
    <3>3. DocumentDate(found, current, type) = found
      BY <2>1 DEF DocumentDate
    <3> QED
      BY <3>1, <3>2, <3>3
  <2>2. CASE found = NoDate
    <3>1. /\ DocumentDate(found, current, type) = current
          /\ ~ \E e \in Legacy : e.type = type /\ e.date = current
      BY <1>2, <2>2 DEF DocumentDate
    <3>2. PICK e \in events : e.active /\ e.type = type /\ e.date = current
      BY <1>2, <3>1 DEF IsActive
    <3>3. e.version = 3
      BY <3>1, <3>2 DEF Legacy, DatesInv, Shaped
    <3> QED
      BY <3>1, <3>2, <3>3, Committed
  <2> QED
    BY <2>1, <2>2
<1> QED
  <2>1. dates'.issued # NoDate =>
           \E e \in events' : e.active /\ e.type = "issued" /\ e.date = dates'.issued
    BY <1>1, <1>2, FoundDates DEF DatesInv
  <2>2. dates'.published # NoDate =>
           \E e \in events' : e.active /\ e.type = "published" /\ e.date = dates'.published
    BY <1>1, <1>2, FoundDates DEF DatesInv
  <2> QED
    BY <2>1, <2>2 DEF IsActive

\* Evidence that an extraction names is its own; reviews are opened for the rest.
LEMMA EvidenceStep ==
    ASSUME DatesInv, NEW x \in DOMAIN pages, ProcessTemporality(x)
    PROVE  /\ \A e \in events' : e.version = 3 => \A s \in e.evidence : Supported(s)'
           /\ \A u \in unsettled' : InReview(u)'
<1>1. read' = read \cup {x} /\ pages' = pages
  BY DEF ProcessTemporality, Persist, SyncReviews
<1>2. ASSUME NEW s, Supported(s) \/ (s[1] = x /\ Promoted(pages[x], s[2]) # {})
      PROVE  Supported(s)'
  BY <1>1, <1>2 DEF Supported
<1>3. ASSUME NEW e \in events', e.version = 3, NEW s \in e.evidence PROVE Supported(s)'
  <2>1. CASE e \in events
    BY <1>2, <1>3, <2>1 DEF DatesInv
  <2>2. CASE e \in EventsOf(x)
    BY <1>2, <1>3, <2>2, Found
  <2> QED
    BY <1>3, <2>1, <2>2, Committed
<1>4. ASSUME NEW u \in unsettled' PROVE InReview(u)'
  <2>1. CASE u \in unsettled
    BY <1>1, <2>1 DEF DatesInv, InReview
  <2>2. CASE \E role \in {r \in Role : Status(pages[x], r) # "resolved"} : u = <<x, role>>
    <3>1. PICK role \in Role : u = <<x, role>> /\ Status(pages[x], role) # "resolved"
      BY <2>2
    <3>2. u[1] = x /\ u[2] = role
      BY <3>1
    <3> QED
      BY <1>1, <3>1, <3>2 DEF InReview
  <2> QED
    BY <2>1, <2>2 DEF ProcessTemporality, Persist, SyncReviews
<1> QED
  BY <1>3, <1>4

LEMMA ProcessStep ==
    ASSUME DatesInv, NEW x \in DOMAIN pages, ProcessTemporality(x), picked' \in 0..Len(pages)
    PROVE  DatesInv'
<1>1. pages' = pages
  BY DEF ProcessTemporality, Persist, SyncReviews
<1>2. (pages \in Seq(Pages) /\ picked \in 0..Len(pages))'
  BY <1>1 DEF DatesInv
<1>3. (\A e \in events : Shaped(e))'
  BY Committed DEF Shaped
<1>4. (\A r \in Relation, c \in Column : Founded(r, c))'
  BY RelationStep
<1>5. (\A e \in events : e.version = 3 => \A s \in e.evidence : Supported(s))'
  BY EvidenceStep
<1>6. (\A u \in unsettled : InReview(u))'
  BY EvidenceStep
<1>7. (/\ dates.issued # NoDate => IsActive("issued", dates.issued)
       /\ dates.published # NoDate => IsActive("published", dates.published))'
  BY DocumentStep
<1> QED
  BY <1>2, <1>3, <1>4, <1>5, <1>6, <1>7 DEF DatesInv

\* Pages only come after those that evidence and reviews name.
LEMMA DatesQuiet ==
    ASSUME DatesInv, UNCHANGED <<read, unsettled, events, dates, dated, basis>>,
           pages' \in Seq(Pages), picked' \in 0..Len(pages'),
           \A i \in DOMAIN pages : i \in DOMAIN pages' /\ pages'[i] = pages[i]
    PROVE  DatesInv'
<1>1. (\A e \in events : Shaped(e))'
  BY DEF DatesInv, Shaped
<1>2. (\A e \in events : e.version = 3 => \A s \in e.evidence : Supported(s))'
  BY DEF DatesInv, Supported
<1>3. (\A u \in unsettled : InReview(u))'
  BY DEF DatesInv, InReview
<1>4. (\A r \in Relation, c \in Column : Founded(r, c))'
  BY DEF DatesInv, Founded, Stands, RestsOnLegacy, Legacy
<1>5. (/\ dates.issued # NoDate => IsActive("issued", dates.issued)
       /\ dates.published # NoDate => IsActive("published", dates.published))'
  BY DEF DatesInv, IsActive
<1> QED
  BY <1>1, <1>2, <1>3, <1>4, <1>5 DEF DatesInv

\* What version 2 left is founded on its own events.
LEMMA DatesInit == ASSUME TemporalInit PROVE DatesInv
<1>1. PICK related \in SUBSET Relation : Inherit(related)
  BY DEF TemporalInit
<1>2. pages = <<>> /\ picked = 0 /\ unsettled = {}
  BY <1>1 DEF Inherit
<1>3. \A r \in Relation, c \in Column : dated[r][c] = basis[r][c].date
  BY <1>1 DEF Inherit
<1>4. pages \in Seq(Pages) /\ picked \in 0..Len(pages)
  BY <1>2
<1>5. CASE Undated
  <2>1. \A r \in Relation, c \in Column : basis[r][c] = NoEvent /\ dated[r][c] = NoDate
    BY <1>3, <1>5 DEF Undated, NoEvent, Event
  <2> QED
    BY <1>2, <1>4, <1>5, <2>1 DEF DatesInv, Undated, Founded
<1>6. ASSUME NEW i, DatedByVersion2(i) PROVE DatesInv
  <2>1. ASSUME NEW e \in events PROVE Shaped(e) /\ e.version = 2 /\ e.active
    <3>1. \E type, date, evidence : e = Event(type, date, 2, evidence)
      BY <1>6 DEF DatedByVersion2, EventsLeft
    <3> QED
      BY <3>1 DEF Event, Shaped
  <2>2. ASSUME NEW r \in Relation, NEW c \in Column, basis[r][c] # NoEvent
        PROVE  basis[r][c] \in events /\ basis[r][c].type = Kind(c)
    <3>1. basis[r][c] = CHOOSE e \in events : e.type = Kind(c)
      BY <1>6, <2>2 DEF DatedByVersion2, Kind
    <3>2. \E e \in events : e.type = Kind(c)
      BY <1>6 DEF DatedByVersion2, EventsLeft, Event, Kind
    <3> QED
      BY <3>1, <3>2
  <2>3. ASSUME NEW r \in Relation, NEW c \in Column PROVE Founded(r, c)
    <3>1. CASE basis[r][c] = NoEvent
      BY <1>3, <3>1 DEF Founded, NoEvent, Event
    <3>2. CASE basis[r][c] # NoEvent
      BY <1>3, <2>1, <2>2, <3>2 DEF Founded, RestsOnLegacy, Legacy
    <3> QED
      BY <3>1, <3>2
  <2>4. IsActive("issued", dates.issued) /\ IsActive("published", dates.published)
    BY <1>6 DEF DatedByVersion2, EventsLeft, Event, IsActive
  <2> QED
    BY <1>2, <1>4, <2>1, <2>3, <2>4 DEF DatesInv
<1> QED
  BY <1>1, <1>5, <1>6 DEF Inherit

LEMMA DatesStep == ASSUME DatesInv, [TemporalNext]_temporality PROVE DatesInv'
<1>1. ASSUME NEW page \in Pages, Retrieve(page) PROVE DatesInv'
  <2>1. pages' = Append(pages, page) /\ picked' = picked
    BY <1>1 DEF Retrieve
  <2>2. /\ pages' \in Seq(Pages) /\ Len(pages') = Len(pages) + 1
        /\ \A i \in DOMAIN pages : i \in DOMAIN pages' /\ pages'[i] = pages[i]
    BY <2>1 DEF DatesInv
  <2>3. picked' \in 0..Len(pages')
    BY <2>1, <2>2 DEF DatesInv
  <2> QED
    BY <1>1, <2>2, <2>3, DatesQuiet DEF Retrieve
<1>2. ASSUME NEW r \in Relation, Promote(r) PROVE DatesInv'
  BY <1>2, DatesQuiet DEF Promote, DatesInv
<1>3. ASSUME NEW x \in DOMAIN pages, Extract(x) PROVE DatesInv'
  BY <1>3, ProcessStep DEF Extract, DatesInv
<1>4. CASE Select
  BY <1>4, DatesQuiet DEF Select, DatesInv
<1>5. CASE Reprocess
  <2>1. picked \in DOMAIN pages /\ picked' \in 0..Len(pages)
    BY <1>5 DEF Reprocess, DatesInv
  <2>2. CASE ProcessTemporality(picked)
    BY <2>1, <2>2, ProcessStep
  <2>3. CASE UNCHANGED <<pages, read, unsettled, events, dates, relations, dated, basis>>
    BY <2>1, <2>3, DatesQuiet DEF DatesInv
  <2> QED
    BY <1>5, <2>2, <2>3 DEF Reprocess
<1>6. CASE UNCHANGED temporality
  BY <1>6, DatesQuiet DEF temporality, DatesInv
<1> QED
  BY <1>1, <1>2, <1>3, <1>4, <1>5, <1>6 DEF TemporalNext

\* Every date of a document or a relationship rests on an event that stands, however
\* many extractions and reprocesses replaced what version 2 had found.
THEOREM EveryDateIsFounded == TemporalSpec => []DatesAreFounded
<1>1. DatesInv => DatesAreFounded
  <2> SUFFICES ASSUME DatesInv PROVE DatesAreFounded
    OBVIOUS
  <2>1. ASSUME NEW r \in Relation, NEW c \in Column, dated[r][c] # NoDate
        PROVE  IsActive(Kind(c), dated[r][c])
    <3>1. CASE Stands(Kind(c), dated[r][c])
      BY <3>1 DEF Stands, IsActive, DatesInv, Shaped
    <3>2. CASE RestsOnLegacy(r, c) /\ basis[r][c].type = Kind(c) /\ basis[r][c].date = dated[r][c]
      BY <3>2 DEF RestsOnLegacy, Legacy, IsActive
    <3> QED
      BY <2>1, <3>1, <3>2 DEF DatesInv, Founded
  <2> QED
    BY <2>1 DEF DatesInv, Founded, DatesAreFounded, Kind
<1> QED
  BY <1>1, DatesInit, DatesStep, PTL DEF TemporalSpec

\* No event that stands rests on a role that waits for a review: a role with a
\* promoted candidate is resolved, and a page does not change.
THEOREM EveryEventIsSettled == TemporalSpec => []EventsAreSettled
<1>1. DatesInv => EventsAreSettled
  <2> SUFFICES ASSUME DatesInv, NEW e \in events, e.active, e.version = 3
               PROVE  e.evidence \cap unsettled = {} /\ \A s \in e.evidence : s[1] \in read
    BY DEF EventsAreSettled
  <2>1. \A s \in e.evidence : Supported(s)
    BY DEF DatesInv
  <2>2. ASSUME NEW s \in e.evidence PROVE s \notin unsettled /\ s[1] \in read
    <3>1. Status(pages[s[1]], s[2]) = "resolved"
      BY <2>1, PromotedIsResolved DEF Supported
    <3> QED
      BY <2>1, <3>1 DEF Supported, DatesInv, InReview
  <2> QED
    BY <2>2
<1> QED
  BY <1>1, DatesInit, DatesStep, PTL DEF TemporalSpec

-----------------------------------------------------------------------------
(* The corpus: a document answers to one act.                              *)

Ordinary(m) == AssessGeneric(Page[m]).accepted

\* What a tool knows of the binding it has read, or of the moves it has planned.
Sound(record) ==
    /\ record.tool \in {"identity", "simple", "simple checked", "compiled"} =>
          record.page \in DOMAIN Page /\ record.existing \in Documents \cup {NoDoc}
    /\ record.tool = "simple checked" => Ordinary(record.page)
    /\ record.tool = "compiled" => Page[record.page].heading # NoAct
    /\ record.tool = "migrate" =>
          /\ \A v \in record.moves : v.page \in DOMAIN Page /\ Ordinary(v.page)
          /\ \A s \in record.single : s.to.act = s.document.act

ActsInv ==
    /\ ids = [d \in Documents |-> ids[d]] /\ bound = [m \in DOMAIN bound |-> bound[m]]
    /\ DOMAIN bound \subseteq DOMAIN Page
    /\ \A m \in DOMAIN bound :
          /\ bound[m] \in Documents \cup {NoDoc}
          /\ bound[m] # NoDoc /\ Ordinary(m) => bound[m].act = Page[m].act
    /\ \A d \in Documents : \A i \in ids[d] : i.key.act = d.act
    /\ \A c \in cited : c[1].act = c[2].act /\ Page[c[3]].act = c[2].act
    /\ \A record \in pending : Sound(record)

\* A key is of its act, and a complete signal has one.
LEMMA Keys ==
    /\ \A issuer, act : KeyOf(issuer, act).act = act
    /\ \A signal : CanonicalKey(signal).act = signal.act /\ \A k \in CanonicalKeys(signal) : k.act = signal.act
  BY DEF KeyOf, CanonicalKey, CanonicalKeys

LEMMA KeyInDocuments ==
    ASSUME NEW signal, signal.act \in Act, signal.issuer \in Issuer \cup {NoIssuer}
    PROVE  CanonicalKey(signal) \in Documents
  BY DEF CanonicalKey, KeyOf, Documents, Key

\* What the assessments give.
LEMMA Assessments ==
    ASSUME CorpusAssumption, NEW m \in DOMAIN Page
    PROVE  /\ AssessGeneric(Page[m]).signal.act = Page[m].act
           /\ Ordinary(m) => /\ Page[m].family = "normative" /\ Page[m].heading = Page[m].act
                             /\ AssessGeneric(Page[m]).signal.act \in Act
                             /\ AssessGeneric(Page[m]).signal.issuer \in Issuer \cup {NoIssuer}
           /\ Assess(Page[m]).accepted => /\ Assess(Page[m]).signal.act \in Act
                                          /\ Assess(Page[m]).signal.issuer \in Issuer \cup {NoIssuer}
           /\ Ordinary(m) => Assess(Page[m]) = AssessGeneric(Page[m])
<1> DEFINE p == Page[m]
<1>0. /\ p.act \in Act \cup {NoAct} /\ p.issuer \in Issuer \cup {NoIssuer} /\ NoAct \notin Act
      /\ \A t \in p.titles : t.act \in Act \cup {NoAct} /\ t.issuer \in Issuer \cup {NoIssuer}
  BY DEF CorpusAssumption
<1> HIDE DEF p
<1>1. PICK source : source = Signal(p.act, p.issuer)
  OBVIOUS
<1>2. source.act = p.act /\ source.issuer = p.issuer
  BY <1>1 DEF Signal
<1>3. /\ \A signal, reason : /\ ~Unresolved(signal, reason).accepted
                             /\ Unresolved(signal, reason).signal = signal
      /\ \A signal : Accepted(signal).accepted /\ Accepted(signal).signal = signal
  BY DEF Unresolved, Accepted
<1>4. \/ AssessGeneric(p) = Accepted(source) /\ Complete(source) /\ p.heading = p.act /\ p.family = "normative"
      \/ \E reason : AssessGeneric(p) = Unresolved(source, reason)
  BY <1>1 DEF AssessGeneric
<1>5. \/ AssessFamily(p) = Accepted(source) /\ Complete(source)
      \/ \E t \in p.titles : AssessFamily(p) = Accepted(t) /\ Complete(t)
      \/ \E reason : AssessFamily(p) = Unresolved(source, reason)
  <2> DEFINE agreeing == {t \in p.titles : ~Contradicts(t, p)}
             title == CHOOSE t \in agreeing : TRUE
  <2>1. AssessFamily(p) =
          IF Cardinality(agreeing) > 1
          THEN Unresolved(source, "FAMILY_IDENTITY_AMBIGUOUS")
          ELSE IF agreeing # {}
          THEN IF Complete(title) THEN Accepted(title) ELSE Unresolved(source, "SOURCE_IDENTITY_UNRESOLVED")
          ELSE IF p.titles # {} THEN Unresolved(source, "SOURCE_IDENTITY_CONFLICT")
          ELSE IF ~Complete(source) THEN Unresolved(source, "SOURCE_IDENTITY_UNRESOLVED")
          ELSE Accepted(source)
    BY <1>1 DEF AssessFamily
  <2>2. agreeing # {} => title \in p.titles
    OBVIOUS
  <2> HIDE DEF agreeing, title
  <2> QED
    BY <2>1, <2>2
<1>6. \A signal : Complete(signal) => signal.act # NoAct
  BY DEF Complete
<1>7. AssessGeneric(p).signal.act = p.act
  BY <1>2, <1>3, <1>4
<1>8. AssessGeneric(p).accepted =>
         /\ p.family = "normative" /\ p.heading = p.act
         /\ AssessGeneric(p).signal.act \in Act /\ AssessGeneric(p).signal.issuer \in Issuer \cup {NoIssuer}
  BY <1>0, <1>2, <1>3, <1>4, <1>6
<1>9. AssessFamily(p).accepted =>
         AssessFamily(p).signal.act \in Act /\ AssessFamily(p).signal.issuer \in Issuer \cup {NoIssuer}
  BY <1>0, <1>2, <1>3, <1>5, <1>6
<1> QED
  BY <1>7, <1>8, <1>9 DEF p, Ordinary, Assess, IsFamily

LEMMA Unchanged ==
    ASSUME ActsInv, UNCHANGED <<ids, bound, cited>>, \A record \in pending' : record \in pending \/ Sound(record)
    PROVE  ActsInv'
<1>1. \A record \in pending' : Sound(record)
  BY DEF ActsInv
<1>2. \A record : Sound(record)' <=> Sound(record)
  BY DEF Sound
<1> QED
  BY <1>1, <1>2 DEF ActsInv, Sound

\* A page is bound to a document of the signal's act, which gets the signal's keys.
LEMMA BindingStep ==
    ASSUME CorpusAssumption, ActsInv, NEW m \in DOMAIN Page, NEW d \in Documents, NEW signal,
           BindTo(d, signal, m), d.act = signal.act,
           Ordinary(m) => signal.act = Page[m].act,
           \A c \in cited' : c \in cited \/ (c[1].act = c[2].act /\ Page[c[3]].act = c[2].act),
           \A record \in pending' : record \in pending \/ Sound(record)
    PROVE  ActsInv'
<1>1. ids' = [ids EXCEPT ![d] = Upsert(ids[d], signal)] /\ bound' = [bound EXCEPT ![m] = d]
  BY DEF BindTo
<1>2. \A i \in Upsert(ids[d], signal) : i \in ids[d] \/ i.key \in CanonicalKeys(signal)
  BY DEF Upsert
<1>3. \A i \in Upsert(ids[d], signal) : i.key.act = d.act
  BY <1>2, Keys DEF ActsInv
<1>4. /\ ids' = [x \in Documents |-> ids'[x]]
      /\ \A x \in Documents : \A i \in ids'[x] : i.key.act = x.act
  BY <1>1, <1>3 DEF ActsInv
<1>5. /\ bound' = [x \in DOMAIN bound' |-> bound'[x]] /\ DOMAIN bound' = DOMAIN bound
      /\ \A x \in DOMAIN bound : (bound'[x] = d /\ x = m) \/ bound'[x] = bound[x]
  BY <1>1 DEF ActsInv
<1>6. \A x \in DOMAIN bound' : /\ bound'[x] \in Documents \cup {NoDoc}
                               /\ bound'[x] # NoDoc /\ Ordinary(x) => bound'[x].act = Page[x].act
  BY <1>5 DEF ActsInv
<1>7. \A c \in cited' : c[1].act = c[2].act /\ Page[c[3]].act = c[2].act
  BY DEF ActsInv
<1>8. \A record \in pending' : Sound(record)
  BY DEF ActsInv
<1>9. DOMAIN bound' \subseteq DOMAIN Page
  BY <1>5 DEF ActsInv
<1>10. (\A record \in pending : Sound(record))'
  BY <1>8 DEF Sound
<1> QED
  BY <1>4, <1>5, <1>6, <1>7, <1>9, <1>10 DEF ActsInv

\* A page is unbound, or nothing of the identities changes but some evidence goes.
LEMMA UnbindingStep ==
    ASSUME ActsInv, UNCHANGED ids, cited' \subseteq cited,
           bound' = bound \/ \E m : bound' = [bound EXCEPT ![m] = NoDoc],
           \A record \in pending' : record \in pending \/ Sound(record)
    PROVE  ActsInv'
<1>1. /\ bound' = [x \in DOMAIN bound' |-> bound'[x]] /\ DOMAIN bound' = DOMAIN bound
      /\ \A x \in DOMAIN bound : bound'[x] = NoDoc \/ bound'[x] = bound[x]
  BY DEF ActsInv
<1>2. /\ \A x \in DOMAIN bound' : /\ bound'[x] \in Documents \cup {NoDoc}
                                  /\ bound'[x] # NoDoc /\ Ordinary(x) => bound'[x].act = Page[x].act
      /\ DOMAIN bound' \subseteq DOMAIN Page
  BY <1>1 DEF ActsInv
<1>3. (\A record \in pending : Sound(record))'
  BY DEF ActsInv, Sound
<1>4. \A c \in cited' : c[1].act = c[2].act /\ Page[c[3]].act = c[2].act
  BY DEF ActsInv
<1>5. ids' = [d \in Documents |-> ids'[d]] /\ \A d \in Documents : \A i \in ids'[d] : i.key.act = d.act
  BY DEF ActsInv
<1> QED
  BY <1>1, <1>2, <1>3, <1>4, <1>5 DEF ActsInv

LEMMA HomeForm ==
    ASSUME CorpusAssumption, ActsInv, NEW record, record.existing \in Documents \cup {NoDoc},
           NEW signal, signal.act \in Act, signal.issuer \in Issuer \cup {NoIssuer},
           NEW u, ~Misbound(record, signal, u)
    PROVE  Home(record, signal) \in Documents /\ Home(record, signal).act = signal.act
<1>1. CASE record.existing = NoDoc
  BY <1>1, Keys, KeyInDocuments DEF Home
<1>2. CASE record.existing # NoDoc /\ record.existing = CanonicalKey(signal)
  BY <1>2, Keys, KeyInDocuments DEF Home
<1>3. CASE record.existing # NoDoc /\ Equivalent(ids[record.existing], signal, u)
  <2>1. PICK r \in ids[record.existing] : r.key.act = signal.act
    BY <1>3 DEF Equivalent
  <2>2. record.existing.act = signal.act
    BY <1>3, <2>1 DEF ActsInv
  <2> QED
    BY <1>3, <2>2 DEF Home
<1> QED
  BY <1>1, <1>2, <1>3 DEF Misbound

LEMMA RejectStep ==
    ASSUME ActsInv, NEW record, NEW reason, Reject(record, reason),
           \A q \in pending' : q \in pending \/ Sound(q)
    PROVE  ActsInv'
<1>1. UNCHANGED <<ids, cited>> /\ (bound' = bound \/ bound' = [bound EXCEPT ![record.page] = NoDoc])
  BY DEF Reject
<1> QED
  BY <1>1, UnbindingStep

LEMMA IdentityActs ==
    ASSUME CorpusAssumption, ActsInv, NEW record \in pending, RegisterIdentity(record)
    PROVE  ActsInv'
<1> DEFINE m == record.page
           a == Assess(Page[m])
           conflict == a.accepted /\ Misbound(record, a.signal, IsFamily(Page[m]))
<1>1. record.tool = "identity" /\ Sound(record)
  BY DEF RegisterIdentity, Read, ActsInv
<1>2. m \in DOMAIN Page /\ record.existing \in Documents \cup {NoDoc}
  BY <1>1 DEF Sound
<1>3. CASE ~a.accepted \/ conflict
  <2>1. \E reason : Reject(record, reason)
    BY <1>3 DEF RegisterIdentity
  <2>2. pending' \subseteq pending
    BY <1>3 DEF RegisterIdentity, Finish
  <2> QED
    BY <2>1, <2>2, RejectStep
<1>4. CASE a.accepted /\ ~conflict
  <2>1. BindTo(Home(record, a.signal), a.signal, m) /\ UNCHANGED cited
    BY <1>4 DEF RegisterIdentity
  <2>2. \A q \in pending' : q \in pending \/ q.tool = "doctrine"
    BY <1>4 DEF RegisterIdentity, Finish, Continue
  <2>3. \A q : q.tool = "doctrine" => Sound(q)
    BY DEF Sound
  <2>4. a.signal.act \in Act /\ a.signal.issuer \in Issuer \cup {NoIssuer}
    BY <1>2, <1>4, Assessments
  <2>5. ~Misbound(record, a.signal, IsFamily(Page[m]))
    BY <1>4
  <2>6. Ordinary(m) => a.signal.act = Page[m].act
    BY <1>2, Assessments
  <2>7. Home(record, a.signal) \in Documents /\ Home(record, a.signal).act = a.signal.act
    BY <1>2, <2>4, <2>5, HomeForm
  <2> HIDE DEF a, m
  <2>8. PICK signal : signal = a.signal
    OBVIOUS
  <2>12. PICK d \in Documents : d = Home(record, signal)
    BY <2>7, <2>8
  <2>9. BindTo(d, signal, m) /\ d.act = signal.act /\ (Ordinary(m) => signal.act = Page[m].act)
    BY <2>1, <2>6, <2>7, <2>8, <2>12
  <2>11. \A c \in cited' : c \in cited \/ (c[1].act = c[2].act /\ Page[c[3]].act = c[2].act)
    BY <2>1
  <2>10. \A q \in pending' : q \in pending \/ Sound(q)
    BY <2>2, <2>3
  <2> QED
    BY <1>2, <2>9, <2>10, <2>11, BindingStep
<1> QED
  BY <1>3, <1>4

LEMMA SimpleActs ==
    ASSUME CorpusAssumption, ActsInv, NEW record \in pending, AssessSimple(record) \/ RegisterSimple(record)
    PROVE  ActsInv'
<1>1. Sound(record) /\ record.tool \in {"simple", "simple checked"}
  BY DEF ActsInv, AssessSimple, RegisterSimple, Read
<1>2. record.page \in DOMAIN Page /\ record.existing \in Documents \cup {NoDoc}
  BY <1>1 DEF Sound
<1>3. CASE AssessSimple(record)
  <2>1. CASE Ordinary(record.page)
    <3>1. PICK q : q = [tool |-> "simple checked", page |-> record.page, existing |-> record.existing]
      OBVIOUS
    <3>2. q.tool = "simple checked" /\ q.page = record.page /\ q.existing = record.existing
      BY <3>1
    <3>3. UNCHANGED <<ids, bound, cited>> /\ pending' = (pending \ {record}) \cup {q}
      BY <1>3, <2>1, <3>1 DEF AssessSimple, Continue, Ordinary, identity
    <3>4. Sound(q)
      BY <1>2, <2>1, <3>2 DEF Sound
    <3> QED
      BY <3>3, <3>4, Unchanged
  <2>2. CASE ~Ordinary(record.page)
    <3>1. Reject(record, AssessGeneric(Page[record.page]).reason) /\ pending' \subseteq pending
      BY <1>3, <2>2 DEF AssessSimple, Finish, Ordinary
    <3> QED
      BY <3>1, RejectStep
  <2> QED
    BY <2>1, <2>2
<1>4. CASE RegisterSimple(record)
  <2> DEFINE m == record.page
             signal == AssessGeneric(Page[m]).signal
             d == Home(record, signal)
             own == {Article(d, n) : n \in Page[m].articles}
  <2>1. Ordinary(m) /\ pending' \subseteq pending
    BY <1>1, <1>4 DEF Sound, RegisterSimple, Read, Finish
  <2>2. CASE Misbound(record, signal, FALSE)
    <3>1. Reject(record, "SOURCE_IDENTITY_CONFLICT")
      BY <1>4, <2>2 DEF RegisterSimple
    <3> QED
      BY <2>1, <3>1, RejectStep
  <2>3. CASE ~Misbound(record, signal, FALSE) /\ own = {}
    <3>1. UNCHANGED <<ids, bound, cited>>
      BY <1>4, <2>3 DEF RegisterSimple, identity
    <3> QED
      BY <2>1, <3>1, Unchanged
  <2>4. CASE ~Misbound(record, signal, FALSE) /\ own # {}
    <3>1. BindTo(d, signal, m) /\ cited' = cited \cup {<<d, k, m>> : k \in CanonicalKeys(signal)}
      BY <1>4, <2>4 DEF RegisterSimple
    <3>2. signal.act = Page[m].act /\ signal.act \in Act /\ signal.issuer \in Issuer \cup {NoIssuer}
      BY <1>2, <2>1, Assessments
    <3>3. d \in Documents /\ d.act = signal.act
      BY <1>2, <2>4, <3>2, HomeForm
    <3> HIDE DEF d, signal, m
    <3>4. \A c \in cited' : c \in cited \/ (c[1].act = c[2].act /\ Page[c[3]].act = c[2].act)
      <4> SUFFICES ASSUME NEW c \in cited', c \notin cited
                   PROVE  c[1].act = c[2].act /\ Page[c[3]].act = c[2].act
        OBVIOUS
      <4>0. PICK k \in CanonicalKeys(signal) : c = <<d, k, m>>
        BY <3>1
      <4>1. c[1] = d /\ c[2] = k /\ c[3] = m
        BY <4>0
      <4>2. k.act = signal.act
        BY Keys
      <4> QED
        BY <3>2, <3>3, <4>1, <4>2 DEF m
    <3> QED
      BY <1>2, <2>1, <3>1, <3>2, <3>3, <3>4, BindingStep DEF m
  <2> QED
    BY <2>2, <2>3, <2>4
<1> QED
  BY <1>3, <1>4

LEMMA CompiledActs ==
    ASSUME CorpusAssumption, ActsInv, NEW record \in pending, RegisterCompiled(record)
    PROVE  ActsInv'
<1> DEFINE m == record.page
           d == KeyOf(NoIssuer, Page[m].heading)
           row == [key |-> d, issuer |-> NoIssuer, primary |-> TRUE]
<1>1. Sound(record) /\ record.tool = "compiled" /\ pending' \subseteq pending
  BY DEF ActsInv, RegisterCompiled, Read, Finish
<1>2. m \in DOMAIN Page /\ Page[m].heading \in Act
  BY <1>1 DEF Sound, CorpusAssumption
<1>3. CASE record.existing \notin {NoDoc, d}
  <2>1. UNCHANGED <<ids, bound, cited>>
    BY <1>3 DEF RegisterCompiled, identity
  <2> QED
    BY <1>1, <2>1, Unchanged
<1>4. CASE record.existing \in {NoDoc, d}
  <2>1. /\ ids' = [ids EXCEPT ![d] = IF \E r \in @ : r.key = d THEN @ ELSE @ \cup {row}]
        /\ bound' = [bound EXCEPT ![m] = d] /\ UNCHANGED cited
    BY <1>4 DEF RegisterCompiled
  <2>2. d \in Documents /\ d.act = Page[m].heading
    BY <1>2 DEF KeyOf, Documents, Key
  <2>3. row.key = d
    OBVIOUS
  <2>4. Ordinary(m) => d.act = Page[m].act
    BY <1>2, <2>2, Assessments
  <2> HIDE DEF row, d, m
  <2>5. \A i \in ids'[d] : i \in ids[d] \/ i = row
    BY <2>1, <2>2 DEF ActsInv
  <2>6. /\ ids' = [x \in Documents |-> ids'[x]]
        /\ \A x \in Documents : \A i \in ids'[x] : i.key.act = x.act
    BY <2>1, <2>2, <2>3, <2>5 DEF ActsInv
  <2>7. /\ bound' = [x \in DOMAIN bound' |-> bound'[x]] /\ DOMAIN bound' = DOMAIN bound
        /\ \A x \in DOMAIN bound : (bound'[x] = d /\ x = m) \/ bound'[x] = bound[x]
    BY <2>1 DEF ActsInv
  <2>8. /\ \A x \in DOMAIN bound' : /\ bound'[x] \in Documents \cup {NoDoc}
                                    /\ bound'[x] # NoDoc /\ Ordinary(x) => bound'[x].act = Page[x].act
        /\ DOMAIN bound' \subseteq DOMAIN Page
    BY <2>2, <2>4, <2>7 DEF ActsInv
  <2>9. (\A q \in pending : Sound(q))'
    BY <1>1 DEF ActsInv, Sound
  <2> QED
    BY <2>1, <2>6, <2>7, <2>8, <2>9 DEF ActsInv
<1> QED
  BY <1>3, <1>4

LEMMA ReprocessActs ==
    ASSUME ActsInv, NEW record \in pending, ReprocessPage(record) PROVE ActsInv'
<1>1. pending' \subseteq pending
  BY DEF ReprocessPage, Finish
<1>2. CASE Incompatible(record.page, record.existing)
  <2>1. UNCHANGED ids /\ cited' \subseteq cited /\ bound' = [bound EXCEPT ![record.page] = NoDoc]
    BY <1>2 DEF ReprocessPage
  <2> QED
    BY <1>1, <2>1, UnbindingStep
<1>3. CASE ~Incompatible(record.page, record.existing)
  <2>1. UNCHANGED <<ids, bound, cited>>
    BY <1>3 DEF ReprocessPage, identity
  <2> QED
    BY <1>1, <2>1, Unchanged
<1> QED
  BY <1>2, <1>3

LEMMA CleanupActs == ASSUME ActsInv, Cleanup PROVE ActsInv'
<1> DEFINE gone == {d \in docs : Residue(d)}
<1>1. UNCHANGED <<cited, bound, pending>> /\ ids' = [d \in Documents |-> IF d \in gone THEN {} ELSE ids[d]]
  BY DEF Cleanup, Alone
<1> HIDE DEF gone
<1>2. /\ ids' = [d \in Documents |-> ids'[d]]
      /\ \A d \in Documents : \A i \in ids'[d] : i.key.act = d.act
  BY <1>1 DEF ActsInv
<1>3. (\A record \in pending : Sound(record))'
  BY <1>1 DEF ActsInv, Sound
<1> QED
  BY <1>1, <1>2, <1>3 DEF ActsInv

\* The plan of a migration gives every document a key of its own act.
LEMMA PlanActs == ASSUME CorpusAssumption, ActsInv, PlanMigration PROVE ActsInv'
<1> DEFINE single == {d \in LegacyDocuments \ Split : Unqualified(d)}
           moving == {m \in Movable : bound[m] \in Split}
           moves == {[page |-> m, from |-> bound[m]] : m \in moving}
           given == {[document |-> d, to |-> CHOOSE k \in Homes(d) : TRUE] : d \in single}
           record == [tool |-> "migrate", page |-> NoDoc, existing |-> NoDoc, moves |-> moves, single |-> given]
<1>1. UNCHANGED <<ids, bound, cited>> /\ pending' = pending \cup {record}
  BY DEF PlanMigration, Begin, identity
<1>2. record.tool = "migrate" /\ record.moves = moves /\ record.single = given
  OBVIOUS
<1>3. \A m \in Movable : m \in DOMAIN Page /\ Ordinary(m) /\ bound[m] # NoDoc /\ m \in DOMAIN bound
  BY DEF Movable, Manifestations, Ordinary, ActsInv
<1>4. \A v \in moves : v.page \in DOMAIN Page /\ Ordinary(v.page)
  BY <1>3
<1>5. ASSUME NEW s \in given PROVE s.to.act = s.document.act
  <2>1. PICK d \in single : s = [document |-> d, to |-> CHOOSE k \in Homes(d) : TRUE]
    OBVIOUS
  <2>2. PICK x \in Movable : d = bound[x]
    BY <2>1 DEF LegacyDocuments
  <2>3. Homes(d) # {}
    BY <1>3, <2>2 DEF Homes, Movers, Linked, Manifestations
  <2>4. s.document = d /\ s.to \in Homes(d)
    BY <2>1, <2>3
  <2>5. PICK m \in Movers(d) : s.to = NewHome(m)
    BY <2>4 DEF Homes
  <2>6. m \in Movable /\ bound[m] = d
    BY DEF Movers, Linked
  <2>7. NewHome(m).act = Page[m].act
    BY <1>3, <2>6, Keys, Assessments DEF NewHome
  <2>8. d.act = Page[m].act
    BY <1>3, <2>6 DEF ActsInv
  <2> QED
    BY <2>4, <2>5, <2>7, <2>8
<1> HIDE DEF record, moves, given
<1>6. Sound(record)
  BY <1>2, <1>4, <1>5 DEF Sound
<1> QED
  BY <1>1, <1>6, Unchanged

\* Applying it keeps the documents and their evidence to one act.
LEMMA MigrationActs ==
    ASSUME CorpusAssumption, ActsInv, NEW record \in pending, ApplyMigration(record) PROVE ActsInv'
<1>1. Sound(record) /\ record.tool = "migrate" /\ pending' \subseteq pending
  BY DEF ActsInv, ApplyMigration, Read, Finish
<1>2. CASE ~Applicable(record)
  <2>1. UNCHANGED <<ids, bound, cited>>
    BY <1>2 DEF ApplyMigration, identity
  <2> QED
    BY <1>1, <2>1, Unchanged
<1>3. CASE Applicable(record)
  <2> DEFINE old == Parting(record)
  <2>1. /\ ids' = [d \in Documents |-> Renamed(record, d)] /\ cited' = CitedAfter(record)
        /\ bound' = [m \in Manifestations |-> IF \E v \in record.moves : v.page = m THEN NewHome(m)
                                              ELSE IF bound[m] \in old THEN NoDoc ELSE bound[m]]
    BY <1>3 DEF ApplyMigration
  <2>2. /\ \A v \in record.moves : v.page \in DOMAIN Page /\ Ordinary(v.page)
        /\ \A s \in record.single : s.to.act = s.document.act
    BY <1>1 DEF Sound
  <2>3. ASSUME NEW m \in DOMAIN Page PROVE NewHome(m).act = Page[m].act
    BY Keys, Assessments DEF NewHome
  <2>4. ASSUME NEW m \in DOMAIN Page, Ordinary(m) PROVE NewHome(m) \in Documents
    BY <2>4, KeyInDocuments, Assessments DEF NewHome
  <2> HIDE DEF old
  <2>5. /\ DOMAIN bound' = DOMAIN bound /\ bound' = [m \in DOMAIN bound' |-> bound'[m]]
        /\ \A m \in DOMAIN bound : /\ bound'[m] \in Documents \cup {NoDoc}
                                   /\ bound'[m] # NoDoc /\ Ordinary(m) => bound'[m].act = Page[m].act
    BY <2>1, <2>2, <2>3, <2>4 DEF ActsInv, Manifestations
  <2>6. ASSUME NEW d \in Documents, NEW i \in Renamed(record, d) PROVE i.key.act = d.act
    <3> DEFINE arriving == {v.page : v \in {v \in record.moves : NewHome(v.page) = d}}
               given == {s \in record.single : s.document = d}
               signal == AssessGeneric(Page[CHOOSE m \in arriving : TRUE]).signal
               to == (CHOOSE s \in given : TRUE).to
    <3>0. /\ d \notin old
          /\ i \in IF arriving # {} THEN Upsert(ids[d], signal)
                   ELSE IF given # {} THEN Qualify(ids[d], to) ELSE ids[d]
      BY DEF Renamed, old
    <3>1. \A r \in ids[d] : r.key.act = d.act
      BY DEF ActsInv
    <3>2. CASE arriving # {}
      <4>1. PICK m \in arriving : signal = AssessGeneric(Page[m]).signal
        BY <3>2
      <4>2. m \in DOMAIN Page /\ NewHome(m) = d
        BY <2>2
      <4>3. signal.act = d.act
        BY <2>3, <4>1, <4>2, Assessments
      <4>4. i \in Upsert(ids[d], signal)
        BY <3>0, <3>2
      <4> HIDE DEF signal
      <4>5. i \in ids[d] \/ i.key \in CanonicalKeys(signal)
        BY <4>4 DEF Upsert
      <4> QED
        BY <3>1, <4>3, <4>5, Keys
    <3>3. CASE arriving = {} /\ given # {}
      <4>1. to.act = d.act
        BY <2>2, <3>3
      <4>2. i \in Qualify(ids[d], to)
        BY <3>0, <3>3
      <4> HIDE DEF to
      <4>3. i.key = to \/ \E r \in ids[d] : i.key = r.key
        BY <4>2 DEF Qualify
      <4> QED
        BY <3>1, <4>1, <4>3
    <3>4. CASE arriving = {} /\ given = {}
      BY <3>0, <3>1, <3>4
    <3> QED
      BY <3>2, <3>3, <3>4
  <2>7. ASSUME NEW c \in cited' PROVE c[1].act = c[2].act /\ Page[c[3]].act = c[2].act
    <3> DEFINE kept == {x \in cited : x[1] \notin Parting(record)}
               moved == {x \in cited : x[1] \in Parting(record) /\ x[3] \in Leaving(record, x[1])}
               given == {x \in cited : \E s \in record.single : s.document = x[1]}
               shifted == UNION {Reissued(x) : x \in moved}
               qualified == {<<x[1], (CHOOSE s \in record.single : s.document = x[1]).to, x[3]>> : x \in given}
    <3>5. cited' = kept \cup shifted \cup qualified
      BY <2>1 DEF CitedAfter
    <3>6. c \in shifted => \E x \in moved : c \in Reissued(x)
      OBVIOUS
    <3>7. c \in qualified => \E x \in given : c = <<x[1], (CHOOSE s \in record.single : s.document = x[1]).to, x[3]>>
      OBVIOUS
    <3>8. c \in kept \/ c \in shifted \/ c \in qualified
      <4> HIDE DEF kept, shifted, qualified
      <4> QED
        BY <3>5
    <3>1. \A x \in cited : x[1].act = x[2].act /\ Page[x[3]].act = x[2].act
      BY DEF ActsInv
    <3>2. CASE c \in kept
      BY <3>1, <3>2
    <3>3. CASE c \in shifted
      <4>1. PICK x \in moved : c \in Reissued(x)
        BY <3>3, <3>6
      <4>2. PICK k \in CanonicalKeys(AssessGeneric(Page[x[3]]).signal) : c = <<NewHome(x[3]), k, x[3]>>
        BY <4>1 DEF Reissued
      <4>3. x[3] \in DOMAIN Page
        BY <2>2 DEF Leaving
      <4>4. k.act = Page[x[3]].act
        BY <4>3, Keys, Assessments
      <4>5. c[1] = NewHome(x[3]) /\ c[2] = k /\ c[3] = x[3]
        BY <4>2
      <4> QED
        BY <2>3, <4>3, <4>4, <4>5
    <3>4. CASE c \in qualified
      <4>1. PICK x \in given : c = <<x[1], (CHOOSE s \in record.single : s.document = x[1]).to, x[3]>>
        BY <3>4, <3>7
      <4>2. PICK s \in record.single : s.document = x[1] /\ s = CHOOSE q \in record.single : q.document = x[1]
        OBVIOUS
      <4>3. c[1] = x[1] /\ c[2] = s.to /\ c[3] = x[3]
        BY <4>1, <4>2
      <4>4. s.to.act = x[1].act
        BY <2>2, <4>2
      <4> QED
        BY <3>1, <4>3, <4>4
    <3> QED
      BY <3>2, <3>3, <3>4, <3>8
  <2>8. (\A q \in pending : Sound(q))'
    BY <1>1 DEF ActsInv, Sound
  <2>9. ids' = [d \in Documents |-> ids'[d]] /\ \A d \in Documents : \A i \in ids'[d] : i.key.act = d.act
    BY <2>1, <2>6
  <2>10. DOMAIN bound' \subseteq DOMAIN Page
    BY <2>5 DEF ActsInv
  <2> QED
    BY <2>5, <2>7, <2>8, <2>9, <2>10 DEF ActsInv
<1> QED
  BY <1>2, <1>3

\* A run starts by reading a binding, or does not touch what the pages are bound to.
LEMMA StartActs ==
    ASSUME CorpusAssumption, ActsInv, NEW m \in Manifestations, StartRun(m) PROVE ActsInv'
<1>0. m \in DOMAIN Page /\ bound[m] \in Documents \cup {NoDoc}
  BY DEF ActsInv, Manifestations
<1>1. ASSUME NEW tool, ReadBinding(tool, m),
             tool \in {"identity", "simple", "reprocess"} \/ (tool = "compiled" /\ Page[m].heading # NoAct)
      PROVE  ActsInv'
  <2>1. PICK record : record = [tool |-> tool, page |-> m, existing |-> bound[m]]
    OBVIOUS
  <2>2. UNCHANGED <<ids, bound, cited>> /\ pending' = pending \cup {record}
    BY <1>1, <2>1 DEF ReadBinding, Begin, identity
  <2>3. Sound(record)
    BY <1>0, <1>1, <2>1 DEF Sound
  <2> QED
    BY <2>2, <2>3, Unchanged
<1>2. ASSUME NEW record, Begin(record), UNCHANGED identity,
             record.tool \in {"resolve", "canonical", "operational", "editorial"}
      PROVE  ActsInv'
  <2>1. Sound(record)
    BY <1>2 DEF Sound
  <2> QED
    BY <1>2, <2>1, Unchanged DEF Begin, identity
<1>3. CASE DetectConflicts(m) \/ DateDocument(m)
  BY <1>3, Unchanged DEF DetectConflicts, DateDocument, Alone, identity
<1>4. CASE ReadFirst(m)
  <2>1. PICK x \in MentionsOf(m) :
               /\ Begin([tool |-> "resolve", page |-> m, existing |-> NoDoc,
                         first |-> x, answer |-> ResolveOne(Mention[x])])
               /\ UNCHANGED identity
    BY <1>4 DEF ReadFirst
  <2> QED
    BY <1>2, <2>1
<1>5. ASSUME NEW p \in {"canonical", "operational", "editorial"}, ReadRelations(p, m) PROVE ActsInv'
  <2>1. \E rows : Begin([tool |-> p, page |-> m, existing |-> bound[m], rows |-> rows])
    BY <1>5 DEF ReadRelations
  <2>2. UNCHANGED identity
    BY <1>5 DEF ReadRelations
  <2> QED
    BY <1>2, <2>1, <2>2
<1>6. CASE ReadLink(m)
  BY <1>1, <1>6 DEF ReadLink
<1>7. CASE \/ ReadBinding("identity", m) \/ ReadBinding("simple", m)
           \/ Page[m].heading # NoAct /\ ReadBinding("compiled", m)
  BY <1>1, <1>7
<1> QED
  BY <1>3, <1>4, <1>5, <1>6, <1>7 DEF StartRun

LEMMA EndActs ==
    ASSUME CorpusAssumption, ActsInv, NEW record \in pending, EndRun(record) PROVE ActsInv'
<1>1. CASE DescribeDoctrine(record)
  BY <1>1, Unchanged DEF DescribeDoctrine, Finish
<1>2. CASE Resolve(record)
  BY <1>2, Unchanged DEF Resolve, Finish, identity
<1>3. CASE PromoteRelations(record)
  BY <1>3, Unchanged DEF PromoteRelations, Finish, identity
<1> QED
  BY <1>1, <1>2, <1>3, IdentityActs, SimpleActs, CompiledActs, ReprocessActs, MigrationActs DEF EndRun

LEMMA ActsInvInit == ASSUME CorpusAssumption, CorpusInit PROVE ActsInv
<1>1. PICK old \in Bindings : Registered(old)
  BY DEF CorpusInit
<1>2. /\ bound = old /\ cited = {} /\ pending = {}
      /\ \E held : ids = [d \in Documents |->
                        IF d \in held THEN {[key |-> d, issuer |-> NoIssuer, primary |-> TRUE]} ELSE {}]
  BY <1>1 DEF Registered
<1>3. ids = [d \in Documents |-> ids[d]] /\ \A d \in Documents : \A i \in ids[d] : i.key.act = d.act
  BY <1>2
<1>4. /\ DOMAIN old \subseteq DOMAIN Page /\ old = [m \in DOMAIN old |-> old[m]]
      /\ \A m \in DOMAIN old : /\ old[m] \in Documents \cup {NoDoc}
                                /\ old[m] # NoDoc /\ Ordinary(m) => old[m].act = Page[m].act
  BY DEF CorpusAssumption, Ordinary
<1> QED
  BY <1>2, <1>3, <1>4 DEF ActsInv

LEMMA ActsInvNext == ASSUME CorpusAssumption, ActsInv, [CorpusNext]_corpus PROVE ActsInv'
<1>1. CASE UNCHANGED corpus
  BY <1>1, Unchanged DEF corpus, identity
<1> QED
  BY <1>1, StartActs, EndActs, CleanupActs, PlanActs DEF CorpusNext

LEMMA ActsInvHolds == CorpusSpec => []ActsInv
  BY CorpusAssumption, ActsInvInit, ActsInvNext, PTL DEF CorpusSpec

\* Whatever the order of registrars, migrations and reprocessing, every key of
\* a document and every evidence of one names the document's act.
THEOREM DocumentsAnswerToOneAct == CorpusSpec => []ActsApart
<1>1. ActsInv => ActsApart
  BY DEF ActsInv, ActsApart
<1> QED
  BY <1>1, ActsInvHolds, PTL

-----------------------------------------------------------------------------
(* Maintenance: nothing is left that points to what is gone.               *)

\* A relationship starts at an article, or at a document by its "none" article.
StartsInv == \A r \in relationships : r.from = Article(r.from.document, r.from.designation)

LEMMA StartsInvNext == ASSUME StartsInv, [CorpusNext]_corpus PROVE StartsInv'
<1>1. ASSUME relationships' \subseteq relationships PROVE StartsInv'
  BY <1>1 DEF StartsInv
<1>2. ASSUME NEW m \in Manifestations, StartRun(m) PROVE relationships' = relationships
  BY <1>2 DEF StartRun, ReadBinding, DetectConflicts, DateDocument, ReadFirst, ReadLink, ReadRelations, graph
<1>3. ASSUME NEW record \in pending, PromoteRelations(record) PROVE StartsInv'
  <2> DEFINE usable == {row \in record.rows : SourceKnown(record, row.mention)}
             made == {Relationship(record, row) : row \in usable}
  <2>1. relationships' = relationships \/ relationships' = relationships \cup made
    BY <1>3 DEF PromoteRelations
  <2>2. ASSUME NEW x PROVE From(record, x) = Article(From(record, x).document, From(record, x).designation)
    BY DEF From, Article
  <2>3. \A r \in made : \E x : r.from = From(record, x)
    BY DEF Relationship
  <2> HIDE DEF made
  <2>4. \A r \in made : r.from = Article(r.from.document, r.from.designation)
    <3> SUFFICES ASSUME NEW r \in made PROVE r.from = Article(r.from.document, r.from.designation)
      OBVIOUS
    <3>1. PICK x : r.from = From(record, x)
      BY <2>3
    <3> QED
      BY <2>2, <3>1
  <2> QED
    BY <2>1, <2>4 DEF StartsInv
<1>4. ASSUME NEW record \in pending, EndRun(record), ~PromoteRelations(record)
      PROVE  relationships' \subseteq relationships
  BY <1>4 DEF EndRun, RegisterIdentity, DescribeDoctrine, AssessSimple, RegisterSimple, RegisterCompiled,
              Resolve, ReprocessPage, ApplyMigration, graph
<1>5. CASE Cleanup \/ PlanMigration \/ UNCHANGED corpus
  BY <1>1, <1>5 DEF Cleanup, PlanMigration, corpus, graph
<1> QED
  BY <1>1, <1>2, <1>3, <1>4, <1>5 DEF CorpusNext

LEMMA CleanupKeepsGraph == ASSUME StartsInv, Cleanup PROVE Dangling' \subseteq Dangling
<1> DEFINE gone == {d \in docs : Residue(d)}
<1>1. /\ docs' = docs \ gone
      /\ UNCHANGED <<articles, relationships, resolved>>
  BY DEF Cleanup, text, graph
<1>2. \A d \in gone : /\ \A x \in Mentions : resolved[x].document # d
                      /\ \A r \in relationships : r.from # Article(d, "none")
  BY DEF Residue, InUse
<1> HIDE DEF gone
<1>3. ASSUME NEW r \in relationships, r.from.designation = "none", r.from.document \in gone
      PROVE  FALSE
  BY <1>2, <1>3 DEF StartsInv
<1> QED
  BY <1>1, <1>2, <1>3 DEF Dangling

LEMMA MigrationKeepsGraph ==
    ASSUME StartsInv, NEW record \in pending, ApplyMigration(record) PROVE Dangling' \subseteq Dangling
<1>1. CASE ~Applicable(record)
  BY <1>1 DEF ApplyMigration, identity, text, graph, Dangling
<1>2. CASE Applicable(record)
  <2> DEFINE old == Parting(record)
             ended == Ending(record)
             loose == Unresolving(record)
  <2>1. /\ docs \ old \subseteq docs' /\ articles \ OldArticles(record) \subseteq articles'
        /\ relationships' = relationships \ ended
        /\ resolved' = [x \in Mentions |-> IF x \in loose THEN NoTarget ELSE resolved[x]]
    BY <1>2 DEF ApplyMigration, MovedText
  <2>2. ASSUME NEW r \in relationships'
        PROVE  /\ r.to \notin articles' => r.to \notin articles
               /\ r.from \notin articles' => r.from \notin articles
               /\ r.from.designation = "none" /\ r.from.document \notin docs' => r.from.document \notin docs
    <3>1. r \in relationships /\ r \notin ended
      BY <2>1
    <3>2. r.to \notin OldArticles(record) /\ r.from \notin OldArticles(record)
      BY <3>1 DEF Ending
    <3>3. \A d \in old : r.from # Article(d, "none")
      BY <3>1 DEF Ending
    <3>4. r.from = Article(r.from.document, r.from.designation)
      BY <3>1 DEF StartsInv
    <3>5. r.from.designation = "none" => r.from.document \notin old
      BY <3>3, <3>4
    <3> HIDE DEF old, ended
    <3> QED
      BY <2>1, <3>2, <3>5
  <2>3. ASSUME NEW x \in Mentions
        PROVE  /\ resolved'[x].document \notin docs' \cup {NoDoc}
                     => resolved[x].document \notin docs \cup {NoDoc}
               /\ resolved'[x].article \notin articles' \cup {NoDoc}
                     => resolved[x].article \notin articles \cup {NoDoc}
    <3>1. CASE x \in loose
      <4>1. resolved'[x].document = NoDoc /\ resolved'[x].article = NoDoc
        BY <2>1, <3>1 DEF NoTarget, Target
      <4> QED
        BY <4>1
    <3>2. CASE x \notin loose
      <4>1. resolved[x].document \notin old /\ resolved[x].article \notin OldArticles(record)
        BY <3>2 DEF Unresolving
      <4>2. resolved'[x] = resolved[x]
        BY <2>1, <3>2
      <4> HIDE DEF old, loose
      <4> QED
        BY <2>1, <4>1, <4>2
    <3> QED
      BY <3>1, <3>2
  <2>4. relationships' \subseteq relationships
    BY <2>1
  <2> HIDE DEF old, ended, loose
  <2> QED
    BY <2>2, <2>3, <2>4 DEF Dangling
<1> QED
  BY <1>1, <1>2

\* Neither cleanup nor a migration leaves a relationship or a resolution that
\* points to nothing, though no foreign key guards the ends of a relationship.
THEOREM NothingIsLeftDangling == CorpusSpec => MaintenanceKeepsGraph
<1>1. CorpusInit => StartsInv
  BY DEF CorpusInit, Registered, StartsInv
<1>2. StartsInv /\ [CorpusNext]_corpus => StartsInv'
  BY StartsInvNext
<1>3. StartsInv => [Cleanup \/ Migrating => Dangling' \subseteq Dangling]_corpus
  BY CleanupKeepsGraph, MigrationKeepsGraph DEF Migrating
<1> QED
  BY <1>1, <1>2, <1>3, PTL DEF CorpusSpec, MaintenanceKeepsGraph

-----------------------------------------------------------------------------
(* Homes: what a document's rows say of its authority, where the pages are,  *)
(* and what a planned migration may count on.                                *)

\* A document a migration may be about: the older key of an act that several authorities
\* number alike.
Shared(d) == d.issuer = NoIssuer /\ d.act \in Scoped /\ d.act \in Generic

\* An ordinary page is bound by the older key of its act or by its own.
Lies(m, d) == d # NoDoc /\ Ordinary(m) => d \in {KeyOf(NoIssuer, Page[m].act), NewHome(m)}

\* The rows of a document: the older key is among them, and only a migration brings
\* another one, or an issuer, to a shared document.
Rows ==
    /\ docs \subseteq Documents /\ migrated \subseteq docs
    /\ \A d \in docs : /\ \E i \in ids[d] : i.key = KeyOf(NoIssuer, d.act)
                       /\ d.issuer = NoIssuer \/ d.act \in Scoped
    /\ \A d \in Documents \ docs : ids[d] = {}
    /\ \A d \in Documents \ migrated : Shared(d) =>
          \A i \in ids[d] : i.issuer = NoIssuer /\ i.key.issuer = NoIssuer

Bound == \A m \in DOMAIN bound : Lies(m, bound[m])

\* What was seen of an article is seen in a page that is there, of an article that is.
Texts ==
    \A o \in observed : /\ o = <<o[1], o[2]>> /\ o[1] \in DOMAIN bound /\ o[2] \in articles
                        /\ o[2].document \in Documents
                        /\ o[2] = Article(o[2].document, o[2].designation)

Sees(m, d) == \E o \in observed : o[1] = m /\ o[2].document = d

\* What a tool in the middle of a run may count on.  The pages of a document that a
\* planned migration divides are of the plan, or something of the document is seen in them.
Aware(record) ==
    /\ record.tool \in {"identity", "simple", "simple checked", "compiled", "reprocess"} =>
          record.page \in DOMAIN bound /\ Lies(record.page, record.existing)
    /\ record.tool = "compiled" => Page[record.page].compiled # {}
    /\ record.tool = "migrate" =>
          /\ \A v \in record.moves : /\ v.page \in DOMAIN bound /\ Ordinary(v.page)
                                     /\ v.from \in Documents /\ Shared(v.from)
                                     /\ v.from = KeyOf(NoIssuer, Page[v.page].act)
          /\ \A s \in record.single : /\ s.document \in Documents \ Parting(record)
                                      /\ Shared(s.document) /\ s.to.issuer # NoIssuer /\ s.to \in Documents
          /\ \A m \in DOMAIN bound, d \in Parting(record) \ migrated :
                bound[m] = d => m \in Leaving(record, d) \/ Sees(m, d)

HomesInv == Rows /\ Bound /\ Texts /\ \A record \in pending : Aware(record)

\* What the assessments give for issuers.
LEMMA Issuers ==
    ASSUME CorpusAssumption, TypesAssumption, NEW m \in DOMAIN Page
    PROVE  /\ Ordinary(m) =>
                /\ AssessGeneric(Page[m]).signal = Signal(Page[m].act, Page[m].issuer)
                /\ Page[m].act \in Act /\ Page[m].act \in Generic /\ ~IsFamily(Page[m])
                /\ Page[m].act \in Scoped => Page[m].issuer # NoIssuer
                /\ Page[m].act \in Scoped => NewHome(m) = KeyOf(Page[m].issuer, Page[m].act)
                /\ Page[m].act \notin Scoped => NewHome(m) = KeyOf(NoIssuer, Page[m].act)
           /\ Assess(Page[m]).accepted =>
                \/ Ordinary(m)
                \/ IsFamily(Page[m]) /\ Assess(Page[m]).signal.act \in Scoped \ Generic
           /\ Assess(Page[m]).accepted /\ Assess(Page[m]).signal.act \in Scoped =>
                Assess(Page[m]).signal.issuer # NoIssuer
<1> DEFINE p == Page[m]
<1>0. /\ p.heading \in Generic \cup {NoAct}
      /\ IsFamily(p) => \A act \in {p.act} \cup {t.act : t \in p.titles} : act \in Scoped \ Generic \/ act = NoAct
  BY DEF TypesAssumption
<1> HIDE DEF p
<1>1. PICK source : source = Signal(p.act, p.issuer)
  OBVIOUS
<1>2. source.act = p.act /\ source.issuer = p.issuer
  BY <1>1 DEF Signal
<1>3. /\ \A signal, reason : ~Unresolved(signal, reason).accepted
      /\ \A signal : Accepted(signal).accepted /\ Accepted(signal).signal = signal
  BY DEF Unresolved, Accepted
<1>4. \/ AssessGeneric(p) = Accepted(source) /\ Complete(source) /\ p.heading = p.act /\ p.heading # NoAct
      \/ \E reason : AssessGeneric(p) = Unresolved(source, reason)
  BY <1>1 DEF AssessGeneric
<1>5. \/ AssessFamily(p) = Accepted(source) /\ Complete(source)
      \/ \E t \in p.titles : AssessFamily(p) = Accepted(t) /\ Complete(t)
      \/ \E reason : AssessFamily(p) = Unresolved(source, reason)
  <2> DEFINE agreeing == {t \in p.titles : ~Contradicts(t, p)}
             title == CHOOSE t \in agreeing : TRUE
  <2>1. AssessFamily(p) =
          IF Cardinality(agreeing) > 1
          THEN Unresolved(source, "FAMILY_IDENTITY_AMBIGUOUS")
          ELSE IF agreeing # {}
          THEN IF Complete(title) THEN Accepted(title) ELSE Unresolved(source, "SOURCE_IDENTITY_UNRESOLVED")
          ELSE IF p.titles # {} THEN Unresolved(source, "SOURCE_IDENTITY_CONFLICT")
          ELSE IF ~Complete(source) THEN Unresolved(source, "SOURCE_IDENTITY_UNRESOLVED")
          ELSE Accepted(source)
    BY <1>1 DEF AssessFamily
  <2>2. agreeing # {} => title \in p.titles
    OBVIOUS
  <2> HIDE DEF agreeing, title
  <2> QED
    BY <2>1, <2>2
<1>6. \A signal : Complete(signal) =>
         signal.act # NoAct /\ (signal.act \in Scoped => signal.issuer # NoIssuer)
  BY DEF Complete
<1>7. AssessGeneric(p).accepted =>
         /\ AssessGeneric(p).signal = source /\ p.act \in Generic /\ p.act \in Act
         /\ (p.act \in Scoped => p.issuer # NoIssuer) /\ p.family = "normative"
  <2>1. p.heading = p.act /\ p.heading # NoAct => p.act \in Generic
    BY <1>0
  <2>2. AssessGeneric(p).accepted => p.act \in Act /\ p.family = "normative"
    BY Assessments DEF p, Ordinary
  <2> QED
    BY <1>2, <1>3, <1>4, <1>6, <2>1, <2>2
<1>8. IsFamily(p) /\ AssessFamily(p).accepted =>
         /\ AssessFamily(p).signal.act \in Scoped \ Generic
         /\ AssessFamily(p).signal.issuer # NoIssuer
  BY <1>0, <1>2, <1>3, <1>5, <1>6
<1>9. AssessGeneric(p).accepted =>
         NewHome(m) = KeyOf(IF p.act \in Scoped THEN p.issuer ELSE NoIssuer, p.act)
  BY <1>2, <1>7 DEF NewHome, CanonicalKey, p
<1> QED
  BY <1>1, <1>2, <1>3, <1>7, <1>8, <1>9 DEF p, Ordinary, Assess, IsFamily

-----------------------------------------------------------------------------
\* d answers to the signal of page m, and m may be bound to it.
Joins(m, d, signal) ==
    /\ m \in DOMAIN bound /\ d \in Documents /\ d.act = signal.act /\ Lies(m, d)
    /\ signal.issuer \in Issuer \cup {NoIssuer}
    /\ signal.act \in Scoped => signal.issuer # NoIssuer
    /\ \/ Ordinary(m) /\ signal = Signal(Page[m].act, Page[m].issuer) /\ signal.act \in Generic
       \/ ~Ordinary(m) /\ signal.act \in Scoped \ Generic
    /\ \/ d = CanonicalKey(signal)
       \/ Equivalent(ids[d], signal, signal.act \notin Generic)

\* A page that is accepted is bound to a document that answers to its signal.
LEMMA HomeJoins ==
    ASSUME CorpusAssumption, TypesAssumption, ActsInv, HomesInv, NEW record \in pending,
           record.tool \in {"identity", "simple checked"}, NEW a, NEW u,
           a = Assess(Page[record.page]) \/ (Ordinary(record.page) /\ a = AssessGeneric(Page[record.page])),
           a.accepted, ~Misbound(record, a.signal, u),
           u = IsFamily(Page[record.page]) \/ u = FALSE
    PROVE  Joins(record.page, Home(record, a.signal), a.signal)
<1> DEFINE m == record.page
           d == Home(record, a.signal)
<1>1. m \in DOMAIN bound /\ Lies(m, record.existing)
  BY DEF HomesInv, Aware
<1>2. m \in DOMAIN Page /\ record.existing \in Documents \cup {NoDoc}
  BY DEF ActsInv, Sound
<1>3. a = Assess(Page[m])
  BY <1>2, Assessments
<1>4. a.signal.act \in Act /\ a.signal.issuer \in Issuer \cup {NoIssuer}
  BY <1>2, <1>3, Assessments
<1>5. d \in Documents /\ d.act = a.signal.act
  BY <1>2, <1>4, HomeForm
<1>6. /\ a.signal.act \in Scoped => a.signal.issuer # NoIssuer
      /\ \/ /\ Ordinary(m) /\ a.signal = Signal(Page[m].act, Page[m].issuer)
            /\ Page[m].act \in Generic /\ ~IsFamily(Page[m])
         \/ ~Ordinary(m) /\ IsFamily(Page[m]) /\ a.signal.act \in Scoped \ Generic
  BY <1>2, <1>3, Assessments, Issuers
<1>7. Signal(Page[m].act, Page[m].issuer).act = Page[m].act
  BY DEF Signal
<1>8. u => a.signal.act \notin Generic
  BY <1>6, <1>7
<1>9. d = CanonicalKey(a.signal) \/ Equivalent(ids[d], a.signal, a.signal.act \notin Generic)
  <2>1. CASE record.existing \in {NoDoc, CanonicalKey(a.signal)}
    BY <2>1 DEF Home
  <2>2. CASE record.existing # NoDoc /\ Equivalent(ids[record.existing], a.signal, u)
    BY <1>8, <2>2 DEF Home, Equivalent
  <2> QED
    BY <2>1, <2>2 DEF Misbound
<1>10. Lies(m, d)
  <2>1. CASE record.existing = NoDoc
    <3>1. d = CanonicalKey(a.signal)
      BY <2>1 DEF Home
    <3>2. Ordinary(m) => a = AssessGeneric(Page[m])
      BY <1>2, <1>3, Assessments
    <3> QED
      BY <3>1, <3>2 DEF Lies, NewHome
  <2>2. CASE record.existing # NoDoc
    BY <1>1, <2>2 DEF Home
  <2> QED
    BY <2>1, <2>2
<1> QED
  BY <1>1, <1>4, <1>5, <1>6, <1>7, <1>9, <1>10 DEF Joins

\* Nobody joins a shared document that was not migrated: a qualified key is not its own,
\* and it has no other that an ordinary act could answer to.
LEMMA NobodyJoins ==
    ASSUME Rows, NEW m, NEW d \in Documents, NEW signal, Joins(m, d, signal), Shared(d)
    PROVE  d \in migrated
<1>1. d # CanonicalKey(signal)
  BY DEF Joins, Shared, CanonicalKey, KeyOf
<1>2. signal.act \in Generic /\ signal.act \in Scoped /\ signal.issuer # NoIssuer
  BY DEF Joins, Shared
<1>3. PICK r \in ids[d] : r.key.act = signal.act /\ r.key.issuer # NoIssuer
  BY <1>1, <1>2 DEF Joins, Equivalent
<1> QED
  BY <1>3 DEF Rows

\* Rows after a page has joined.
LEMMA RowsOfJoin ==
    ASSUME ActsInv, Rows, NEW m, NEW d, NEW signal, Joins(m, d, signal), BindTo(d, signal, m)
    PROVE  Rows'
<1>1. /\ docs' = docs \cup {d} /\ migrated' = migrated /\ d \in Documents
      /\ ids' = [ids EXCEPT ![d] = Upsert(ids[d], signal)]
  BY DEF BindTo, Joins
<1>2. \E i \in Upsert(ids[d], signal) : i.key = KeyOf(NoIssuer, d.act)
  <2>1. KeyOf(NoIssuer, signal.act) \in CanonicalKeys(signal)
    BY DEF CanonicalKeys
  <2>2. PICK k : k = KeyOf(NoIssuer, signal.act)
    OBVIOUS
  <2>3. PICK i : i = [key |-> k, issuer |-> signal.issuer, primary |-> k = CanonicalKey(signal)]
    OBVIOUS
  <2>4. i \in Upsert(ids[d], signal) /\ i.key = k
    BY <2>1, <2>2, <2>3 DEF Upsert
  <2> QED
    BY <2>2, <2>4 DEF Joins
<1>3. d.issuer = NoIssuer \/ d.act \in Scoped
  <2>1. CASE d = CanonicalKey(signal)
    BY <2>1 DEF CanonicalKey, KeyOf
  <2>2. CASE Equivalent(ids[d], signal, signal.act \notin Generic)
    BY <1>1, <2>2 DEF Rows, Equivalent
  <2> QED
    BY <2>1, <2>2 DEF Joins
<1>4. Shared(d) => d \in migrated
  BY <1>1, NobodyJoins
<1>5. \A x \in Documents : ids'[x] = IF x = d THEN Upsert(ids[d], signal) ELSE ids[x]
  BY <1>1 DEF ActsInv
<1>6. /\ docs' \subseteq Documents /\ migrated' \subseteq docs'
      /\ \A x \in docs' : /\ \E i \in ids'[x] : i.key = KeyOf(NoIssuer, x.act)
                          /\ x.issuer = NoIssuer \/ x.act \in Scoped
      /\ \A x \in Documents \ docs' : ids'[x] = {}
  BY <1>1, <1>2, <1>3, <1>5 DEF Rows
<1>7. \A x \in Documents \ migrated' : Shared(x) =>
         \A i \in ids'[x] : i.issuer = NoIssuer /\ i.key.issuer = NoIssuer
  BY <1>1, <1>4, <1>5 DEF Rows
<1> QED
  BY <1>6, <1>7 DEF Rows, Shared

\* What is known stays known unless a page comes to a shared document without being
\* seen there, or what was seen of it in one is lost while it stays.
LEMMA AwareKept ==
    ASSUME NEW r, Aware(r), DOMAIN bound' = DOMAIN bound, migrated \subseteq migrated',
           \A m \in DOMAIN bound, d \in Documents :
              Shared(d) /\ d \notin migrated' /\ bound'[m] = d
              => Sees(m, d)' \/ (bound[m] = d /\ ~Sees(m, d))
    PROVE  Aware(r)'
<1>1. ASSUME r.tool = "migrate", NEW m \in DOMAIN bound, NEW d \in Parting(r) \ migrated', bound'[m] = d
      PROVE  m \in Leaving(r, d) \/ Sees(m, d)'
  <2>1. d \in Documents /\ Shared(d)
    BY <1>1 DEF Aware, Parting
  <2>2. Sees(m, d)' \/ (bound[m] = d /\ ~Sees(m, d))
    BY <1>1, <2>1
  <2>3. d \in Parting(r) \ migrated
    OBVIOUS
  <2> QED
    BY <1>1, <2>2, <2>3 DEF Aware
<1>2. \A m \in DOMAIN bound', d \in Parting(r) \ migrated' :
         r.tool = "migrate" /\ bound'[m] = d => m \in Leaving(r, d) \/ Sees(m, d)'
  BY <1>1
<1> QED
  BY <1>2 DEF Aware

LEMMA HomesKept ==
    ASSUME HomesInv, Rows', Bound', Texts', DOMAIN bound' = DOMAIN bound, migrated \subseteq migrated',
           \A m \in DOMAIN bound, d \in Documents :
              Shared(d) /\ d \notin migrated' /\ bound'[m] = d
              => Sees(m, d)' \/ (bound[m] = d /\ ~Sees(m, d)),
           \A r \in pending' : r \in pending \/ Aware(r)'
    PROVE  HomesInv'
<1>1. \A r \in pending : Aware(r)
  BY DEF HomesInv
<1>2. \A r \in pending' : Aware(r)'
  BY <1>1, AwareKept
<1> QED
  BY <1>2 DEF HomesInv

\* A step that touches no document, binding or observation.
LEMMA HomesQuiet ==
    ASSUME HomesInv, UNCHANGED <<docs, ids, bound, migrated, observed, articles>>,
           \A r \in pending' : r \in pending \/ Aware(r)
    PROVE  HomesInv'
<1>1. Rows' /\ Bound' /\ Texts'
  BY DEF HomesInv, Rows, Bound, Texts
<1>2. \A m, d : Sees(m, d)' <=> Sees(m, d)
  BY DEF Sees
<1>3. \A r : Aware(r) => Aware(r)'
  BY <1>2 DEF Aware
<1> QED
  BY <1>1, <1>2, <1>3, HomesKept

\* A page loses its binding, and what was seen in it may be forgotten.
LEMMA HomesUnbind ==
    ASSUME ActsInv, HomesInv, UNCHANGED <<docs, ids, migrated>>, NEW m,
           bound' = bound \/ bound' = [bound EXCEPT ![m] = NoDoc],
           \/ UNCHANGED <<observed, articles>>
           \/ /\ bound' = [bound EXCEPT ![m] = NoDoc]
              /\ observed' = {o \in observed : o[1] # m}
              /\ \A o \in observed' : o[2] \in articles'
           ,
           \A r \in pending' : r \in pending
    PROVE  HomesInv'
<1>1. Rows'
  BY DEF HomesInv, Rows
<1>2. /\ DOMAIN bound' = DOMAIN bound
      /\ \A x \in DOMAIN bound : bound'[x] = NoDoc \/ bound'[x] = bound[x]
      /\ bound' = [bound EXCEPT ![m] = NoDoc] /\ m \in DOMAIN bound => bound'[m] = NoDoc
  BY DEF ActsInv
<1>3. Bound'
  BY <1>2 DEF HomesInv, Bound, Lies
<1>4. Texts'
  BY <1>2 DEF HomesInv, Texts
<1>5. NoDoc \notin Documents
  BY CorpusAssumption
<1>6. ASSUME NEW x \in DOMAIN bound, NEW d \in Documents, bound'[x] = d, Sees(x, d) PROVE Sees(x, d)'
  <2>1. PICK o \in observed : o[1] = x /\ o[2].document = d
    BY <1>6 DEF Sees
  <2>2. o \in observed'
    BY <1>2, <1>5, <1>6, <2>1
  <2> QED
    BY <2>1, <2>2 DEF Sees
<1>7. \A x \in DOMAIN bound, d \in Documents : bound'[x] = d => bound[x] = d
  BY <1>2, <1>5
<1> QED
  BY <1>1, <1>2, <1>3, <1>4, <1>6, <1>7, HomesKept

\* A page joins a document; something of it may be seen there.
LEMMA HomesJoin ==
    ASSUME CorpusAssumption, ActsInv, HomesInv, NEW m, NEW d, NEW signal,
           Joins(m, d, signal), BindTo(d, signal, m),
           observed \subseteq observed', articles \subseteq articles',
           \A o \in observed' : o \in observed \/ (o[2] \in articles' /\ \E n : o = <<m, Article(d, n)>>),
           \A r \in pending' : r \in pending \/ Aware(r)'
    PROVE  HomesInv'
<1>1. Rows' /\ d \in Documents /\ m \in DOMAIN bound
  BY RowsOfJoin DEF HomesInv, Joins
<1>2. /\ DOMAIN bound' = DOMAIN bound /\ migrated' = migrated
      /\ \A x \in DOMAIN bound : bound'[x] = IF x = m THEN d ELSE bound[x]
  BY DEF ActsInv, BindTo
<1>3. Bound'
  BY <1>2 DEF HomesInv, Bound, Joins
<1>4. Texts'
  <2> SUFFICES ASSUME NEW o \in observed'
               PROVE  /\ o = <<o[1], o[2]>> /\ o[1] \in DOMAIN bound /\ o[2] \in articles'
                      /\ o[2].document \in Documents
                      /\ o[2] = Article(o[2].document, o[2].designation)
    BY <1>2 DEF Texts
  <2>1. CASE o \in observed
    BY <2>1 DEF HomesInv, Texts
  <2>2. ASSUME NEW n, o = <<m, Article(d, n)>>
        PROVE  /\ o = <<o[1], o[2]>> /\ o[1] = m /\ o[2] = Article(d, n)
               /\ o[2].document = d /\ o[2].designation = n
    BY <2>2 DEF Article
  <2> QED
    BY <1>1, <2>1, <2>2
<1>5. Shared(d) => d \in migrated
  BY NobodyJoins, <1>1 DEF HomesInv
<1>6. \A x, y : Sees(x, y) => Sees(x, y)'
  BY DEF Sees
<1> QED
  BY <1>1, <1>2, <1>3, <1>4, <1>5, <1>6, HomesKept

LEMMA HomesIdentity ==
    ASSUME CorpusAssumption, TypesAssumption, ActsInv, HomesInv, NEW record \in pending,
           RegisterIdentity(record)
    PROVE  HomesInv'
<1> DEFINE m == record.page
           a == Assess(Page[m])
           conflict == a.accepted /\ Misbound(record, a.signal, IsFamily(Page[m]))
<1>1. record.tool = "identity" /\ UNCHANGED <<observed, articles>>
  BY DEF RegisterIdentity, Read, text
<1>2. CASE ~a.accepted \/ conflict
  <2>1. \E reason : Reject(record, reason)
    BY <1>2 DEF RegisterIdentity
  <2>2. pending' \subseteq pending
    BY <1>2 DEF RegisterIdentity, Finish
  <2>3. /\ UNCHANGED <<docs, ids, migrated>>
        /\ bound' = bound \/ bound' = [bound EXCEPT ![record.page] = NoDoc]
    BY <2>1 DEF Reject
  <2> QED
    BY <1>1, <2>2, <2>3, HomesUnbind
<1>3. CASE a.accepted /\ ~conflict
  <2>1. BindTo(Home(record, a.signal), a.signal, m)
    BY <1>3 DEF RegisterIdentity
  <2>2. \A q \in pending' : q \in pending \/ q.tool = "doctrine"
    BY <1>3 DEF RegisterIdentity, Finish, Continue
  <2>3. ASSUME NEW q, q.tool = "doctrine" PROVE Aware(q)'
    BY <2>3 DEF Aware
  <2>4. PICK x, u, signal : x = a /\ u = IsFamily(Page[m]) /\ signal = a.signal
    OBVIOUS
  <2>5. x.accepted /\ ~Misbound(record, x.signal, u)
    BY <1>3, <2>4
  <2>6. Joins(m, Home(record, x.signal), x.signal)
    BY <1>1, <2>4, <2>5, HomeJoins
  <2>7. PICK d : d = Home(record, signal)
    OBVIOUS
  <2>8. Joins(m, d, signal) /\ BindTo(d, signal, m)
    BY <2>1, <2>4, <2>6, <2>7
  <2>9. PICK y : y = m
    OBVIOUS
  <2>10. Joins(y, d, signal) /\ BindTo(d, signal, y)
    BY <2>8, <2>9
  <2>11. \A r \in pending' : r \in pending \/ Aware(r)'
    BY <2>2, <2>3
  <2>12. \A o \in observed' : o \in observed \/ (o[2] \in articles' /\ \E n : o = <<y, Article(d, n)>>)
    BY <1>1
  <2> HIDE DEF m, a
  <2> QED
    BY <1>1, <2>10, <2>11, <2>12, HomesJoin
<1> QED
  BY <1>2, <1>3

LEMMA HomesSimple ==
    ASSUME CorpusAssumption, TypesAssumption, ActsInv, HomesInv, NEW record \in pending,
           AssessSimple(record) \/ RegisterSimple(record)
    PROVE  HomesInv'
<1>0. Sound(record) /\ Aware(record) /\ record.tool \in {"simple", "simple checked"}
  BY DEF ActsInv, HomesInv, AssessSimple, RegisterSimple, Read
<1>1. ASSUME NEW reason, Reject(record, reason), UNCHANGED <<observed, articles>>, pending' \subseteq pending
      PROVE  HomesInv'
  <2>1. /\ UNCHANGED <<docs, ids, migrated>>
        /\ bound' = bound \/ bound' = [bound EXCEPT ![record.page] = NoDoc]
    BY <1>1 DEF Reject
  <2> QED
    BY <1>1, <2>1, HomesUnbind
<1>2. CASE AssessSimple(record)
  <2>1. CASE Ordinary(record.page)
    <3>1. PICK q : q = [tool |-> "simple checked", page |-> record.page, existing |-> record.existing]
      OBVIOUS
    <3>2. q.tool = "simple checked" /\ q.page = record.page /\ q.existing = record.existing
      BY <3>1
    <3>3. /\ UNCHANGED <<docs, ids, bound, migrated, observed, articles>>
          /\ pending' = (pending \ {record}) \cup {q}
      BY <1>2, <2>1, <3>1 DEF AssessSimple, Continue, Ordinary, identity, text
    <3>4. Aware(q)
      BY <1>0, <3>2 DEF Aware
    <3> QED
      BY <3>3, <3>4, HomesQuiet
  <2>2. CASE ~Ordinary(record.page)
    BY <1>1, <1>2, <2>2 DEF AssessSimple, Finish, Ordinary, text
  <2> QED
    BY <2>1, <2>2
<1>3. CASE RegisterSimple(record)
  <2> DEFINE m == record.page
             signal == AssessGeneric(Page[m]).signal
             d == Home(record, signal)
             own == {Article(d, n) : n \in Page[m].articles}
  <2>1. record.tool = "simple checked" /\ Ordinary(m) /\ pending' \subseteq pending
    BY <1>0, <1>3 DEF Sound, RegisterSimple, Read, Finish
  <2>2. CASE Misbound(record, signal, FALSE)
    BY <1>1, <1>3, <2>1, <2>2 DEF RegisterSimple, text
  <2>3. CASE ~Misbound(record, signal, FALSE) /\ own = {}
    <3>1. UNCHANGED <<docs, ids, bound, migrated, observed, articles>>
      BY <1>3, <2>3 DEF RegisterSimple, identity, text
    <3> QED
      BY <2>1, <3>1, HomesQuiet
  <2>4. CASE ~Misbound(record, signal, FALSE) /\ own # {}
    <3>1. BindTo(d, signal, m) /\ articles' = articles \cup own
          /\ observed' = observed \cup {<<m, p>> : p \in own}
      BY <1>3, <2>4 DEF RegisterSimple
    <3>2. PICK x, s, u : x = AssessGeneric(Page[m]) /\ s = signal /\ u = FALSE
      OBVIOUS
    <3>3. x.accepted /\ ~Misbound(record, x.signal, u)
      BY <2>1, <2>4, <3>2 DEF Ordinary
    <3>4. Joins(m, Home(record, x.signal), x.signal)
      BY <2>1, <3>2, <3>3, HomeJoins
    <3>5. PICK e, y : e = d /\ y = m
      OBVIOUS
    <3>6. Joins(y, e, s) /\ BindTo(e, s, y)
      BY <3>1, <3>2, <3>4, <3>5
    <3>7. \A p \in own : \E n : p = Article(e, n)
      BY <3>5
    <3>8. \A o \in observed' : o \in observed \/ (o[2] \in articles' /\ \E n : o = <<y, Article(e, n)>>)
      <4> HIDE DEF own, m
      <4>1. ASSUME NEW o \in observed', o \notin observed
            PROVE  o[2] \in articles' /\ \E n : o = <<y, Article(e, n)>>
        <5>1. PICK p \in own : o = <<y, p>>
          BY <3>1, <3>5, <4>1
        <5>2. PICK n : p = Article(e, n)
          BY <3>7
        <5> QED
          BY <3>1, <5>1, <5>2
      <4> QED
        BY <4>1
    <3>9. \A r \in pending' : r \in pending \/ Aware(r)'
      BY <2>1
    <3> HIDE DEF d, signal, m
    <3> QED
      BY <3>1, <3>6, <3>8, <3>9, HomesJoin
  <2> QED
    BY <2>2, <2>3, <2>4
<1> QED
  BY <1>2, <1>3

\* A compiled page is bound by its heading, with articles of its own.
LEMMA HomesCompiled ==
    ASSUME CorpusAssumption, TypesAssumption, ActsInv, HomesInv, NEW record \in pending,
           RegisterCompiled(record)
    PROVE  HomesInv'
<1> DEFINE m == record.page
           d == KeyOf(NoIssuer, Page[m].heading)
           row == [key |-> d, issuer |-> NoIssuer, primary |-> TRUE]
           own == {Article(d, n) : n \in Page[m].compiled}
<1>0. Sound(record) /\ Aware(record) /\ record.tool = "compiled" /\ pending' \subseteq pending
  BY DEF ActsInv, HomesInv, RegisterCompiled, Read, Finish
<1>1. CASE record.existing \notin {NoDoc, d}
  <2>1. UNCHANGED <<docs, ids, bound, migrated, observed, articles>>
    BY <1>1 DEF RegisterCompiled, identity, text
  <2> QED
    BY <1>0, <2>1, HomesQuiet
<1>2. CASE record.existing \in {NoDoc, d}
  <2>1. /\ docs' = docs \cup {d} /\ migrated' = migrated
        /\ ids' = [ids EXCEPT ![d] = IF \E r \in @ : r.key = d THEN @ ELSE @ \cup {row}]
        /\ bound' = [bound EXCEPT ![m] = d]
        /\ articles' = articles \cup own
        /\ observed' = observed \cup {<<m, p>> : p \in own}
    BY <1>2 DEF RegisterCompiled
  <2>2. m \in DOMAIN bound /\ m \in DOMAIN Page /\ Page[m].compiled # {} /\ Page[m].heading \in Act
    BY <1>0 DEF Sound, Aware, CorpusAssumption, ActsInv
  <2>3. /\ d \in Documents /\ d.issuer = NoIssuer /\ d.act = Page[m].heading
        /\ d = KeyOf(NoIssuer, d.act) /\ row.key = d /\ row.issuer = NoIssuer
    BY <2>2 DEF KeyOf, Documents, Key
  <2>4. Lies(m, d)
    BY <2>2, Assessments DEF Lies
  <2> HIDE DEF row, d, m
  <2>5. /\ ids'[d] \subseteq ids[d] \cup {row} /\ ids[d] \subseteq ids'[d]
        /\ \E i \in ids'[d] : i.key = d
        /\ \A x \in Documents : x # d => ids'[x] = ids[x]
    BY <2>1, <2>3 DEF ActsInv
  <2>6. Rows'
    <3>1. /\ docs' \subseteq Documents /\ migrated' \subseteq docs'
          /\ \A x \in docs' : /\ \E i \in ids'[x] : i.key = KeyOf(NoIssuer, x.act)
                              /\ x.issuer = NoIssuer \/ x.act \in Scoped
          /\ \A x \in Documents \ docs' : ids'[x] = {}
      BY <2>1, <2>3, <2>5 DEF HomesInv, Rows
    <3>2. \A x \in Documents \ migrated' : Shared(x) =>
             \A i \in ids'[x] : i.issuer = NoIssuer /\ i.key.issuer = NoIssuer
      <4>1. \A x \in Documents \ migrated : Shared(x) =>
               \A i \in ids[x] : i.issuer = NoIssuer /\ i.key.issuer = NoIssuer
        BY DEF HomesInv, Rows
      <4> QED
        BY <2>1, <2>3, <2>5, <4>1
    <3> QED
      BY <3>1, <3>2 DEF Rows, Shared
  <2>7. /\ DOMAIN bound' = DOMAIN bound
        /\ \A x \in DOMAIN bound : bound'[x] = IF x = m THEN d ELSE bound[x]
    BY <2>1 DEF ActsInv
  <2>8. Bound'
    BY <2>4, <2>7 DEF HomesInv, Bound
  <2>9. /\ \A p \in own : p.document = d /\ p = Article(p.document, p.designation)
        /\ own # {}
    <3>1. \A n : Article(d, n).document = d /\ Article(d, n).designation = n
      BY DEF Article
    <3> QED
      BY <2>2, <3>1
  <2> HIDE DEF own
  <2>10. Texts'
    BY <2>1, <2>2, <2>3, <2>7, <2>9 DEF HomesInv, Texts
  <2>11. Sees(m, d)'
    <3>1. PICK p \in own : p.document = d
      BY <2>9
    <3>2. PICK o : o = <<m, p>>
      OBVIOUS
    <3>3. o \in observed' /\ o[1] = m /\ o[2].document = d
      BY <2>1, <3>1, <3>2
    <3> QED
      BY <3>3 DEF Sees
  <2>12. \A x, y : Sees(x, y) => Sees(x, y)'
    BY <2>1 DEF Sees
  <2>13. \A x \in DOMAIN bound, y \in Documents : bound'[x] = y =>
            (x = m /\ y = d) \/ bound[x] = y
    BY <2>7
  <2>14. \A x \in DOMAIN bound, y \in Documents : bound'[x] = y =>
            Sees(x, y)' \/ (bound[x] = y /\ ~Sees(x, y))
    <3> SUFFICES ASSUME NEW x \in DOMAIN bound, NEW y \in Documents, bound'[x] = y
                 PROVE  Sees(x, y)' \/ (bound[x] = y /\ ~Sees(x, y))
      OBVIOUS
    <3>0. PICK n, e : n = m /\ e = d
      OBVIOUS
    <3>1. Sees(n, e)'
      BY <2>11, <3>0
    <3> QED
      BY <2>12, <2>13, <3>0, <3>1
  <2> QED
    BY <1>0, <2>1, <2>6, <2>7, <2>8, <2>10, <2>14, HomesKept
<1> QED
  BY <1>1, <1>2

LEMMA HomesReprocess ==
    ASSUME CorpusAssumption, ActsInv, HomesInv, NEW record \in pending, ReprocessPage(record)
    PROVE  HomesInv'
<1>0. pending' \subseteq pending
  BY DEF ReprocessPage, Finish
<1>1. CASE ~Incompatible(record.page, record.existing)
  <2>1. UNCHANGED <<docs, ids, bound, migrated, observed, articles>>
    BY <1>1 DEF ReprocessPage, identity, text
  <2> QED
    BY <1>0, <2>1, HomesQuiet
<1>2. CASE Incompatible(record.page, record.existing)
  <2> DEFINE left == {o \in observed : o[1] # record.page}
             gone == {p \in articles : p.document = record.existing /\ \A o \in left : o[2] # p}
  <2>1. /\ UNCHANGED <<docs, ids, migrated>> /\ bound' = [bound EXCEPT ![record.page] = NoDoc]
        /\ observed' = left /\ articles' = articles \ gone
    BY <1>2 DEF ReprocessPage
  <2>2. \A o \in left : o[2] \in articles \ gone
    BY DEF HomesInv, Texts
  <2>3. PICK m : m = record.page
    OBVIOUS
  <2> QED
    BY <1>0, <2>1, <2>2, <2>3, HomesUnbind
<1> QED
  BY <1>1, <1>2

LEMMA HomesCleanup == ASSUME ActsInv, HomesInv, Cleanup PROVE HomesInv'
<1> DEFINE gone == {d \in docs : Residue(d)}
<1>1. /\ UNCHANGED <<bound, migrated, observed, articles, pending>> /\ docs' = docs \ gone
      /\ ids' = [d \in Documents |-> IF d \in gone THEN {} ELSE ids[d]]
  BY DEF Cleanup, Alone, text
<1>2. gone \cap migrated = {}
  BY DEF Residue, InUse
<1> HIDE DEF gone
<1>3. /\ docs' \subseteq Documents /\ migrated' \subseteq docs'
      /\ \A x \in docs' : /\ \E i \in ids'[x] : i.key = KeyOf(NoIssuer, x.act)
                          /\ x.issuer = NoIssuer \/ x.act \in Scoped
      /\ \A x \in Documents \ docs' : ids'[x] = {}
  BY <1>1, <1>2 DEF HomesInv, Rows
<1>4. \A x \in Documents \ migrated' : Shared(x) =>
         \A i \in ids'[x] : i.issuer = NoIssuer /\ i.key.issuer = NoIssuer
  BY <1>1 DEF HomesInv, Rows
<1>5. Rows'
  BY <1>3, <1>4 DEF Rows, Shared
<1>6. Bound' /\ Texts'
  BY <1>1 DEF HomesInv, Bound, Texts
<1>7. \A m, d : Sees(m, d)' <=> Sees(m, d)
  BY <1>1 DEF Sees
<1> QED
  BY <1>1, <1>5, <1>6, <1>7, HomesKept

LEMMA HomesStart ==
    ASSUME CorpusAssumption, ActsInv, HomesInv, NEW m \in Manifestations, StartRun(m) PROVE HomesInv'
<1>0. m \in DOMAIN bound /\ Lies(m, bound[m])
  BY DEF HomesInv, Bound, Manifestations
<1>1. ASSUME NEW tool, ReadBinding(tool, m),
             tool \in {"identity", "simple", "reprocess"} \/ (tool = "compiled" /\ Page[m].compiled # {})
      PROVE  HomesInv'
  <2>1. PICK record : record = [tool |-> tool, page |-> m, existing |-> bound[m]]
    OBVIOUS
  <2>2. /\ UNCHANGED <<docs, ids, bound, migrated, observed, articles>>
        /\ pending' = pending \cup {record}
    BY <1>1, <2>1 DEF ReadBinding, Begin, identity, text
  <2>3. Aware(record)
    BY <1>0, <1>1, <2>1 DEF Aware
  <2> QED
    BY <2>2, <2>3, HomesQuiet
<1>2. ASSUME NEW record, Begin(record), UNCHANGED <<identity, text>>,
             record.tool \in {"resolve", "canonical", "operational", "editorial"}
      PROVE  HomesInv'
  <2>1. Aware(record)
    BY <1>2 DEF Aware
  <2> QED
    BY <1>2, <2>1, HomesQuiet DEF Begin, identity, text
<1>3. CASE DetectConflicts(m) \/ DateDocument(m)
  BY <1>3, HomesQuiet DEF DetectConflicts, DateDocument, Alone, identity
<1>4. CASE ReadFirst(m)
  <2>1. PICK x \in MentionsOf(m) :
               /\ Begin([tool |-> "resolve", page |-> m, existing |-> NoDoc,
                         first |-> x, answer |-> ResolveOne(Mention[x])])
               /\ UNCHANGED <<identity, text>>
    BY <1>4 DEF ReadFirst
  <2> QED
    BY <1>2, <2>1
<1>5. ASSUME NEW p \in {"canonical", "operational", "editorial"}, ReadRelations(p, m) PROVE HomesInv'
  <2>1. \E rows : Begin([tool |-> p, page |-> m, existing |-> bound[m], rows |-> rows])
    BY <1>5 DEF ReadRelations
  <2>2. UNCHANGED <<identity, text>>
    BY <1>5 DEF ReadRelations
  <2> QED
    BY <1>2, <2>1, <2>2
<1>6. CASE ReadLink(m)
  BY <1>1, <1>6 DEF ReadLink
<1>7. CASE \/ ReadBinding("identity", m) \/ ReadBinding("simple", m)
           \/ Page[m].compiled # {} /\ ReadBinding("compiled", m)
  BY <1>1, <1>7
<1> QED
  BY <1>3, <1>4, <1>5, <1>6, <1>7 DEF StartRun

\* A page that may move is bound by the older key of its act, which authorities share.
LEMMA MovableForm ==
    ASSUME CorpusAssumption, TypesAssumption, ActsInv, HomesInv, NEW m \in Movable
    PROVE  /\ m \in DOMAIN bound /\ Ordinary(m) /\ bound[m] \in Documents /\ Shared(bound[m])
           /\ bound[m] = KeyOf(NoIssuer, Page[m].act)
           /\ NewHome(m).issuer # NoIssuer /\ NewHome(m) \in Documents
<1>1. /\ m \in DOMAIN bound /\ Ordinary(m) /\ bound[m] # NoDoc /\ Page[m].act \in Scoped
      /\ NewHome(m) # bound[m]
  BY DEF Movable, Manifestations, Ordinary
<1>2. bound[m] \in Documents /\ m \in DOMAIN Page /\ Lies(m, bound[m])
  BY <1>1 DEF ActsInv, HomesInv, Bound
<1>3. bound[m] = KeyOf(NoIssuer, Page[m].act)
  BY <1>1, <1>2 DEF Lies
<1>4. NewHome(m) = KeyOf(Page[m].issuer, Page[m].act) /\ Page[m].issuer # NoIssuer /\ Page[m].act \in Generic
  BY <1>1, <1>2, Issuers
<1>5. NewHome(m) \in Documents
  BY <1>1, <1>2, KeyInDocuments, Assessments DEF NewHome
<1> QED
  BY <1>1, <1>2, <1>3, <1>4, <1>5 DEF Shared, KeyOf

\* A plan has every page of the documents it divides: one that is not clear is refused.
LEMMA HomesPlan ==
    ASSUME CorpusAssumption, TypesAssumption, ActsInv, HomesInv, PlanMigration PROVE HomesInv'
<1> DEFINE single == {d \in LegacyDocuments \ Split : Unqualified(d)}
           moving == {m \in Movable : bound[m] \in Split}
           moves == {[page |-> m, from |-> bound[m]] : m \in moving}
           given == {[document |-> d, to |-> CHOOSE k \in Homes(d) : TRUE] : d \in single}
           record == [tool |-> "migrate", page |-> NoDoc, existing |-> NoDoc, moves |-> moves, single |-> given]
<1>1. /\ UNCHANGED <<docs, ids, bound, migrated, observed, articles>>
      /\ pending' = pending \cup {record} /\ \A d \in LegacyDocuments : ~Unclear(d)
  BY DEF PlanMigration, Begin, identity, text
<1>2. record.tool = "migrate" /\ record.moves = moves /\ record.single = given
  OBVIOUS
<1>3. \A v \in moves : \E m \in Movable : v.page = m /\ v.from = bound[m] /\ bound[m] \in Split
  OBVIOUS
<1>4. \A v \in moves : /\ v.page \in DOMAIN bound /\ Ordinary(v.page)
                       /\ v.from \in Documents /\ Shared(v.from)
                       /\ v.from = KeyOf(NoIssuer, Page[v.page].act)
  BY <1>3, MovableForm
<1>5. \A d \in {v.from : v \in moves} : d \in Split
  BY <1>3
<1>6. ASSUME NEW s \in given
      PROVE  /\ s.document \in Documents \ Split /\ Shared(s.document)
             /\ s.to.issuer # NoIssuer /\ s.to \in Documents
  <2>1. PICK d \in single : s = [document |-> d, to |-> CHOOSE k \in Homes(d) : TRUE]
    OBVIOUS
  <2>2. PICK x \in Movable : d = bound[x]
    BY <2>1 DEF LegacyDocuments
  <2>3. x \in Movers(d)
    BY <2>2, MovableForm DEF Movers, Linked, Manifestations
  <2>4. s.document = d /\ s.to \in Homes(d)
    BY <2>1, <2>3 DEF Homes
  <2>5. PICK m \in Movers(d) : s.to = NewHome(m)
    BY <2>4 DEF Homes
  <2>6. m \in Movable /\ bound[m] = d /\ d \notin Split
    BY <2>1 DEF Movers, Linked
  <2> QED
    BY <2>4, <2>5, <2>6, MovableForm
<1>7. ASSUME NEW m \in DOMAIN bound, bound[m] \in Split
      PROVE  [page |-> m, from |-> bound[m]] \in moves
  <2>1. bound[m] \in LegacyDocuments
    BY <1>7 DEF Split
  <2>2. Movers(bound[m]) = Linked(bound[m])
    BY <1>1, <2>1 DEF Unclear
  <2>3. m \in Linked(bound[m])
    BY DEF Linked, Manifestations
  <2> QED
    BY <1>7, <2>2, <2>3 DEF Movers
<1> HIDE DEF record, moves, given
<1>8. ASSUME NEW m \in DOMAIN bound, NEW d \in Parting(record), bound[m] = d PROVE m \in Leaving(record, d)
  <2>1. PICK v : v = [page |-> m, from |-> bound[m]]
    OBVIOUS
  <2>2. v \in record.moves /\ v.page = m /\ v.from = d
    BY <1>2, <1>5, <1>7, <1>8, <2>1 DEF Parting
  <2> QED
    BY <2>2 DEF Leaving
<1>9. Aware(record)
  BY <1>2, <1>4, <1>5, <1>6, <1>8 DEF Aware, Parting
<1> QED
  BY <1>1, <1>9, HomesQuiet

\* A move of a plan: an ordinary page leaves a shared document for one of its authority.
LEMMA MoveForm ==
    ASSUME CorpusAssumption, TypesAssumption, ActsInv, NEW record, Aware(record), record.tool = "migrate",
           NEW v \in record.moves
    PROVE  /\ v.page \in DOMAIN bound /\ v.page \in DOMAIN Page /\ Ordinary(v.page)
           /\ v.from \in Documents /\ Shared(v.from) /\ v.from = KeyOf(NoIssuer, Page[v.page].act)
           /\ Page[v.page].act \in Scoped
           /\ NewHome(v.page) = KeyOf(Page[v.page].issuer, Page[v.page].act)
           /\ NewHome(v.page).issuer # NoIssuer /\ NewHome(v.page) \in Documents
<1>1. /\ v.page \in DOMAIN bound /\ v.page \in DOMAIN Page /\ Ordinary(v.page)
      /\ v.from \in Documents /\ Shared(v.from) /\ v.from = KeyOf(NoIssuer, Page[v.page].act)
  BY DEF Aware, ActsInv
<1>2. Page[v.page].act \in Scoped
  BY <1>1 DEF Shared, KeyOf
<1>3. NewHome(v.page) = KeyOf(Page[v.page].issuer, Page[v.page].act) /\ Page[v.page].issuer # NoIssuer
  BY <1>1, <1>2, Issuers
<1>4. NewHome(v.page) \in Documents
  BY <1>1, KeyInDocuments, Assessments DEF NewHome
<1> QED
  BY <1>1, <1>2, <1>3, <1>4 DEF KeyOf

\* What an applied migration does to bindings and to what was seen: who leaves a
\* divided document gets a new home, and what was seen of it goes along.
LEMMA Movings ==
    ASSUME CorpusAssumption, TypesAssumption, ActsInv, HomesInv, NEW record \in pending,
           ApplyMigration(record), Applicable(record)
    PROVE  /\ Aware(record) /\ record.tool = "migrate" /\ DOMAIN bound' = DOMAIN bound
           /\ \A m \in DOMAIN bound :
                 \/ bound'[m] = NewHome(m) /\ \E v \in record.moves : v.page = m
                 \/ /\ \A v \in record.moves : v.page # m
                    /\ bound[m] \in Parting(record) /\ bound'[m] = NoDoc
                 \/ /\ \A v \in record.moves : v.page # m
                    /\ bound[m] \notin Parting(record) /\ bound'[m] = bound[m]
           /\ \A o \in observed :
                 \/ o[2].document \notin Parting(record) /\ o \in observed' /\ o[2] \in articles'
                 \/ /\ o[2].document \in Parting(record) /\ o[1] \in Leaving(record, o[2].document)
                    /\ <<o[1], Article(NewHome(o[1]), o[2].designation)>> \in observed'
                    /\ Article(NewHome(o[1]), o[2].designation) \in articles'
           /\ \A q \in observed' : \E o \in observed :
                 q = IF o[2].document \in Parting(record)
                     THEN <<o[1], Article(NewHome(o[1]), o[2].designation)>> ELSE o
<1> DEFINE old == Parting(record)
           newer(o) == <<o[1], Article(Moved(record, o[2].document, o[1]), o[2].designation)>>
<1>1. Aware(record) /\ record.tool = "migrate"
  BY DEF HomesInv, ApplyMigration, Read
<1>2. /\ bound' = [m \in Manifestations |-> IF \E v \in record.moves : v.page = m THEN NewHome(m)
                                            ELSE IF bound[m] \in old THEN NoDoc ELSE bound[m]]
      /\ MovedText(record)
  BY DEF ApplyMigration
<1>3. /\ observed' = {newer(o) : o \in observed}
      /\ articles' = (articles \ OldArticles(record))
           \cup {Article(NewHome(o[1]), o[2].designation) :
                    o \in {o \in observed : o[2] \in OldArticles(record)}}
  BY <1>2 DEF MovedText
<1>4. \A o \in observed : /\ o[2] \in articles /\ o[2] = Article(o[2].document, o[2].designation)
                          /\ o[2].document \in old => o[1] \in Leaving(record, o[2].document)
  BY DEF HomesInv, Texts, Applicable
<1>5. \A o \in observed : o = <<o[1], o[2]>>
  BY DEF HomesInv, Texts
<1>6. ASSUME NEW o \in observed
      PROVE  newer(o) = IF o[2].document \in old
                        THEN <<o[1], Article(NewHome(o[1]), o[2].designation)>> ELSE o
  BY <1>4, <1>5 DEF Moved
<1> HIDE DEF newer
<1>7. \A q \in observed' : \E o \in observed :
         q = IF o[2].document \in old THEN <<o[1], Article(NewHome(o[1]), o[2].designation)>> ELSE o
  <2> SUFFICES ASSUME NEW q \in observed'
               PROVE  \E o \in observed : q = IF o[2].document \in old
                         THEN <<o[1], Article(NewHome(o[1]), o[2].designation)>> ELSE o
    OBVIOUS
  <2>1. PICK o \in observed : q = newer(o)
    BY <1>3
  <2> QED
    BY <1>6, <2>1
<1>8. ASSUME NEW o \in observed, o[2].document \notin old PROVE o \in observed' /\ o[2] \in articles'
  <2>1. o[2] \notin OldArticles(record)
    BY <1>8 DEF OldArticles
  <2> QED
    BY <1>3, <1>4, <1>6, <1>8, <2>1
<1>9. ASSUME NEW o \in observed, o[2].document \in old
      PROVE  /\ o[1] \in Leaving(record, o[2].document)
             /\ <<o[1], Article(NewHome(o[1]), o[2].designation)>> \in observed'
             /\ Article(NewHome(o[1]), o[2].designation) \in articles'
  <2>1. o[2] \in OldArticles(record)
    BY <1>4, <1>9 DEF OldArticles
  <2> QED
    BY <1>3, <1>4, <1>6, <1>9, <2>1
<1>10. DOMAIN bound' = DOMAIN bound
  BY <1>2 DEF Manifestations
<1>11. \A m \in DOMAIN bound :
          \/ bound'[m] = NewHome(m) /\ \E v \in record.moves : v.page = m
          \/ /\ \A v \in record.moves : v.page # m
             /\ bound[m] \in old /\ bound'[m] = NoDoc
          \/ /\ \A v \in record.moves : v.page # m
             /\ bound[m] \notin old /\ bound'[m] = bound[m]
  BY <1>2 DEF Manifestations
<1> HIDE DEF old
<1> QED
  BY <1>1, <1>7, <1>8, <1>9, <1>10, <1>11 DEF old

\* The documents a migration makes, and those it gives a qualified key.
Arrived(record) == {NewHome(v.page) : v \in record.moves}
Given(record) == {s.document : s \in record.single}

\* What an applied migration does to documents and to their rows.
LEMMA MigratedRows ==
    ASSUME CorpusAssumption, TypesAssumption, ActsInv, HomesInv, NEW record \in pending,
           ApplyMigration(record), Applicable(record)
    PROVE  /\ docs' = (docs \ Parting(record)) \cup Arrived(record)
           /\ migrated' = migrated \cup Arrived(record) \cup Given(record)
           /\ Parting(record) \cup Given(record) \subseteq docs /\ Parting(record) \cap migrated = {}
           /\ \A d \in Arrived(record) : d \in Documents /\ d.issuer # NoIssuer /\ d.act \in Scoped
           /\ \A d \in Given(record) : d \in Documents \ Parting(record) /\ Shared(d)
           /\ \A d \in Parting(record) : d \in Documents /\ Shared(d)
           /\ \A s \in record.single : s.to.issuer # NoIssuer /\ s.to \in Documents
           /\ Parting(record) \cap Arrived(record) = {}
           /\ \A d \in Documents :
                 \/ d \in Parting(record) /\ ids'[d] = {}
                 \/ /\ d \in Arrived(record)
                    /\ \E m \in DOMAIN Page : /\ Ordinary(m) /\ NewHome(m) = d
                          /\ ids'[d] = Upsert(ids[d], AssessGeneric(Page[m]).signal)
                 \/ /\ d \in Given(record) /\ d \notin Parting(record) \cup Arrived(record)
                    /\ \E s \in record.single : s.document = d /\ ids'[d] = Qualify(ids[d], s.to)
                 \/ d \notin Parting(record) \cup Arrived(record) \cup Given(record) /\ ids'[d] = ids[d]
<1>0. Aware(record) /\ record.tool = "migrate"
  BY DEF ApplyMigration, HomesInv, Read
<1> DEFINE old == Parting(record)
           new == Arrived(record)
           given == Given(record)
<1>1. /\ docs' = (docs \ old) \cup new /\ migrated' = migrated \cup new \cup given
      /\ ids' = [d \in Documents |-> Renamed(record, d)]
  BY DEF ApplyMigration, Arrived, Given
<1>2. old \cup given \subseteq docs /\ old \cap migrated = {}
  BY DEF Applicable, Given
<1>3. ASSUME NEW d \in new PROVE d \in Documents /\ d.issuer # NoIssuer /\ d.act \in Scoped
  <2>1. PICK v \in record.moves : d = NewHome(v.page)
    BY DEF Arrived
  <2>2. /\ NewHome(v.page) = KeyOf(Page[v.page].issuer, Page[v.page].act) /\ Page[v.page].act \in Scoped
        /\ NewHome(v.page).issuer # NoIssuer /\ NewHome(v.page) \in Documents
    BY <1>0, MoveForm
  <2> QED
    BY <2>1, <2>2, Keys
<1>4. \A d \in given : d \in Documents \ old /\ Shared(d)
  BY <1>0 DEF Aware, Given
<1>5. \A d \in old : d \in Documents /\ Shared(d)
  BY <1>0, MoveForm DEF Parting
<1>6. \A s \in record.single : s.to.issuer # NoIssuer /\ s.to \in Documents
  BY <1>0 DEF Aware
<1>7. old \cap new = {}
  BY <1>3, <1>5 DEF Shared
<1>8. ASSUME NEW d \in Documents
      PROVE  \/ d \in old /\ ids'[d] = {}
             \/ /\ d \in new
                /\ \E m \in DOMAIN Page : /\ Ordinary(m) /\ NewHome(m) = d
                      /\ ids'[d] = Upsert(ids[d], AssessGeneric(Page[m]).signal)
             \/ /\ d \in given /\ d \notin old \cup new
                /\ \E s \in record.single : s.document = d /\ ids'[d] = Qualify(ids[d], s.to)
             \/ d \notin old \cup new \cup given /\ ids'[d] = ids[d]
  <2> DEFINE arriving == {v.page : v \in {v \in record.moves : NewHome(v.page) = d}}
             chosen == {s \in record.single : s.document = d}
  <2>1. ids'[d] = IF d \in old THEN {}
                  ELSE IF arriving # {}
                  THEN Upsert(ids[d], AssessGeneric(Page[CHOOSE m \in arriving : TRUE]).signal)
                  ELSE IF chosen # {} THEN Qualify(ids[d], (CHOOSE s \in chosen : TRUE).to)
                  ELSE ids[d]
    BY <1>1 DEF Renamed
  <2>2. arriving # {} <=> d \in new
    BY DEF Arrived
  <2>3. chosen # {} <=> d \in given
    BY DEF Given
  <2>4. \A m \in arriving : m \in DOMAIN Page /\ Ordinary(m) /\ NewHome(m) = d
    BY <1>0, MoveForm
  <2>5. arriving # {} => (CHOOSE m \in arriving : TRUE) \in arriving
    OBVIOUS
  <2>6. chosen # {} => (CHOOSE s \in chosen : TRUE) \in chosen
    OBVIOUS
  <2>7. \A s \in chosen : s \in record.single /\ s.document = d
    OBVIOUS
  <2> HIDE DEF arriving, chosen, old, new, given
  <2> QED
    BY <2>1, <2>2, <2>3, <2>4, <2>5, <2>6, <2>7
<1> HIDE DEF old, new, given
<1> QED
  BY <1>0, <1>1, <1>2, <1>3, <1>4, <1>5, <1>6, <1>7, <1>8 DEF old, new, given

\* Applying the migration: nobody is left with a document that is gone, the rows of the
\* others keep their older key, and what is shared and not migrated is left alone.
LEMMA HomesApply ==
    ASSUME CorpusAssumption, TypesAssumption, ActsInv, HomesInv, NEW record \in pending,
           ApplyMigration(record)
    PROVE  HomesInv'
<1>0. pending' \subseteq pending /\ Aware(record) /\ record.tool = "migrate"
  BY DEF ApplyMigration, Finish, HomesInv, Read
<1>1. CASE ~Applicable(record)
  <2>1. UNCHANGED <<docs, ids, bound, migrated, observed, articles>>
    BY <1>1 DEF ApplyMigration, identity, text
  <2> QED
    BY <1>0, <2>1, HomesQuiet
<1>2. CASE Applicable(record)
  <2> DEFINE old == Parting(record)
             new == Arrived(record)
             given == Given(record)
  <2> HIDE DEF old, new, given
  <2>1. docs' = (docs \ old) \cup new /\ migrated' = migrated \cup new \cup given
    BY <1>2, MigratedRows DEF old, new, given
  <2>2. old \cup given \subseteq docs /\ old \cap migrated = {} /\ old \cap new = {}
    BY <1>2, MigratedRows DEF old, new, given
  <2>3. \A d \in new : d \in Documents /\ d.issuer # NoIssuer /\ d.act \in Scoped
    BY <1>2, MigratedRows DEF new
  <2>4. \A d \in given : d \in Documents \ old /\ Shared(d)
    BY <1>2, MigratedRows DEF old, given
  <2>6. \A s \in record.single : s.to.issuer # NoIssuer
    BY <1>2, MigratedRows
  <2>8. \A d \in Documents :
           \/ d \in old /\ ids'[d] = {}
           \/ /\ d \in new
              /\ \E m \in DOMAIN Page : /\ Ordinary(m) /\ NewHome(m) = d
                    /\ ids'[d] = Upsert(ids[d], AssessGeneric(Page[m]).signal)
           \/ /\ d \in given /\ d \notin old \cup new
              /\ \E s \in record.single : s.document = d /\ ids'[d] = Qualify(ids[d], s.to)
           \/ d \notin old \cup new \cup given /\ ids'[d] = ids[d]
    BY <1>2, MigratedRows DEF old, new, given
  <2>9. \A d \in docs : /\ d \in Documents /\ \E i \in ids[d] : i.key = KeyOf(NoIssuer, d.act)
                        /\ d.issuer = NoIssuer \/ d.act \in Scoped
    BY DEF HomesInv, Rows
  <2>10. ASSUME NEW d \in docs'
         PROVE  /\ \E i \in ids'[d] : i.key = KeyOf(NoIssuer, d.act)
                /\ d.issuer = NoIssuer \/ d.act \in Scoped
    <3>0. d \in Documents /\ d \notin old /\ (d \in docs \/ d \in new)
      BY <2>1, <2>2, <2>3, <2>9
    <3>1. CASE d \in new
      <4>1. PICK m \in DOMAIN Page : /\ Ordinary(m) /\ NewHome(m) = d
                                     /\ ids'[d] = Upsert(ids[d], AssessGeneric(Page[m]).signal)
        BY <2>8, <3>0, <3>1
      <4>2. PICK signal : signal = AssessGeneric(Page[m]).signal
        OBVIOUS
      <4>3. signal.act = d.act
        BY <4>1, <4>2, Keys DEF NewHome
      <4>4. PICK k : k = KeyOf(NoIssuer, signal.act)
        OBVIOUS
      <4>5. PICK i : i = [key |-> k, issuer |-> signal.issuer, primary |-> k = CanonicalKey(signal)]
        OBVIOUS
      <4>6. i \in Upsert(ids[d], signal) /\ i.key = k
        BY <4>4, <4>5 DEF Upsert, CanonicalKeys
      <4> QED
        BY <2>3, <3>1, <4>1, <4>2, <4>3, <4>4, <4>6
    <3>2. CASE d \in given /\ d \notin new
      <4>1. PICK s \in record.single : s.document = d /\ ids'[d] = Qualify(ids[d], s.to)
        BY <2>8, <3>0, <3>2
      <4>2. PICK r \in ids[d] : r.key = KeyOf(NoIssuer, d.act)
        BY <2>9, <3>0, <3>2
      <4>3. r.key # s.to
        BY <2>6, <4>2 DEF KeyOf
      <4>4. PICK i : i = [key |-> r.key, issuer |-> s.to.issuer, primary |-> FALSE]
        OBVIOUS
      <4>5. i \in ids'[d] /\ i.key = r.key
        BY <4>1, <4>3, <4>4 DEF Qualify
      <4> QED
        BY <2>9, <3>0, <3>2, <4>2, <4>5
    <3>3. CASE d \notin new \cup given
      BY <2>8, <2>9, <3>0, <3>3
    <3> QED
      BY <3>1, <3>2, <3>3
  <2>11. \A d \in Documents \ docs' : ids'[d] = {}
    <3>1. \A d \in Documents \ docs : ids[d] = {}
      BY DEF HomesInv, Rows
    <3> QED
      BY <2>1, <2>2, <2>8, <3>1
  <2>12. docs' \subseteq Documents /\ migrated' \subseteq docs'
    <3>1. migrated \subseteq docs
      BY DEF HomesInv, Rows
    <3> QED
      BY <2>1, <2>2, <2>3, <2>4, <2>9, <3>1
  <2>13. \A d \in Documents \ migrated' : Shared(d) =>
            \A i \in ids'[d] : i.issuer = NoIssuer /\ i.key.issuer = NoIssuer
    <3>1. \A d \in Documents \ migrated : Shared(d) =>
             \A i \in ids[d] : i.issuer = NoIssuer /\ i.key.issuer = NoIssuer
      BY DEF HomesInv, Rows
    <3> QED
      BY <2>1, <2>8, <3>1
  <2>14. Rows'
    BY <2>10, <2>11, <2>12, <2>13 DEF Rows, Shared
  <2>15. Bound'
    <3> SUFFICES ASSUME NEW m \in DOMAIN bound' PROVE Lies(m, bound'[m])
      BY DEF Bound, Lies
    <3>1. m \in DOMAIN bound /\ bound'[m] \in {NewHome(m), NoDoc, bound[m]}
      BY <1>2, Movings
    <3>2. Lies(m, bound[m])
      BY <3>1 DEF HomesInv, Bound
    <3> QED
      BY <3>1, <3>2 DEF Lies
  <2>16. \A q \in observed' : \E o \in observed :
            q = IF o[2].document \in old THEN <<o[1], Article(NewHome(o[1]), o[2].designation)>> ELSE o
    BY <1>2, Movings DEF old
  <2>17. \A o \in observed :
            \/ o[2].document \notin old /\ o \in observed' /\ o[2] \in articles'
            \/ /\ o[2].document \in old /\ \E v \in record.moves : v.page = o[1]
               /\ Article(NewHome(o[1]), o[2].designation) \in articles'
    <3>1. \A d : \A m \in Leaving(record, d) : \E v \in record.moves : v.page = m
      BY DEF Leaving
    <3>2. \A o \in observed :
             \/ o[2].document \notin old /\ o \in observed' /\ o[2] \in articles'
             \/ /\ o[2].document \in old /\ o[1] \in Leaving(record, o[2].document)
                /\ Article(NewHome(o[1]), o[2].designation) \in articles'
      BY <1>2, Movings DEF old
    <3> QED
      BY <3>1, <3>2
  <2>18. DOMAIN bound' = DOMAIN bound
    BY <1>2, Movings
  <2>19. Texts'
    <3> SUFFICES ASSUME NEW q \in observed'
                 PROVE  /\ q = <<q[1], q[2]>> /\ q[1] \in DOMAIN bound /\ q[2] \in articles'
                        /\ q[2].document \in Documents
                        /\ q[2] = Article(q[2].document, q[2].designation)
      BY <2>18 DEF Texts
    <3>1. PICK o \in observed :
             q = IF o[2].document \in old THEN <<o[1], Article(NewHome(o[1]), o[2].designation)>> ELSE o
      BY <2>16
    <3>2. CASE o[2].document \notin old
      BY <2>17, <3>1, <3>2 DEF HomesInv, Texts
    <3>3. CASE o[2].document \in old
      <4>1. NewHome(o[1]) \in Documents /\ o[1] \in DOMAIN bound
        BY <1>0, <2>17, <3>3, MoveForm
      <4>2. q[1] = o[1] /\ q[2] = Article(NewHome(o[1]), o[2].designation) /\ q = <<q[1], q[2]>>
        BY <3>1, <3>3
      <4>3. q[2].document = NewHome(o[1]) /\ q[2].designation = o[2].designation
        BY <4>2 DEF Article
      <4> QED
        BY <2>17, <3>3, <4>1, <4>2, <4>3
    <3> QED
      BY <3>2, <3>3
  <2>20. ASSUME NEW m \in DOMAIN bound, NEW d \in Documents, Shared(d), bound'[m] = d
         PROVE  Sees(m, d)' \/ (bound[m] = d /\ ~Sees(m, d))
    <3>1. bound'[m] # NewHome(m) \/ \A v \in record.moves : v.page # m
      BY <1>0, <2>20, MoveForm DEF Shared
    <3>2. bound[m] = d /\ d \notin old
      BY <1>2, <2>20, <3>1, Movings, CorpusAssumption DEF old
    <3>3. Sees(m, d) => Sees(m, d)'
      BY <2>17, <3>2 DEF Sees
    <3> QED
      BY <3>2, <3>3
  <2> QED
    BY <1>0, <2>1, <2>14, <2>15, <2>18, <2>19, <2>20, HomesKept
<1> QED
  BY <1>1, <1>2

LEMMA HomesEnd ==
    ASSUME CorpusAssumption, TypesAssumption, ActsInv, HomesInv, NEW record \in pending, EndRun(record)
    PROVE  HomesInv'
<1>1. CASE DescribeDoctrine(record)
  BY <1>1, HomesQuiet DEF DescribeDoctrine, Finish
<1>2. CASE Resolve(record)
  BY <1>2, HomesQuiet DEF Resolve, Finish, identity, text
<1>3. CASE PromoteRelations(record)
  BY <1>3, HomesQuiet DEF PromoteRelations, Finish, identity, text
<1> QED
  BY <1>1, <1>2, <1>3, HomesIdentity, HomesSimple, HomesCompiled, HomesReprocess, HomesApply DEF EndRun

LEMMA HomesInit == ASSUME CorpusAssumption, TypesAssumption, CorpusInit PROVE HomesInv
<1>1. PICK old \in Bindings : Registered(old)
  BY DEF CorpusInit
<1> DEFINE held == {d \in Documents : \E m \in DOMAIN old : old[m] = d}
           own == UNION {{<<m, Article(old[m], n)>> : n \in Page[m].articles} :
                            m \in {m \in DOMAIN old : old[m] # NoDoc /\ old[m].act = Page[m].act}}
<1>2. /\ bound = old /\ docs = held /\ pending = {} /\ migrated = {}
      /\ ids = [d \in Documents |->
                   IF d \in held THEN {[key |-> d, issuer |-> NoIssuer, primary |-> TRUE]} ELSE {}]
      /\ observed = own /\ articles = {o[2] : o \in own}
  BY <1>1 DEF Registered
<1>3. ASSUME NEW m \in DOMAIN old, old[m] # NoDoc
      PROVE  old[m] \in Documents /\ old[m].issuer = NoIssuer
  BY <1>3 DEF CorpusAssumption, TypesAssumption
<1>4. \A d \in held : d \in Documents /\ d.issuer = NoIssuer /\ NoDoc \notin Documents
  BY <1>3, CorpusAssumption
<1>5. \A d \in Documents : d.issuer = NoIssuer => d = KeyOf(NoIssuer, d.act)
  BY DEF Documents, Key, KeyOf
<1>6. ASSUME NEW o \in own
      PROVE  /\ o = <<o[1], o[2]>> /\ o[1] \in DOMAIN old /\ o[2].document \in Documents
             /\ o[2] = Article(o[2].document, o[2].designation)
  <2>1. PICK m \in DOMAIN old : old[m] # NoDoc /\ \E n : o = <<m, Article(old[m], n)>>
    OBVIOUS
  <2>2. PICK n : o = <<m, Article(old[m], n)>>
    BY <2>1
  <2>3. o[1] = m /\ o[2] = Article(old[m], n) /\ o[2].document = old[m] /\ o[2].designation = n
    BY <2>2 DEF Article
  <2> QED
    BY <1>3, <2>1, <2>2, <2>3
<1> HIDE DEF held, own
<1>7. Rows
  <2>1. \A d \in Documents : \A i \in ids[d] : i.issuer = NoIssuer /\ i.key = d /\ d \in held
    BY <1>2
  <2>2. \A d \in held : \E i \in ids[d] : i.key = d
    <3> SUFFICES ASSUME NEW d \in held PROVE \E i \in ids[d] : i.key = d
      OBVIOUS
    <3>1. PICK i : i = [key |-> d, issuer |-> NoIssuer, primary |-> TRUE]
      OBVIOUS
    <3> QED
      BY <1>2, <1>4, <3>1
  <2>3. \A d \in docs : /\ \E i \in ids[d] : i.key = KeyOf(NoIssuer, d.act)
                        /\ d.issuer = NoIssuer \/ d.act \in Scoped
    BY <1>2, <1>4, <1>5, <2>2
  <2>4. \A d \in Documents \ docs : ids[d] = {}
    BY <1>2
  <2>5. \A d \in Documents \ migrated : \A i \in ids[d] : i.issuer = NoIssuer /\ i.key.issuer = NoIssuer
    BY <1>4, <2>1
  <2>6. docs \subseteq Documents /\ migrated \subseteq docs
    BY <1>2, <1>4
  <2> QED
    BY <2>3, <2>4, <2>5, <2>6 DEF Rows
<1>8. Bound
  <2> SUFFICES ASSUME NEW m \in DOMAIN old, old[m] # NoDoc, Ordinary(m)
               PROVE  old[m] = KeyOf(NoIssuer, Page[m].act)
    BY <1>2 DEF Bound, Lies
  <2>1. old[m].act = Page[m].act
    BY DEF CorpusAssumption, Ordinary
  <2> QED
    BY <1>3, <1>5, <2>1
<1>9. Texts
  BY <1>2, <1>6 DEF Texts
<1> QED
  BY <1>2, <1>7, <1>8, <1>9 DEF HomesInv

LEMMA HomesInvHolds == CorpusSpec => [](ActsInv /\ HomesInv)
<1>1. ActsInv /\ HomesInv /\ [CorpusNext]_corpus => HomesInv'
  <2> SUFFICES ASSUME ActsInv, HomesInv, [CorpusNext]_corpus PROVE HomesInv'
    OBVIOUS
  <2>1. CASE UNCHANGED corpus
    BY <2>1, HomesQuiet DEF corpus, identity, text
  <2> QED
    BY <2>1, CorpusAssumption, TypesAssumption, HomesStart, HomesEnd, HomesCleanup, HomesPlan DEF CorpusNext
<1>2. CorpusInit => HomesInv
  BY CorpusAssumption, TypesAssumption, HomesInit
<1> QED
  BY <1>1, <1>2, ActsInvHolds, PTL DEF CorpusSpec

\* Whatever ran between the plan of a migration and its transaction, every page that is
\* bound stays bound, and what was seen in it is still there, under its new document.
THEOREM MigrationLosesNothing == CorpusSpec => SplitLosesNothing
<1> DEFINE Kept == /\ \A m \in Manifestations : bound[m] # NoDoc => bound'[m] # NoDoc
                   /\ Seen' = Seen
                   /\ \A o \in observed : o[2].document = bound[o[1]] =>
                         Article(bound'[o[1]], o[2].designation) \in articles'
<1>1. ASSUME ActsInv, HomesInv, NEW record \in pending, ApplyMigration(record) PROVE Kept
  <2>1. CASE ~Applicable(record)
    <3>1. UNCHANGED <<bound, observed, articles>>
      BY <1>1, <2>1 DEF ApplyMigration, identity, text
    <3>2. \A o \in observed : o[2] \in articles /\ o[2] = Article(o[2].document, o[2].designation)
      BY <1>1 DEF HomesInv, Texts
    <3> QED
      BY <3>1, <3>2 DEF Seen
  <2>2. CASE Applicable(record)
    <3> DEFINE old == Parting(record)
    <3> USE CorpusAssumption, TypesAssumption
    <3>1. Aware(record) /\ record.tool = "migrate" /\ old \cap migrated = {}
      BY <1>1, <2>2, Movings DEF Applicable
    <3>2. /\ \A m \in DOMAIN bound :
                \/ bound'[m] = NewHome(m) /\ \E v \in record.moves : v.page = m
                \/ /\ \A v \in record.moves : v.page # m
                   /\ bound[m] \in old /\ bound'[m] = NoDoc
                \/ /\ \A v \in record.moves : v.page # m
                   /\ bound[m] \notin old /\ bound'[m] = bound[m]
          /\ \A o \in observed :
                \/ o[2].document \notin old /\ o \in observed' /\ o[2] \in articles'
                \/ /\ o[2].document \in old /\ o[1] \in Leaving(record, o[2].document)
                   /\ <<o[1], Article(NewHome(o[1]), o[2].designation)>> \in observed'
                   /\ Article(NewHome(o[1]), o[2].designation) \in articles'
          /\ \A q \in observed' : \E o \in observed :
                q = IF o[2].document \in old
                    THEN <<o[1], Article(NewHome(o[1]), o[2].designation)>> ELSE o
      BY <1>1, <2>2, Movings
    <3>3. \A d : \A m \in Leaving(record, d) : \E v \in record.moves : v.page = m /\ v.from = d
      BY DEF Leaving
    <3>4. ASSUME NEW m \in DOMAIN bound, bound[m] \in old PROVE \E v \in record.moves : v.page = m
      <4>1. m \in Leaving(record, bound[m]) \/ Sees(m, bound[m])
        BY <3>1, <3>4 DEF Aware
      <4>2. Sees(m, bound[m]) => m \in Leaving(record, bound[m])
        BY <2>2, <3>4 DEF Sees, Applicable
      <4> QED
        BY <3>3, <4>1, <4>2
    <3>5. \A v \in record.moves : NewHome(v.page) \in Documents /\ NoDoc \notin Documents
      BY <1>1, <3>1, MoveForm
    <3>6. \A o \in observed : /\ o = <<o[1], o[2]>> /\ o[1] \in DOMAIN bound
                              /\ o[2] = Article(o[2].document, o[2].designation)
      BY <1>1 DEF HomesInv, Texts
    <3> HIDE DEF old
    <3>7. \A m \in DOMAIN bound : bound[m] # NoDoc => bound'[m] # NoDoc
      BY <3>2, <3>4, <3>5
    <3>8. Seen' = Seen
      <4>1. \A d, n : Article(d, n).designation = n
        BY DEF Article
      <4>2. \A q \in observed' : \E o \in observed : q[1] = o[1] /\ q[2].designation = o[2].designation
        <5> SUFFICES ASSUME NEW q \in observed'
                     PROVE  \E o \in observed : q[1] = o[1] /\ q[2].designation = o[2].designation
          OBVIOUS
        <5>1. PICK o \in observed :
                 q = IF o[2].document \in old
                     THEN <<o[1], Article(NewHome(o[1]), o[2].designation)>> ELSE o
          BY <3>2
        <5> QED
          BY <4>1, <5>1
      <4>3. \A o \in observed : \E q \in observed' : q[1] = o[1] /\ q[2].designation = o[2].designation
        <5> SUFFICES ASSUME NEW o \in observed
                     PROVE  \E q \in observed' : q[1] = o[1] /\ q[2].designation = o[2].designation
          OBVIOUS
        <5>1. CASE o \in observed'
          BY <5>1
        <5>2. CASE o \notin observed'
          <6>1. PICK q : q = <<o[1], Article(NewHome(o[1]), o[2].designation)>>
            OBVIOUS
          <6>2. q \in observed' /\ q[1] = o[1] /\ q[2] = Article(NewHome(o[1]), o[2].designation)
            BY <3>2, <5>2, <6>1
          <6> QED
            BY <4>1, <6>2
        <5> QED
          BY <5>1, <5>2
      <4> QED
        BY <4>2, <4>3 DEF Seen
    <3>9. ASSUME NEW o \in observed, o[2].document = bound[o[1]]
          PROVE  Article(bound'[o[1]], o[2].designation) \in articles'
      <4>1. o[1] \in DOMAIN bound
        BY <3>6
      <4>2. CASE o[2].document \in old
        <5>1. bound'[o[1]] = NewHome(o[1])
          BY <3>2, <3>4, <3>9, <4>1, <4>2
        <5> QED
          BY <3>2, <4>2, <5>1
      <4>3. CASE o[2].document \notin old /\ \A v \in record.moves : v.page # o[1]
        <5>1. bound'[o[1]] = o[2].document
          BY <3>2, <3>9, <4>1, <4>3
        <5>2. o[2] \in articles'
          BY <3>2, <4>3
        <5> QED
          BY <3>6, <5>1, <5>2
      <4>4. CASE o[2].document \notin old /\ \E v \in record.moves : v.page = o[1]
        <5>1. PICK v \in record.moves : v.page = o[1]
          BY <4>4
        <5>2. /\ v.from \in old /\ Ordinary(o[1]) /\ v.from = KeyOf(NoIssuer, Page[o[1]].act)
              /\ bound'[o[1]] = NewHome(o[1])
          BY <1>1, <3>1, <3>2, <4>1, <5>1, MoveForm DEF old, Parting
        <5>3. Lies(o[1], bound[o[1]])
          BY <1>1, <4>1 DEF HomesInv, Bound
        <5>4. bound[o[1]] # NoDoc
          BY <1>1, <3>9, CorpusAssumption DEF HomesInv, Texts
        <5>5. bound[o[1]] = NewHome(o[1])
          BY <3>9, <4>4, <5>2, <5>3, <5>4 DEF Lies
        <5> QED
          BY <3>2, <3>6, <3>9, <4>4, <5>2, <5>5
      <4> QED
        BY <4>2, <4>3, <4>4
    <3> QED
      BY <3>7, <3>8, <3>9 DEF Manifestations
  <2> QED
    BY <2>1, <2>2
<1>2. ActsInv /\ HomesInv => [Migrating => Kept]_corpus
  BY <1>1 DEF Migrating
<1> QED
  BY <1>2, HomesInvHolds, PTL DEF SplitLosesNothing

-----------------------------------------------------------------------------
(* Issuers: whose document a document is, as far as its rows say so.         *)

\* All rows of a document name one authority, its own if it has one.
Uniform(d) ==
    \E issuer \in Issuer \cup {NoIssuer} :
       /\ d.issuer # NoIssuer => issuer = d.issuer
       /\ \A i \in ids[d] : i.issuer = issuer /\ i.key.issuer \in {NoIssuer, issuer}

\* A page of that authority is bound to the document.
Witness(d, issuer) ==
    \E m \in DOMAIN bound : bound[m] = d /\ Ordinary(m) /\ Page[m].issuer = issuer

\* Keys have an issuer where issuers matter; where they do not, a row names one only if
\* such a page is bound; and a migrated document is known by a qualified key.
IssuerRows ==
    /\ \A m \in DOMAIN bound : bound[m] \in docs \cup {NoDoc}
    /\ \A d \in Documents :
          /\ Uniform(d)
          /\ \A i \in ids[d] : i.key \in Documents /\ (i.key.issuer = NoIssuer \/ d.act \in Scoped)
          /\ d.act \notin Scoped => \A i \in ids[d] : i.issuer # NoIssuer => Witness(d, i.issuer)
          /\ Shared(d) /\ d \in migrated =>
                /\ \E i \in ids[d] : i.primary
                /\ \A i \in ids[d] : i.primary => i.key.issuer # NoIssuer

\* d is and stays a document of the issuer.
Fixed(d, issuer) ==
    \/ d.issuer = issuer
    \/ /\ d.issuer = NoIssuer /\ \A i \in ids[d] : i.issuer = issuer
       /\ Shared(d) => d \in migrated
       /\ d.act \notin Scoped => Witness(d, issuer)

\* d is an answer to mention x.
Answers(d, x) ==
    d # NoDoc => /\ d \in Documents /\ d.act = Mention[x].act
                 /\ Mention[x].issuer # NoIssuer => Fixed(d, Mention[x].issuer)

\* What a tool in the middle of a run may count on.
Waits(record) ==
    /\ record.tool = "resolve" => Answers(record.answer.target.document, record.first)
    /\ record.tool = "migrate" => /\ \A s \in record.single : s.document \notin migrated
                                  /\ \A q \in pending : q.tool = "migrate" => q = record
    /\ record.tool = "reprocess" =>
          /\ record.existing # NoDoc
          /\ Ordinary(record.page) /\ Page[record.page].act \notin Scoped
                => bound[record.page] = record.existing

IssuersInv ==
    /\ IsFiniteSet(pending) /\ IssuerRows
    /\ \A x \in Mentions : \A d \in {resolved[x].document} : d \in docs \cup {NoDoc} /\ Answers(d, x)
    /\ \A record \in pending : Waits(record)

\* An ordinary page of an act that needs no issuer stays where it is bound.
Stays ==
    \A m \in DOMAIN bound :
       Ordinary(m) /\ Page[m].act \notin Scoped /\ bound[m] # NoDoc => bound'[m] = bound[m]

\* A document keeps its issuer.
Settled == \A d \in Documents : \A I : I # NoIssuer /\ Fixed(d, I) => Fixed(d, I)'

LEMMA WitnessKept ==
    ASSUME CorpusAssumption, ActsInv, Stays, DOMAIN bound' = DOMAIN bound,
           NEW d \in Documents, d.act \notin Scoped, NEW I, Witness(d, I)
    PROVE  Witness(d, I)'
<1>1. PICK m \in DOMAIN bound : bound[m] = d /\ Ordinary(m) /\ Page[m].issuer = I
  BY DEF Witness
<1>2. d # NoDoc
  BY CorpusAssumption
<1>3. bound'[m] = d
  BY <1>1, <1>2 DEF ActsInv, Stays
<1> QED
  BY <1>1, <1>3 DEF Witness

\* An ordinary page of an act that needs no issuer has one home.
LEMMA OneHome ==
    ASSUME CorpusAssumption, TypesAssumption, NEW m \in DOMAIN Page, Ordinary(m), Page[m].act \notin Scoped,
           NEW d, Lies(m, d), d # NoDoc
    PROVE  /\ d = KeyOf(NoIssuer, Page[m].act)
           /\ Assess(Page[m]) = AssessGeneric(Page[m])
           /\ CanonicalKey(AssessGeneric(Page[m]).signal) = d
<1>1. NewHome(m) = KeyOf(NoIssuer, Page[m].act)
  BY Issuers
<1> QED
  BY <1>1, Assessments DEF Lies, NewHome

\* Rows may go, or be the same: nothing is settled anew.
LEMMA SettledBy ==
    ASSUME CorpusAssumption, ActsInv, Stays, DOMAIN bound' = DOMAIN bound, migrated \subseteq migrated',
           \A d \in Documents : \A I : I # NoIssuer /\ Fixed(d, I) /\ d.issuer # I =>
              \A i \in ids'[d] : i.issuer = I
    PROVE  Settled
<1> SUFFICES ASSUME NEW d \in Documents, NEW I, I # NoIssuer, Fixed(d, I), d.issuer # I PROVE Fixed(d, I)'
  BY DEF Settled, Fixed
<1>1. \A i \in ids'[d] : i.issuer = I
  OBVIOUS
<1>2. d.act \notin Scoped => Witness(d, I)'
  BY WitnessKept DEF Fixed
<1> QED
  BY <1>1, <1>2 DEF Fixed

LEMMA IssuersKept ==
    ASSUME HomesInv, IssuersInv, IssuerRows', IsFiniteSet(pending'), Settled, Stays,
           DOMAIN bound' = DOMAIN bound,
           \A x \in Mentions : /\ resolved'[x].document \in docs' \cup {NoDoc}
                               /\ resolved'[x].document \in {resolved[x].document, NoDoc},
           \A r \in pending' : \/ r \in pending
                               \/ r.tool \notin {"resolve", "migrate", "reprocess"},
           migrated' = migrated \/ \A r \in pending' : r.tool # "migrate"
    PROVE  IssuersInv'
<1>1. ASSUME NEW d, NEW x, Answers(d, x) PROVE Answers(d, x)'
  BY <1>1 DEF Answers, Settled
<1>2. \A x \in Mentions : \A d \in {resolved'[x].document} : d \in docs' \cup {NoDoc} /\ Answers(d, x)'
  <2> SUFFICES ASSUME NEW x \in Mentions, NEW d \in {resolved'[x].document}
               PROVE  d \in docs' \cup {NoDoc} /\ Answers(d, x)'
    OBVIOUS
  <2>1. d \in docs' \cup {NoDoc} /\ d \in {resolved[x].document, NoDoc}
    OBVIOUS
  <2>2. Answers(d, x)
    BY <2>1 DEF IssuersInv, Answers
  <2> QED
    BY <1>1, <2>1, <2>2
<1>3. ASSUME NEW r \in pending' PROVE Waits(r)'
  <2>1. CASE r.tool \notin {"resolve", "migrate", "reprocess"}
    BY <2>1 DEF Waits
  <2>2. CASE r \in pending
    <3>1. Waits(r) /\ Aware(r)
      BY <2>2 DEF IssuersInv, HomesInv
    <3>2. CASE r.tool = "resolve"
      <4>1. Answers(r.answer.target.document, r.first)'
        BY <1>1, <3>1, <3>2 DEF Waits
      <4> QED
        BY <3>2, <4>1 DEF Waits
    <3>3. CASE r.tool = "migrate"
      <4>1. migrated' = migrated
        BY <3>3
      <4>2. \A q \in pending' : q.tool = "migrate" => q = r
        BY <3>1, <3>3 DEF Waits
      <4> QED
        BY <3>1, <3>3, <4>1, <4>2 DEF Waits
    <3>4. CASE r.tool = "reprocess"
      <4>1. r.page \in DOMAIN bound
        BY <3>1, <3>4 DEF Aware
      <4> QED
        BY <3>1, <3>4, <4>1 DEF Waits, Stays
    <3> QED
      BY <2>1, <3>2, <3>3, <3>4
  <2> QED
    BY <2>1, <2>2
<1> QED
  BY <1>2, <1>3 DEF IssuersInv

\* Finite sets of runs.
LEMMA PendingFinite ==
    ASSUME IsFiniteSet(pending), NEW r, pending' \subseteq pending \cup {r}
    PROVE  IsFiniteSet(pending')
  BY FS_AddElement, FS_Subset

\* Rows and bindings stay, and so does what is known of issuers.
LEMMA IssuersQuiet ==
    ASSUME CorpusAssumption, ActsInv, HomesInv, IssuersInv,
           UNCHANGED <<docs, ids, bound, migrated>>, IsFiniteSet(pending'),
           \A x \in Mentions : \A d \in {resolved'[x].document} : d \in docs \cup {NoDoc} /\ Answers(d, x),
           \A r \in pending' : r \in pending \/ Waits(r)',
           \/ \A r \in pending : r.tool # "migrate"
           \/ \A r \in pending' : r \in pending \/ r.tool # "migrate"
    PROVE  IssuersInv'
<1>1. \A d, I : (Fixed(d, I)' <=> Fixed(d, I)) /\ (Witness(d, I)' <=> Witness(d, I))
  BY DEF Fixed, Witness
<1>2. \A d \in Documents : Uniform(d) => Uniform(d)'
  BY DEF Uniform
<1>3. IssuerRows'
  <2>1. \A m \in DOMAIN bound' : bound'[m] \in docs' \cup {NoDoc}
    BY DEF IssuersInv, IssuerRows
  <2>2. ASSUME NEW d \in Documents
        PROVE  /\ Uniform(d)'
               /\ \A i \in ids'[d] : i.key \in Documents /\ (i.key.issuer = NoIssuer \/ d.act \in Scoped)
               /\ d.act \notin Scoped => \A i \in ids'[d] : i.issuer # NoIssuer => Witness(d, i.issuer)'
               /\ Shared(d) /\ d \in migrated' =>
                     /\ \E i \in ids'[d] : i.primary
                     /\ \A i \in ids'[d] : i.primary => i.key.issuer # NoIssuer
    BY <1>1, <1>2 DEF IssuersInv, IssuerRows
  <2> QED
    BY <2>1, <2>2 DEF IssuerRows, Shared
<1>4. \A d, x : Answers(d, x) => Answers(d, x)'
  BY <1>1 DEF Answers
<1>5. \A x \in Mentions : \A d \in {resolved'[x].document} : d \in docs' \cup {NoDoc} /\ Answers(d, x)'
  BY <1>4
<1>6. ASSUME NEW r \in pending, r \in pending' PROVE Waits(r)'
  <2>1. Waits(r)
    BY DEF IssuersInv
  <2>2. r.tool = "migrate" => \A q \in pending' : q.tool = "migrate" => q = r
    BY <2>1 DEF Waits
  <2>3. r.tool = "resolve" => Answers(r.answer.target.document, r.first)'
    BY <1>4, <2>1 DEF Waits
  <2> QED
    BY <2>1, <2>2, <2>3 DEF Waits
<1> QED
  BY <1>3, <1>5, <1>6 DEF IssuersInv

\* Rows stay; a page that is not ordinary, or of an act that needs an issuer, may be unbound.
LEMMA IssuersUnbind ==
    ASSUME CorpusAssumption, ActsInv, HomesInv, IssuersInv, UNCHANGED <<docs, ids, migrated>>, NEW m,
           \/ bound' = bound
           \/ /\ bound' = [bound EXCEPT ![m] = NoDoc]
              /\ ~(Ordinary(m) /\ Page[m].act \notin Scoped),
           \A x \in Mentions : resolved'[x].document = resolved[x].document,
           pending' \subseteq pending
    PROVE  IssuersInv'
<1>1. /\ DOMAIN bound' = DOMAIN bound
      /\ \A x \in DOMAIN bound : bound'[x] = NoDoc \/ bound'[x] = bound[x]
  BY DEF ActsInv
<1>2. Stays
  BY DEF Stays, ActsInv
<1>3. Settled
  BY <1>1, <1>2, SettledBy DEF Fixed
<1>4. IssuerRows'
  <2>1. \A x \in DOMAIN bound' : bound'[x] \in docs' \cup {NoDoc}
    BY <1>1 DEF IssuersInv, IssuerRows
  <2>2. ASSUME NEW d \in Documents
        PROVE  /\ Uniform(d)'
               /\ \A i \in ids'[d] : i.key \in Documents /\ (i.key.issuer = NoIssuer \/ d.act \in Scoped)
               /\ d.act \notin Scoped => \A i \in ids'[d] : i.issuer # NoIssuer => Witness(d, i.issuer)'
               /\ Shared(d) /\ d \in migrated' =>
                     /\ \E i \in ids'[d] : i.primary
                     /\ \A i \in ids'[d] : i.primary => i.key.issuer # NoIssuer
    <3>1. Uniform(d)'
      BY DEF IssuersInv, IssuerRows, Uniform
    <3>2. d.act \notin Scoped => \A I : Witness(d, I) => Witness(d, I)'
      BY <1>1, <1>2, WitnessKept
    <3> QED
      BY <3>1, <3>2 DEF IssuersInv, IssuerRows
  <2> QED
    BY <2>1, <2>2 DEF IssuerRows, Shared
<1>5. IsFiniteSet(pending')
  BY FS_Subset DEF IssuersInv
<1>6. \A x \in Mentions : resolved'[x].document \in docs' \cup {NoDoc}
  BY DEF IssuersInv
<1> QED
  BY <1>1, <1>2, <1>3, <1>4, <1>5, <1>6, IssuersKept

\* What the rows of a document say after a page of the signal has come to it.
LEMMA SignalRows ==
    ASSUME CorpusAssumption, ActsInv, HomesInv, IssuersInv, NEW d \in Documents, NEW signal,
           d.act = signal.act, signal.issuer \in Issuer \cup {NoIssuer}, signal.act \in Act,
           signal.act \in Scoped => signal.issuer # NoIssuer,
           \/ d = CanonicalKey(signal)
           \/ Equivalent(ids[d], signal, signal.act \notin Generic)
    PROVE  /\ \A i \in Upsert(ids[d], signal) :
                 /\ i.issuer = signal.issuer /\ i.key.issuer \in {NoIssuer, signal.issuer}
                 /\ i.key \in Documents /\ (i.key.issuer = NoIssuer \/ d.act \in Scoped)
           /\ d.issuer # NoIssuer => signal.issuer = d.issuer
           /\ \A I : I # NoIssuer /\ Fixed(d, I) /\ d.issuer # I /\ d.act \in Scoped
                        /\ (Shared(d) => d # CanonicalKey(signal)) => signal.issuer = I
<1> DEFINE S == signal.issuer
<1>0. /\ \A i \in ids[d] : /\ i.key \in Documents /\ i.key.act = d.act
                           /\ i.key.issuer = NoIssuer \/ d.act \in Scoped
      /\ Uniform(d)
  BY DEF IssuersInv, IssuerRows, ActsInv
<1>1. PICK J \in Issuer \cup {NoIssuer} :
         /\ d.issuer # NoIssuer => J = d.issuer
         /\ \A i \in ids[d] : i.issuer = J /\ i.key.issuer \in {NoIssuer, J}
  BY <1>0 DEF Uniform
<1>2. \A k \in Documents : k = KeyOf(k.issuer, k.act)
  BY DEF Documents, Key, KeyOf
<1>3. \A k \in CanonicalKeys(signal) : /\ k \in Documents /\ k.issuer \in {NoIssuer, S}
                                       /\ k.issuer = NoIssuer \/ d.act \in Scoped
  BY DEF CanonicalKeys, CanonicalKey, KeyOf, Documents, Key
<1>4. \A i \in Upsert(ids[d], signal) :
         \/ i \in ids[d] /\ i.key \notin CanonicalKeys(signal)
         \/ i.issuer = S /\ i.key \in CanonicalKeys(signal)
  BY DEF Upsert
<1>5. \A i \in ids[d] : i.key.issuer = NoIssuer => i.key \in CanonicalKeys(signal)
  BY <1>0, <1>2 DEF CanonicalKeys
<1>6. d = CanonicalKey(signal) /\ d.act \in Scoped => d.issuer = S /\ J = S
  BY <1>1 DEF CanonicalKey, KeyOf
<1>7. d.act \notin Scoped => d.issuer = NoIssuer
  <2>1. CASE d = CanonicalKey(signal)
    BY <2>1 DEF CanonicalKey, KeyOf
  <2>2. CASE ids[d] # {}
    BY <2>2 DEF HomesInv, Rows
  <2> QED
    BY <2>1, <2>2 DEF Equivalent
<1>8. d.act \in Scoped => J = S \/ (J = NoIssuer /\ d.issuer = NoIssuer)
  <2>1. CASE d = CanonicalKey(signal)
    BY <1>6, <2>1
  <2>2. CASE Equivalent(ids[d], signal, signal.act \notin Generic)
    BY <1>1, <2>2 DEF Equivalent
  <2> QED
    BY <2>1, <2>2
<1>9. \A i \in ids[d] : i.key \notin CanonicalKeys(signal) => i.issuer = S
  BY <1>0, <1>1, <1>5, <1>8
<1>10. d.issuer # NoIssuer => S = d.issuer
  BY <1>1, <1>7, <1>8
<1>11. ASSUME NEW I, I # NoIssuer, Fixed(d, I), d.issuer # I, d.act \in Scoped,
              Shared(d) => d # CanonicalKey(signal)
       PROVE  S = I
  <2>1. d.issuer = NoIssuer /\ \A i \in ids[d] : i.issuer = I
    BY <1>11 DEF Fixed
  <2>2. d # CanonicalKey(signal)
    BY <1>6, <1>11, <2>1
  <2>3. ids[d] # {}
    BY <2>2 DEF Equivalent
  <2> QED
    BY <1>1, <1>8, <1>11, <2>1, <2>3
<1> QED
  BY <1>0, <1>3, <1>4, <1>9, <1>10, <1>11, <1>1

\* A page joins a document.
LEMMA IssuersJoin ==
    ASSUME CorpusAssumption, TypesAssumption, ActsInv, HomesInv, IssuersInv, NEW m, NEW d, NEW signal,
           Joins(m, d, signal), BindTo(d, signal, m), UNCHANGED resolved, IsFiniteSet(pending'),
           \A r \in pending' : r \in pending \/ r.tool \notin {"resolve", "migrate", "reprocess"}
    PROVE  IssuersInv'
<1>1. /\ docs' = docs \cup {d} /\ migrated' = migrated /\ d \in Documents /\ m \in DOMAIN bound
      /\ m \in DOMAIN Page /\ ids' = [ids EXCEPT ![d] = Upsert(ids[d], signal)]
  BY DEF BindTo, Joins, ActsInv
<1>2. /\ DOMAIN bound' = DOMAIN bound
      /\ \A x \in DOMAIN bound : bound'[x] = IF x = m THEN d ELSE bound[x]
  BY DEF ActsInv, BindTo
<1>3. \A x \in Documents : ids'[x] = IF x = d THEN Upsert(ids[d], signal) ELSE ids[x]
  BY <1>1 DEF ActsInv
<1>4. Stays
  <2> SUFFICES ASSUME Ordinary(m), Page[m].act \notin Scoped, bound[m] # NoDoc PROVE bound[m] = d
    BY <1>2 DEF Stays
  <2>1. Lies(m, bound[m]) /\ Lies(m, d) /\ d # NoDoc
    BY <1>1, CorpusAssumption DEF HomesInv, Bound, Joins
  <2> QED
    BY <1>1, <2>1, OneHome
<1>5. /\ signal.act \in Act /\ signal.issuer \in Issuer \cup {NoIssuer} /\ d.act = signal.act
      /\ signal.act \in Scoped => signal.issuer # NoIssuer
      /\ d = CanonicalKey(signal) \/ Equivalent(ids[d], signal, signal.act \notin Generic)
  BY <1>1 DEF Joins, Documents, Key
<1>6. /\ \A i \in ids'[d] :
            /\ i.issuer = signal.issuer /\ i.key.issuer \in {NoIssuer, signal.issuer}
            /\ i.key \in Documents /\ (i.key.issuer = NoIssuer \/ d.act \in Scoped)
      /\ d.issuer # NoIssuer => signal.issuer = d.issuer
      /\ \A I : I # NoIssuer /\ Fixed(d, I) /\ d.issuer # I /\ d.act \in Scoped
                   /\ (Shared(d) => d # CanonicalKey(signal)) => signal.issuer = I
  BY <1>1, <1>3, <1>5, SignalRows
<1>7. d.act \notin Scoped => Ordinary(m) /\ signal.issuer = Page[m].issuer /\ d.act = Page[m].act
  BY <1>5 DEF Joins, Signal
<1>8. ASSUME d.act \notin Scoped PROVE Witness(d, signal.issuer)'
  BY <1>1, <1>2, <1>7, <1>8 DEF Witness
<1>9. Shared(d) => d # CanonicalKey(signal)
  BY <1>5 DEF Shared, CanonicalKey, KeyOf
<1>10. ASSUME NEW I, I # NoIssuer, Fixed(d, I), d.issuer # I PROVE signal.issuer = I
  <2>1. CASE d.act \in Scoped
    BY <1>6, <1>9, <1>10, <2>1
  <2>2. CASE d.act \notin Scoped
    <3>1. PICK w \in DOMAIN bound : bound[w] = d /\ Ordinary(w) /\ Page[w].issuer = I
      BY <1>10, <2>2 DEF Fixed, Witness
    <3>2. w \in DOMAIN Page /\ Page[w].act = d.act
      BY <1>1, <3>1, CorpusAssumption DEF ActsInv
    <3> QED
      BY <1>1, <1>7, <2>2, <3>1, <3>2 DEF TypesAssumption, Ordinary
  <2> QED
    BY <2>1, <2>2
<1>11. Settled
  <2>1. ASSUME NEW x \in Documents, NEW I, I # NoIssuer, Fixed(x, I), x.issuer # I, NEW i \in ids'[x]
        PROVE  i.issuer = I
    <3>1. CASE x = d
      BY <1>6, <1>10, <2>1, <3>1
    <3>2. CASE x # d
      BY <1>3, <2>1, <3>2 DEF Fixed
    <3> QED
      BY <3>1, <3>2
  <2> QED
    BY <1>1, <1>2, <1>4, <2>1, SettledBy
<1>12. IssuerRows'
  <2>1. \A x \in DOMAIN bound' : bound'[x] \in docs' \cup {NoDoc}
    BY <1>1, <1>2 DEF IssuersInv, IssuerRows
  <2>2. ASSUME NEW x \in Documents
        PROVE  /\ Uniform(x)'
               /\ \A i \in ids'[x] : i.key \in Documents /\ (i.key.issuer = NoIssuer \/ x.act \in Scoped)
               /\ x.act \notin Scoped => \A i \in ids'[x] : i.issuer # NoIssuer => Witness(x, i.issuer)'
               /\ Shared(x) /\ x \in migrated' =>
                     /\ \E i \in ids'[x] : i.primary
                     /\ \A i \in ids'[x] : i.primary => i.key.issuer # NoIssuer
    <3>1. CASE x # d
      <4>1. ids'[x] = ids[x]
        BY <1>3, <3>1
      <4>2. x.act \notin Scoped => \A I : Witness(x, I) => Witness(x, I)'
        BY <1>2, <1>4, WitnessKept
      <4>3. Uniform(x)'
        BY <4>1 DEF IssuersInv, IssuerRows, Uniform
      <4> QED
        BY <1>1, <4>1, <4>2, <4>3 DEF IssuersInv, IssuerRows
    <3>2. CASE x = d
      <4>1. Uniform(d)'
        BY <1>5, <1>6 DEF Uniform
      <4>2. d.act \notin Scoped => \A i \in ids'[d] : Witness(d, i.issuer)'
        <5> SUFFICES ASSUME d.act \notin Scoped, NEW I, I = signal.issuer PROVE Witness(d, I)'
          BY <1>6
        <5> QED
          BY <1>8
      <4>3. ASSUME Shared(d), d \in migrated
            PROVE  /\ \E i \in ids'[d] : i.primary
                   /\ \A i \in ids'[d] : i.primary => i.key.issuer # NoIssuer
        <5>1. d.act \in Scoped /\ signal.issuer # NoIssuer
          BY <1>5, <4>3 DEF Shared
        <5>2. PICK k : k = CanonicalKey(signal)
          OBVIOUS
        <5>3. k \in CanonicalKeys(signal) /\ k.issuer # NoIssuer
          BY <1>5, <5>1, <5>2 DEF CanonicalKeys, CanonicalKey, KeyOf
        <5>4. PICK i : i = [key |-> k, issuer |-> signal.issuer, primary |-> k = CanonicalKey(signal)]
          OBVIOUS
        <5>7. i \in Upsert(ids[d], signal)
          BY <5>3, <5>4 DEF Upsert
        <5>8. i.primary
          BY <5>2, <5>4
        <5>5. i \in ids'[d] /\ i.primary
          BY <1>1, <1>3, <5>7, <5>8
        <5>6. ASSUME NEW j \in ids'[d], j.primary PROVE j.key.issuer # NoIssuer
          <6>1. j \in ids[d] \/ \E c \in CanonicalKeys(signal) :
                   j = [key |-> c, issuer |-> signal.issuer, primary |-> c = CanonicalKey(signal)]
            BY <1>1, <1>3 DEF Upsert
          <6>2. CASE j \in ids[d]
            BY <1>1, <4>3, <5>6, <6>2 DEF IssuersInv, IssuerRows
          <6>3. ASSUME NEW c, j = [key |-> c, issuer |-> signal.issuer, primary |-> c = CanonicalKey(signal)]
                PROVE  j.key.issuer # NoIssuer
            <7>1. j.key = c /\ (j.primary <=> c = k)
              BY <5>2, <6>3
            <7> QED
              BY <5>3, <5>6, <7>1
          <6> QED
            BY <6>1, <6>2, <6>3
        <5> QED
          BY <5>5, <5>6
      <4> QED
        BY <1>1, <1>6, <3>2, <4>1, <4>2, <4>3
    <3> QED
      BY <3>1, <3>2
  <2> QED
    BY <2>1, <2>2 DEF IssuerRows, Shared
<1>13. \A x \in Mentions : resolved'[x].document \in docs' \cup {NoDoc}
  BY <1>1 DEF IssuersInv
<1> QED
  BY <1>1, <1>2, <1>4, <1>11, <1>12, <1>13, IssuersKept

\* A page that is rejected for a conflict is not one with a single home.
LEMMA NoConflict ==
    ASSUME CorpusAssumption, TypesAssumption, ActsInv, HomesInv, NEW record \in pending,
           record.tool \in {"identity", "simple checked"},
           Ordinary(record.page), Page[record.page].act \notin Scoped, NEW u
    PROVE  /\ ~Misbound(record, AssessGeneric(Page[record.page]).signal, u)
           /\ Assess(Page[record.page]) = AssessGeneric(Page[record.page])
<1>1. record.page \in DOMAIN Page /\ Lies(record.page, record.existing)
  BY DEF ActsInv, Sound, HomesInv, Aware
<1> QED
  BY <1>1, OneHome, Assessments DEF Misbound

LEMMA IssuersIdentity ==
    ASSUME CorpusAssumption, TypesAssumption, ActsInv, HomesInv, IssuersInv, NEW record \in pending,
           RegisterIdentity(record)
    PROVE  IssuersInv'
<1> DEFINE m == record.page
           a == Assess(Page[m])
           conflict == a.accepted /\ Misbound(record, a.signal, IsFamily(Page[m]))
<1>1. record.tool = "identity" /\ UNCHANGED resolved
  BY DEF RegisterIdentity, Read, graph
<1>2. CASE ~a.accepted \/ conflict
  <2>1. \E reason : Reject(record, reason)
    BY <1>2 DEF RegisterIdentity
  <2>2. pending' \subseteq pending
    BY <1>2 DEF RegisterIdentity, Finish
  <2>3. /\ UNCHANGED <<docs, ids, migrated>>
        /\ bound' = bound \/ bound' = [bound EXCEPT ![record.page] = NoDoc]
    BY <2>1 DEF Reject
  <2>4. ~(Ordinary(m) /\ Page[m].act \notin Scoped)
    BY <1>1, <1>2, NoConflict DEF Ordinary
  <2> QED
    BY <1>1, <2>2, <2>3, <2>4, IssuersUnbind
<1>3. CASE a.accepted /\ ~conflict
  <2>1. BindTo(Home(record, a.signal), a.signal, m)
    BY <1>3 DEF RegisterIdentity
  <2>2. PICK q : q.tool = "doctrine" /\ pending' \subseteq pending \cup {q}
    <3>1. PICK q : q = [tool |-> "doctrine", page |-> m, existing |-> Home(record, a.signal)]
      OBVIOUS
    <3>2. q.tool = "doctrine" /\ pending' \subseteq pending \cup {q}
      BY <1>3, <3>1 DEF RegisterIdentity, Finish, Continue
    <3> QED
      BY <3>2
  <2>3. PICK x, u, signal : x = a /\ u = IsFamily(Page[m]) /\ signal = a.signal
    OBVIOUS
  <2>4. x.accepted /\ ~Misbound(record, x.signal, u)
    BY <1>3, <2>3
  <2>5. Joins(m, Home(record, x.signal), x.signal)
    BY <1>1, <2>3, <2>4, HomeJoins
  <2>6. PICK d, y : d = Home(record, signal) /\ y = m
    OBVIOUS
  <2>7. Joins(y, d, signal) /\ BindTo(d, signal, y)
    BY <2>1, <2>3, <2>5, <2>6
  <2>8. IsFiniteSet(pending')
    BY <2>2, PendingFinite DEF IssuersInv
  <2>9. \A r \in pending' : r \in pending \/ r.tool \notin {"resolve", "migrate", "reprocess"}
    BY <2>2
  <2> HIDE DEF m, a
  <2> QED
    BY <1>1, <2>7, <2>8, <2>9, IssuersJoin
<1> QED
  BY <1>2, <1>3

LEMMA IssuersSimple ==
    ASSUME CorpusAssumption, TypesAssumption, ActsInv, HomesInv, IssuersInv, NEW record \in pending,
           AssessSimple(record) \/ RegisterSimple(record)
    PROVE  IssuersInv'
<1>0. Sound(record) /\ record.tool \in {"simple", "simple checked"} /\ UNCHANGED resolved
  BY DEF ActsInv, AssessSimple, RegisterSimple, Read, graph
<1>1. ASSUME NEW reason, Reject(record, reason), pending' \subseteq pending,
             ~(Ordinary(record.page) /\ Page[record.page].act \notin Scoped)
      PROVE  IssuersInv'
  <2>1. /\ UNCHANGED <<docs, ids, migrated>>
        /\ bound' = bound \/ bound' = [bound EXCEPT ![record.page] = NoDoc]
    BY <1>1 DEF Reject
  <2> QED
    BY <1>0, <1>1, <2>1, IssuersUnbind
<1>4. ASSUME NEW q, q.tool \notin {"resolve", "migrate", "reprocess"}, pending' \subseteq pending \cup {q},
             UNCHANGED <<docs, ids, bound, migrated>>
      PROVE  IssuersInv'
  <2>1. IsFiniteSet(pending')
    BY <1>4, PendingFinite DEF IssuersInv
  <2>2. Waits(q)'
    BY <1>4 DEF Waits
  <2>3. \A x \in Mentions : \A d \in {resolved'[x].document} : d \in docs \cup {NoDoc} /\ Answers(d, x)
    BY <1>0 DEF IssuersInv
  <2> QED
    BY <1>4, <2>1, <2>2, <2>3, IssuersQuiet
<1>2. CASE AssessSimple(record)
  <2>1. CASE Ordinary(record.page)
    <3>1. PICK q : q = [tool |-> "simple checked", page |-> record.page, existing |-> record.existing]
      OBVIOUS
    <3>2. q.tool = "simple checked" /\ UNCHANGED <<docs, ids, bound, migrated>> /\ pending' \subseteq pending \cup {q}
      BY <1>2, <2>1, <3>1 DEF AssessSimple, Continue, Ordinary, identity
    <3> QED
      BY <1>4, <3>2
  <2>2. CASE ~Ordinary(record.page)
    BY <1>1, <1>2, <2>2 DEF AssessSimple, Finish, Ordinary
  <2> QED
    BY <2>1, <2>2
<1>3. CASE RegisterSimple(record)
  <2> DEFINE m == record.page
             signal == AssessGeneric(Page[m]).signal
             d == Home(record, signal)
             own == {Article(d, n) : n \in Page[m].articles}
  <2>1. record.tool = "simple checked" /\ Ordinary(m) /\ pending' \subseteq pending
    BY <1>0, <1>3 DEF Sound, RegisterSimple, Read, Finish
  <2>2. CASE Misbound(record, signal, FALSE)
    <3>1. ~(Ordinary(m) /\ Page[m].act \notin Scoped)
      BY <2>1, <2>2, NoConflict
    <3> QED
      BY <1>1, <1>3, <2>1, <2>2, <3>1 DEF RegisterSimple
  <2>3. CASE ~Misbound(record, signal, FALSE) /\ own = {}
    <3>1. UNCHANGED <<docs, ids, bound, migrated>>
      BY <1>3, <2>3 DEF RegisterSimple, identity
    <3> QED
      BY <1>0, <1>4, <2>1, <3>1
  <2>4. CASE ~Misbound(record, signal, FALSE) /\ own # {}
    <3>1. BindTo(d, signal, m)
      BY <1>3, <2>4 DEF RegisterSimple
    <3>2. PICK x, s, u : x = AssessGeneric(Page[m]) /\ s = signal /\ u = FALSE
      OBVIOUS
    <3>3. x.accepted /\ ~Misbound(record, x.signal, u)
      BY <2>1, <2>4, <3>2 DEF Ordinary
    <3>4. Joins(m, Home(record, x.signal), x.signal)
      BY <2>1, <3>2, <3>3, HomeJoins
    <3>5. PICK e, y : e = d /\ y = m
      OBVIOUS
    <3>6. Joins(y, e, s) /\ BindTo(e, s, y)
      BY <3>1, <3>2, <3>4, <3>5
    <3>7. IsFiniteSet(pending') /\ \A r \in pending' : r \in pending
      BY <2>1, FS_Subset DEF IssuersInv
    <3> HIDE DEF d, signal, m
    <3> QED
      BY <1>0, <3>6, <3>7, IssuersJoin
  <2> QED
    BY <2>2, <2>3, <2>4
<1> QED
  BY <1>2, <1>3

\* The heading's key names no issuer, but a document that has one already keeps its rows.
LEMMA IssuersCompiled ==
    ASSUME CorpusAssumption, TypesAssumption, ActsInv, HomesInv, IssuersInv, NEW record \in pending,
           RegisterCompiled(record)
    PROVE  IssuersInv'
<1> DEFINE m == record.page
           d == KeyOf(NoIssuer, Page[m].heading)
           row == [key |-> d, issuer |-> NoIssuer, primary |-> TRUE]
<1>0. Sound(record) /\ Aware(record) /\ record.tool = "compiled" /\ pending' \subseteq pending /\ UNCHANGED resolved
  BY DEF ActsInv, HomesInv, RegisterCompiled, Read, Finish, graph
<1>5. IsFiniteSet(pending')
  BY <1>0, FS_Subset DEF IssuersInv
<1>1. CASE record.existing \notin {NoDoc, d}
  <2>1. UNCHANGED <<docs, ids, bound, migrated>>
    BY <1>1 DEF RegisterCompiled, identity
  <2>2. \A x \in Mentions : \A y \in {resolved'[x].document} : y \in docs \cup {NoDoc} /\ Answers(y, x)
    BY <1>0 DEF IssuersInv
  <2> QED
    BY <1>0, <1>5, <2>1, <2>2, IssuersQuiet
<1>2. CASE record.existing \in {NoDoc, d}
  <2>1. /\ docs' = docs \cup {d} /\ migrated' = migrated
        /\ ids' = [ids EXCEPT ![d] = IF \E r \in @ : r.key = d THEN @ ELSE @ \cup {row}]
        /\ bound' = [bound EXCEPT ![m] = d]
    BY <1>2 DEF RegisterCompiled
  <2>2. m \in DOMAIN bound /\ m \in DOMAIN Page /\ Page[m].heading \in Act /\ Page[m].heading \in Generic
    BY <1>0 DEF Sound, Aware, CorpusAssumption, TypesAssumption, ActsInv
  <2>3. /\ d \in Documents /\ d.issuer = NoIssuer /\ d.act = Page[m].heading /\ d.act \in Generic
        /\ d = KeyOf(NoIssuer, d.act) /\ row.key = d /\ row.issuer = NoIssuer /\ row.primary
    BY <2>2 DEF KeyOf, Documents, Key
  <2>4. Lies(m, d)
    BY <2>2, Assessments DEF Lies
  <2> HIDE DEF row, d, m
  <2>5. /\ d \in docs => ids' = ids
        /\ d \notin docs => ids[d] = {} /\ d \notin migrated
        /\ \A x \in Documents : ids'[x] = ids[x] \/ (x = d /\ d \notin docs /\ ids'[x] = {row})
    <3>1. /\ d \in docs => \E r \in ids[d] : r.key = d
          /\ d \notin docs => ids[d] = {} /\ d \notin migrated
      BY <2>3 DEF HomesInv, Rows
    <3> QED
      BY <2>1, <2>3, <3>1 DEF ActsInv
  <2>6. /\ DOMAIN bound' = DOMAIN bound
        /\ \A x \in DOMAIN bound : bound'[x] = IF x = m THEN d ELSE bound[x]
    BY <2>1 DEF ActsInv
  <2>7. Stays
    <3> SUFFICES ASSUME Ordinary(m), Page[m].act \notin Scoped, bound[m] # NoDoc PROVE bound[m] = d
      BY <2>6 DEF Stays
    <3>1. Lies(m, bound[m]) /\ d # NoDoc
      BY <2>2, <2>3, CorpusAssumption DEF HomesInv, Bound
    <3> QED
      BY <2>2, <2>4, <3>1, OneHome
  <2>8. ASSUME d \notin docs, NEW I, I # NoIssuer, Fixed(d, I), d.issuer # I PROVE FALSE
    <3>1. CASE d.act \in Scoped
      BY <2>3, <2>5, <2>8, <3>1 DEF Fixed, Shared
    <3>2. CASE d.act \notin Scoped
      BY <2>3, <2>8, <3>2, CorpusAssumption DEF Fixed, Witness, IssuersInv, IssuerRows
    <3> QED
      BY <3>1, <3>2
  <2>9. Settled
    <3>1. ASSUME NEW x \in Documents, NEW I, I # NoIssuer, Fixed(x, I), x.issuer # I, NEW i \in ids'[x]
          PROVE  i.issuer = I
      <4>1. ids'[x] = ids[x]
        BY <2>5, <2>8, <3>1
      <4> QED
        BY <3>1, <4>1 DEF Fixed
    <3> QED
      BY <2>1, <2>6, <2>7, <3>1, SettledBy
  <2>10. IssuerRows'
    <3>1. \A x \in DOMAIN bound' : bound'[x] \in docs' \cup {NoDoc}
      BY <2>1, <2>6 DEF IssuersInv, IssuerRows
    <3>2. ASSUME NEW x \in Documents
          PROVE  /\ Uniform(x)'
                 /\ \A i \in ids'[x] : i.key \in Documents /\ (i.key.issuer = NoIssuer \/ x.act \in Scoped)
                 /\ x.act \notin Scoped => \A i \in ids'[x] : i.issuer # NoIssuer => Witness(x, i.issuer)'
                 /\ Shared(x) /\ x \in migrated' =>
                       /\ \E i \in ids'[x] : i.primary
                       /\ \A i \in ids'[x] : i.primary => i.key.issuer # NoIssuer
      <4>1. CASE ids'[x] = ids[x]
        <5>1. x.act \notin Scoped => \A I : Witness(x, I) => Witness(x, I)'
          BY <2>6, <2>7, WitnessKept
        <5>2. Uniform(x)'
          BY <4>1 DEF IssuersInv, IssuerRows, Uniform
        <5> QED
          BY <2>1, <4>1, <5>1, <5>2 DEF IssuersInv, IssuerRows
      <4>2. CASE x = d /\ d \notin docs /\ ids'[x] = {row}
        <5>1. Uniform(x)'
          BY <2>3, <4>2 DEF Uniform
        <5> QED
          BY <2>1, <2>3, <2>5, <4>2, <5>1
      <4> QED
        BY <2>5, <4>1, <4>2
    <3> QED
      BY <3>1, <3>2 DEF IssuerRows, Shared
  <2>11. \A x \in Mentions : resolved'[x].document \in docs' \cup {NoDoc}
    BY <1>0, <2>1 DEF IssuersInv
  <2> QED
    BY <1>0, <1>5, <2>1, <2>6, <2>7, <2>9, <2>10, <2>11, IssuersKept
<1> QED
  BY <1>1, <1>2

\* The binding of an ordinary page to its one home is never taken for a false one.
LEMMA IssuersReprocess ==
    ASSUME CorpusAssumption, TypesAssumption, ActsInv, HomesInv, IssuersInv, NEW record \in pending,
           ReprocessPage(record)
    PROVE  IssuersInv'
<1> DEFINE m == record.page
           d == record.existing
<1>0. /\ record.tool = "reprocess" /\ pending' \subseteq pending /\ Aware(record) /\ Waits(record)
      /\ m \in DOMAIN bound /\ m \in DOMAIN Page /\ Lies(m, d)
  BY DEF ReprocessPage, Read, Finish, HomesInv, IssuersInv, Aware, ActsInv
<1>1. \A x \in Mentions : resolved'[x].document = resolved[x].document
  <2>1. \A gone : \A x \in Mentions : Forget(gone)[x].document = resolved[x].document
    BY DEF Forget
  <2>2. UNCHANGED resolved \/ \E gone : resolved' = Forget(gone)
    BY DEF ReprocessPage, graph
  <2> QED
    BY <2>1, <2>2
<1>2. CASE ~Incompatible(m, d)
  <2>1. UNCHANGED <<docs, ids, bound, migrated>>
    BY <1>2 DEF ReprocessPage, identity
  <2> QED
    BY <1>0, <1>1, <2>1, IssuersUnbind
<1>3. CASE Incompatible(m, d)
  <2>1. UNCHANGED <<docs, ids, migrated>> /\ bound' = [bound EXCEPT ![m] = NoDoc]
    BY <1>3 DEF ReprocessPage
  <2>2. ASSUME Ordinary(m), Page[m].act \notin Scoped PROVE FALSE
    <3>1. d # NoDoc /\ bound[m] = d
      BY <1>0, <2>2 DEF Waits
    <3>2. d \in docs /\ d \in Documents
      BY <1>0, <3>1 DEF IssuersInv, IssuerRows, ActsInv
    <3>3. d.act = Page[m].act
      BY <1>0, <2>2, <3>1, OneHome, Keys
    <3>4. ids[d] # {}
      BY <3>2 DEF HomesInv, Rows
    <3>5. \A i \in ids[d] : i.key.issuer = NoIssuer /\ i.key.act = d.act
      BY <2>2, <3>2, <3>3 DEF IssuersInv, IssuerRows, ActsInv
    <3>6. \A k \in MainKeys(ids[d]) : \E i \in ids[d] : i.key = k
      BY DEF MainKeys
    <3>7. Page[m].family = "normative"
      BY <1>0, <2>2, Assessments
    <3> QED
      BY <1>3, <3>3, <3>4, <3>5, <3>6, <3>7 DEF Incompatible
  <2>3. PICK x : x = m
    OBVIOUS
  <2> QED
    BY <1>0, <1>1, <2>1, <2>2, <2>3, IssuersUnbind
<1> QED
  BY <1>2, <1>3

\* Cleanup takes documents that no page and no resolution names.
LEMMA IssuersCleanup == ASSUME CorpusAssumption, ActsInv, HomesInv, IssuersInv, Cleanup PROVE IssuersInv'
<1> DEFINE gone == {d \in docs : Residue(d)}
<1>1. /\ UNCHANGED <<bound, migrated, resolved, pending>> /\ docs' = docs \ gone
      /\ ids' = [d \in Documents |-> IF d \in gone THEN {} ELSE ids[d]]
  BY DEF Cleanup, Alone, graph
<1>2. /\ gone \cap migrated = {} /\ \A m \in DOMAIN bound : bound[m] \notin gone
      /\ \A x \in Mentions : resolved[x].document \notin gone
  BY DEF Residue, InUse, Linked, Manifestations
<1> HIDE DEF gone
<1>3. \A d \in Documents : ids'[d] = {} \/ ids'[d] = ids[d]
  BY <1>1
<1>4. Stays
  BY <1>1 DEF Stays
<1>5. Settled
  <2>1. ASSUME NEW x \in Documents, NEW I, I # NoIssuer, Fixed(x, I), x.issuer # I, NEW i \in ids'[x]
        PROVE  i.issuer = I
    BY <1>3, <2>1 DEF Fixed
  <2> QED
    BY <1>1, <1>4, <2>1, SettledBy
<1>6. IssuerRows'
  <2>1. \A m \in DOMAIN bound' : bound'[m] \in docs' \cup {NoDoc}
    BY <1>1, <1>2 DEF IssuersInv, IssuerRows
  <2>2. ASSUME NEW d \in Documents
        PROVE  /\ Uniform(d)'
               /\ \A i \in ids'[d] : i.key \in Documents /\ (i.key.issuer = NoIssuer \/ d.act \in Scoped)
               /\ d.act \notin Scoped => \A i \in ids'[d] : i.issuer # NoIssuer => Witness(d, i.issuer)'
               /\ Shared(d) /\ d \in migrated' =>
                     /\ \E i \in ids'[d] : i.primary
                     /\ \A i \in ids'[d] : i.primary => i.key.issuer # NoIssuer
    <3>1. d.act \notin Scoped => \A I : Witness(d, I) => Witness(d, I)'
      BY <1>1, <1>4, WitnessKept
    <3>2. Uniform(d)'
      BY <1>3 DEF IssuersInv, IssuerRows, Uniform
    <3>3. d \in migrated' => ids'[d] = ids[d]
      BY <1>1, <1>2
    <3> QED
      BY <1>1, <1>3, <3>1, <3>2, <3>3 DEF IssuersInv, IssuerRows
  <2> QED
    BY <2>1, <2>2 DEF IssuerRows, Shared
<1>7. \A x \in Mentions : resolved'[x].document \in docs' \cup {NoDoc}
  BY <1>1, <1>2 DEF IssuersInv
<1>8. IsFiniteSet(pending')
  BY <1>1 DEF IssuersInv
<1> QED
  BY <1>1, <1>4, <1>5, <1>6, <1>7, <1>8, IssuersKept

\* What a resolution finds is a document of the issuer that is named.
LEMMA FoundAnswers ==
    ASSUME CorpusAssumption, ActsInv, HomesInv, IssuersInv, NEW x,
           NEW d, d = ResolveOne(Mention[x]).target.document
    PROVE  d \in docs \cup {NoDoc} /\ Answers(d, x)
<1> DEFINE r == Mention[x]
           found == CandidateDocuments(r)
           c == CHOOSE c \in found : TRUE
<1>1. d = NoDoc \/ d \in found
  <2>1. \A status, e, reason : Doubt(status, e, reason).target.document = e
    BY DEF Doubt, Target
  <2>2. \A status, e, p : Target(status, e, p).document = e
    BY DEF Target
  <2>3. found # {} => c \in found
    OBVIOUS
  <2>4. \/ ResolveOne(r) = Doubt("unresolved", NoDoc, "TARGET_DOCUMENT_NOT_FOUND")
        \/ ResolveOne(r) = Doubt("ambiguous", NoDoc, "AMBIGUOUS_DOCUMENT_ID")
        \/ /\ found # {}
           /\ \/ \E p : ResolveOne(r) = [target |-> Target("resolved", c, p), reason |-> "none"]
              \/ \E status, reason : ResolveOne(r) = Doubt(status, c, reason)
    BY DEF ResolveOne
  <2>5. \A t, reason : [target |-> t, reason |-> reason].target = t
    OBVIOUS
  <2>6. d = ResolveOne(r).target.document
    OBVIOUS
  <2> HIDE DEF r, c, found
  <2>7. CASE \E reason, status : ResolveOne(r) = Doubt(status, NoDoc, reason)
    BY <2>1, <2>6, <2>7
  <2>8. CASE found # {} /\ \E status, reason : ResolveOne(r) = Doubt(status, c, reason)
    BY <2>1, <2>3, <2>6, <2>8
  <2>9. CASE found # {} /\ \E p : ResolveOne(r) = [target |-> Target("resolved", c, p), reason |-> "none"]
    <3>1. PICK p, t : t = Target("resolved", c, p) /\ ResolveOne(r) = [target |-> t, reason |-> "none"]
      BY <2>9
    <3>2. ResolveOne(r).target = t /\ t.document = c
      BY <2>2, <2>5, <3>1
    <3> QED
      BY <2>3, <2>6, <2>9, <3>2
  <2> QED
    BY <2>4, <2>7, <2>8, <2>9
<1>2. CASE d = NoDoc
  BY <1>2 DEF Answers
<1>3. CASE d \in found
  <2>1. PICK i \in ids[d] : /\ d \in docs /\ i.key = KeyOf(NoIssuer, r.act)
                            /\ r.issuer \in {NoIssuer, i.issuer}
    BY <1>3 DEF CandidateDocuments
  <2>2. d \in Documents
    BY <2>1 DEF HomesInv, Rows
  <2>3. d.act = r.act
    BY <2>1, <2>2, Keys DEF ActsInv
  <2>4. ASSUME r.issuer # NoIssuer PROVE Fixed(d, r.issuer)
    <3>1. i.issuer = r.issuer
      BY <2>1, <2>4
    <3>2. \A j \in ids[d] : j.issuer = r.issuer
      BY <2>1, <2>2, <3>1 DEF IssuersInv, IssuerRows, Uniform
    <3>3. d.issuer # NoIssuer => d.issuer = r.issuer
      BY <2>1, <2>2, <3>1 DEF IssuersInv, IssuerRows, Uniform
    <3>4. Shared(d) => d \in migrated
      BY <2>1, <2>2, <2>4, <3>1 DEF HomesInv, Rows
    <3>5. d.act \notin Scoped => Witness(d, r.issuer)
      BY <2>1, <2>2, <2>4, <3>1 DEF IssuersInv, IssuerRows
    <3> QED
      BY <3>2, <3>3, <3>4, <3>5 DEF Fixed
  <2> QED
    BY <2>1, <2>2, <2>3, <2>4 DEF Answers
<1> QED
  BY <1>1, <1>2, <1>3

LEMMA IssuersResolve ==
    ASSUME CorpusAssumption, ActsInv, HomesInv, IssuersInv, NEW record \in pending, Resolve(record)
    PROVE  IssuersInv'
<1>1. /\ record.tool = "resolve" /\ pending' \subseteq pending
      /\ UNCHANGED <<docs, ids, bound, migrated>>
  BY DEF Resolve, Read, Finish, identity
<1>2. IsFiniteSet(pending')
  BY <1>1, FS_Subset DEF IssuersInv
<1>3. \A x \in Mentions : \A d \in {resolved'[x].document} : d \in docs \cup {NoDoc} /\ Answers(d, x)
  <2> SUFFICES ASSUME NEW x \in Mentions, NEW d, d = resolved'[x].document
               PROVE  d \in docs \cup {NoDoc} /\ Answers(d, x)
    OBVIOUS
  <2>1. CASE resolved'[x] = resolved[x]
    BY <2>1 DEF IssuersInv
  <2>2. CASE x = record.first /\ resolved'[x] = record.answer.target
             /\ record.answer.target.document \in docs \cup {NoDoc}
    BY <1>1, <2>2 DEF IssuersInv, Waits
  <2>3. CASE resolved'[x] = ResolveOne(Mention[x]).target
    BY <2>3, FoundAnswers
  <2> QED
    <3> DEFINE own == MentionsOf(record.page)
               answer == [y \in own |-> IF y = record.first THEN record.answer ELSE ResolveOne(Mention[y])]
    <3>1. \/ resolved' = resolved
          \/ /\ resolved' = [y \in Mentions |-> IF y \in own THEN answer[y].target ELSE resolved[y]]
             /\ record.answer.target.document \in docs \cup {NoDoc}
      BY DEF Resolve
    <3> QED
      BY <2>1, <2>2, <2>3, <3>1
<1> QED
  BY <1>1, <1>2, <1>3, IssuersQuiet

LEMMA IssuersStart ==
    ASSUME CorpusAssumption, ActsInv, HomesInv, IssuersInv, NEW m \in Manifestations, StartRun(m)
    PROVE  IssuersInv'
<1>0. m \in DOMAIN bound
  BY DEF Manifestations
<1>1. ASSUME NEW record, pending' \subseteq pending \cup {record}, record.tool # "migrate",
             UNCHANGED <<docs, ids, bound, migrated, resolved>>, Waits(record)'
      PROVE  IssuersInv'
  <2>1. IsFiniteSet(pending')
    BY <1>1, PendingFinite DEF IssuersInv
  <2>2. \A x \in Mentions : \A d \in {resolved'[x].document} : d \in docs \cup {NoDoc} /\ Answers(d, x)
    BY <1>1 DEF IssuersInv
  <2> QED
    BY <1>1, <2>1, <2>2, IssuersQuiet
<1>2. ASSUME NEW tool, ReadBinding(tool, m), tool \in {"identity", "simple", "reprocess", "compiled"},
             tool = "reprocess" => bound[m] # NoDoc
      PROVE  IssuersInv'
  <2>1. PICK record : record = [tool |-> tool, page |-> m, existing |-> bound[m]]
    OBVIOUS
  <2>2. /\ UNCHANGED <<docs, ids, bound, migrated, resolved>>
        /\ pending' = pending \cup {record}
    BY <1>2, <2>1 DEF ReadBinding, Begin, identity, graph
  <2>3. Waits(record)'
    BY <1>2, <2>1, <2>2 DEF Waits
  <2>4. record.tool # "migrate"
    BY <1>2, <2>1
  <2> QED
    BY <1>1, <2>2, <2>3, <2>4
<1>3. CASE DetectConflicts(m) \/ DateDocument(m)
  <2>1. UNCHANGED <<docs, ids, bound, migrated, resolved, pending>>
    BY <1>3 DEF DetectConflicts, DateDocument, Alone, identity, graph
  <2>2. PICK record : record = [tool |-> "identity"]
    OBVIOUS
  <2>3. record.tool = "identity" /\ Waits(record)'
    BY <2>2 DEF Waits
  <2> QED
    BY <1>1, <2>1, <2>3
<1>4. CASE ReadFirst(m)
  <2>1. PICK x, answer : /\ answer = ResolveOne(Mention[x])
                         /\ Begin([tool |-> "resolve", page |-> m, existing |-> NoDoc,
                                   first |-> x, answer |-> answer])
                         /\ UNCHANGED <<identity, graph>>
    BY <1>4 DEF ReadFirst
  <2>2. PICK record : record = [tool |-> "resolve", page |-> m, existing |-> NoDoc,
                                first |-> x, answer |-> answer]
    OBVIOUS
  <2>3. /\ record.tool = "resolve" /\ record.first = x /\ record.answer = answer
        /\ UNCHANGED <<docs, ids, bound, migrated, resolved>> /\ pending' = pending \cup {record}
    BY <2>1, <2>2 DEF Begin, identity, graph
  <2>4. PICK d : d = answer.target.document
    OBVIOUS
  <2>5. Answers(d, x)
    BY <2>1, <2>4, FoundAnswers
  <2>6. Answers(d, x)'
    <3>1. \A I : Fixed(d, I)' <=> Fixed(d, I)
      BY <2>3 DEF Fixed, Witness
    <3> QED
      BY <2>5, <3>1 DEF Answers
  <2>7. Waits(record)'
    BY <2>3, <2>4, <2>6 DEF Waits
  <2> QED
    BY <1>1, <2>3, <2>7
<1>5. ASSUME NEW p \in {"canonical", "operational", "editorial"}, ReadRelations(p, m) PROVE IssuersInv'
  <2>1. PICK rows : Begin([tool |-> p, page |-> m, existing |-> bound[m], rows |-> rows])
    BY <1>5 DEF ReadRelations
  <2>2. PICK record : record = [tool |-> p, page |-> m, existing |-> bound[m], rows |-> rows]
    OBVIOUS
  <2>3. /\ record.tool \in {"canonical", "operational", "editorial"} /\ pending' = pending \cup {record}
        /\ UNCHANGED <<docs, ids, bound, migrated, resolved>>
    BY <1>5, <2>1, <2>2 DEF Begin, ReadRelations, identity, graph
  <2>4. Waits(record)'
    BY <2>3 DEF Waits
  <2> QED
    BY <1>1, <2>3, <2>4
<1>6. CASE ReadLink(m)
  BY <1>2, <1>6 DEF ReadLink
<1>7. CASE ReadBinding("identity", m) \/ ReadBinding("simple", m) \/ ReadBinding("compiled", m)
  BY <1>2, <1>7
<1> QED
  BY <1>3, <1>4, <1>5, <1>6, <1>7 DEF StartRun

\* A plan is the only one, and gives keys to documents that have none yet.
LEMMA IssuersPlan ==
    ASSUME CorpusAssumption, TypesAssumption, MaxPlans = 1, ActsInv, HomesInv, IssuersInv, PlanMigration
    PROVE  IssuersInv'
<1> DEFINE single == {d \in LegacyDocuments \ Split : Unqualified(d)}
           moving == {m \in Movable : bound[m] \in Split}
           moves == {[page |-> m, from |-> bound[m]] : m \in moving}
           given == {[document |-> d, to |-> CHOOSE k \in Homes(d) : TRUE] : d \in single}
           record == [tool |-> "migrate", page |-> NoDoc, existing |-> NoDoc, moves |-> moves, single |-> given]
           planned == {r \in pending : r.tool = "migrate"}
<1>1. /\ UNCHANGED <<docs, ids, bound, migrated, resolved>>
      /\ pending' = pending \cup {record} /\ Cardinality(planned) < 1
  BY DEF PlanMigration, Begin, identity, graph
<1>2. record.tool = "migrate" /\ record.single = given
  OBVIOUS
<1>3. \A r \in pending : r.tool # "migrate"
  <2>1. IsFiniteSet(planned)
    BY FS_Subset DEF IssuersInv
  <2>2. Cardinality(planned) \in Nat
    BY <2>1, FS_CardinalityType
  <2>3. planned = {}
    BY <1>1, <2>1, <2>2, FS_EmptySet
  <2> QED
    BY <2>3
<1>4. ASSUME NEW s \in given PROVE s.document \notin migrated
  <2>1. PICK d \in single : s.document = d
    OBVIOUS
  <2>2. PICK x \in Movable : d = bound[x]
    BY <2>1 DEF LegacyDocuments
  <2>3. d \in Documents /\ Shared(d)
    BY <2>2, MovableForm
  <2>4. PICK k \in MainKeys(ids[d]) : k.issuer = NoIssuer
    BY <2>1 DEF Unqualified
  <2>5. ASSUME d \in migrated PROVE FALSE
    <3>1. /\ \E i \in ids[d] : i.primary
          /\ \A i \in ids[d] : i.primary => i.key.issuer # NoIssuer
      BY <2>3, <2>5 DEF IssuersInv, IssuerRows
    <3>2. PICK i \in ids[d] : i.primary /\ i.key = k
      BY <3>1 DEF MainKeys
    <3> QED
      BY <2>4, <3>1, <3>2
  <2> QED
    BY <2>1, <2>5
<1>5. PICK q : q = record
  OBVIOUS
<1>6. q.tool = "migrate" /\ pending' = pending \cup {q} /\ \A s \in q.single : s.document \notin migrated
  BY <1>1, <1>2, <1>4, <1>5
<1> HIDE DEF record, given, planned
<1>7. Waits(q)'
  BY <1>1, <1>3, <1>6 DEF Waits
<1>8. \A x \in Mentions : \A d \in {resolved'[x].document} : d \in docs \cup {NoDoc} /\ Answers(d, x)
  BY <1>1 DEF IssuersInv
<1>9. IsFiniteSet(pending')
  BY <1>6, PendingFinite DEF IssuersInv
<1>10. \A r \in pending' : r \in pending \/ Waits(r)'
  BY <1>6, <1>7
<1> QED
  BY <1>1, <1>3, <1>8, <1>9, <1>10, IssuersQuiet

\* Applying a migration: a document that has an issuer keeps it, since neither a divided
\* document nor one that is given a key had one.
LEMMA IssuersApply ==
    ASSUME CorpusAssumption, TypesAssumption, ActsInv, HomesInv, IssuersInv, NEW record \in pending,
           ApplyMigration(record)
    PROVE  IssuersInv'
<1>0. /\ pending' = pending \ {record} /\ record.tool = "migrate" /\ Waits(record) /\ Sound(record)
      /\ IsFiniteSet(pending')
  BY FS_Subset DEF ApplyMigration, Finish, Read, IssuersInv, ActsInv
<1>1. CASE ~Applicable(record)
  <2>1. UNCHANGED <<docs, ids, bound, migrated, resolved>>
    BY <1>1 DEF ApplyMigration, identity, graph
  <2>2. \A x \in Mentions : \A d \in {resolved'[x].document} : d \in docs \cup {NoDoc} /\ Answers(d, x)
    BY <2>1 DEF IssuersInv
  <2>3. \A r \in pending' : r \in pending
    BY <1>0
  <2> QED
    BY <1>0, <2>1, <2>2, <2>3, IssuersQuiet
<1>2. CASE Applicable(record)
  <2> DEFINE old == Parting(record)
             new == Arrived(record)
             given == Given(record)
  <2> HIDE DEF old, new, given
  <2>1. docs' = (docs \ old) \cup new /\ migrated' = migrated \cup new \cup given
    BY <1>2, MigratedRows DEF old, new, given
  <2>2. old \cup given \subseteq docs /\ old \cap migrated = {} /\ old \cap new = {}
    BY <1>2, MigratedRows DEF old, new, given
  <2>3. \A d \in new : d \in Documents /\ d.issuer # NoIssuer /\ d.act \in Scoped
    BY <1>2, MigratedRows DEF new
  <2>4. /\ \A d \in given : d \in Documents \ old /\ Shared(d)
        /\ \A d \in old : d \in Documents /\ Shared(d)
    BY <1>2, MigratedRows DEF old, given
  <2>5. \A s \in record.single : /\ s.to.issuer # NoIssuer /\ s.to \in Documents
                                 /\ s.to.act = s.document.act /\ s.document \notin migrated
    BY <1>0, <1>2, MigratedRows DEF Sound, Waits
  <2>6. given \cap migrated = {}
    BY <2>5 DEF given, Given
  <2>7. \A d \in Documents :
           \/ d \in old /\ ids'[d] = {}
           \/ /\ d \in new
              /\ \E m \in DOMAIN Page : /\ Ordinary(m) /\ NewHome(m) = d
                    /\ ids'[d] = Upsert(ids[d], AssessGeneric(Page[m]).signal)
           \/ /\ d \in given /\ d \notin old \cup new
              /\ \E s \in record.single : s.document = d /\ ids'[d] = Qualify(ids[d], s.to)
           \/ d \notin old \cup new \cup given /\ ids'[d] = ids[d]
    BY <1>2, MigratedRows DEF old, new, given
  <2>8. /\ DOMAIN bound' = DOMAIN bound /\ Aware(record)
        /\ \A m \in DOMAIN bound :
              \/ bound'[m] = NewHome(m) /\ \E v \in record.moves : v.page = m
              \/ bound[m] \in old /\ bound'[m] = NoDoc
              \/ bound[m] \notin old /\ bound'[m] = bound[m]
    BY <1>2, Movings DEF old
  <2>9. \A v \in record.moves : /\ NewHome(v.page) \in new /\ Page[v.page].act \in Scoped
    BY <1>0, <2>8, MoveForm DEF new, Arrived
  <2>10. Stays
    <3> SUFFICES ASSUME NEW m \in DOMAIN bound, Ordinary(m), Page[m].act \notin Scoped, bound[m] # NoDoc
                 PROVE  bound'[m] = bound[m]
      BY DEF Stays
    <3>1. bound[m].act = Page[m].act
      BY DEF ActsInv
    <3>2. bound[m] \notin old
      BY <2>4, <3>1 DEF Shared
    <3> QED
      BY <2>8, <2>9, <3>2
  <2>11. ASSUME NEW d \in Documents, NEW I, I # NoIssuer, Fixed(d, I), d.issuer # I, NEW i \in ids'[d]
         PROVE  i.issuer = I
    <3>1. d.issuer = NoIssuer /\ (Shared(d) => d \in migrated) /\ \A j \in ids[d] : j.issuer = I
      BY <2>11 DEF Fixed
    <3>2. d \notin new /\ d \notin given
      BY <2>3, <2>4, <2>6, <3>1
    <3> QED
      BY <2>7, <2>11, <3>1, <3>2
  <2>12. Settled
    BY <2>1, <2>8, <2>10, <2>11, SettledBy
  <2>13. \A m \in DOMAIN bound' : bound'[m] \in docs' \cup {NoDoc}
    BY <2>1, <2>8, <2>9 DEF IssuersInv, IssuerRows
  <2>14. ASSUME NEW d \in Documents
         PROVE  /\ Uniform(d)'
                /\ \A i \in ids'[d] : i.key \in Documents /\ (i.key.issuer = NoIssuer \/ d.act \in Scoped)
                /\ d.act \notin Scoped => \A i \in ids'[d] : i.issuer # NoIssuer => Witness(d, i.issuer)'
                /\ Shared(d) /\ d \in migrated' =>
                      /\ \E i \in ids'[d] : i.primary
                      /\ \A i \in ids'[d] : i.primary => i.key.issuer # NoIssuer
    <3>1. CASE d \in old
      <4>1. ids'[d] = {} /\ d.act \in Scoped /\ d \notin new \cup given
        BY <2>2, <2>4, <2>7, <3>1 DEF Shared
      <4>2. Uniform(d)'
        <5>1. d.issuer \in Issuer \cup {NoIssuer}
          BY DEF Documents, Key
        <5> QED
          BY <4>1, <5>1 DEF Uniform
      <4> QED
        BY <2>1, <2>2, <3>1, <4>1, <4>2
    <3>2. CASE d \in new
      <4>1. PICK m \in DOMAIN Page : /\ Ordinary(m) /\ NewHome(m) = d
                                     /\ ids'[d] = Upsert(ids[d], AssessGeneric(Page[m]).signal)
        BY <2>2, <2>7, <3>2
      <4>2. PICK signal : signal = AssessGeneric(Page[m]).signal
        OBVIOUS
      <4>3. /\ d = CanonicalKey(signal) /\ d.act = signal.act /\ signal.act \in Act
            /\ signal.issuer \in Issuer \cup {NoIssuer} /\ d.act \in Scoped /\ d.issuer # NoIssuer
        BY <2>3, <3>2, <4>1, <4>2, Assessments, Keys DEF NewHome
      <4>4. signal.issuer # NoIssuer
        BY <4>3 DEF CanonicalKey, KeyOf
      <4>5. /\ \A i \in Upsert(ids[d], signal) :
                  /\ i.issuer = signal.issuer /\ i.key.issuer \in {NoIssuer, signal.issuer}
                  /\ i.key \in Documents /\ (i.key.issuer = NoIssuer \/ d.act \in Scoped)
            /\ signal.issuer = d.issuer
        BY <4>3, <4>4, SignalRows
      <4>6. Uniform(d)'
        BY <4>1, <4>2, <4>3, <4>5 DEF Uniform
      <4> QED
        BY <4>1, <4>2, <4>3, <4>5, <4>6 DEF Shared
    <3>3. CASE d \in given /\ d \notin old \cup new
      <4>1. PICK s \in record.single : s.document = d /\ ids'[d] = Qualify(ids[d], s.to)
        BY <2>7, <3>3
      <4>2. PICK to : to = s.to
        OBVIOUS
      <4>3. to.issuer # NoIssuer /\ to \in Documents /\ to.issuer \in Issuer \cup {NoIssuer}
        BY <2>5, <4>2 DEF Documents, Key
      <4>4. /\ d.issuer = NoIssuer /\ d.act \in Scoped
            /\ \A i \in ids[d] : i.key.issuer = NoIssuer /\ i.key \in Documents
        BY <2>4, <2>6, <3>3 DEF Shared, HomesInv, Rows, IssuersInv, IssuerRows
      <4>5. ASSUME NEW i \in Qualify(ids[d], to)
            PROVE  /\ i.issuer = to.issuer /\ i.key \in Documents /\ i.key.issuer \in {NoIssuer, to.issuer}
                   /\ i.primary => i.key = to
        <5>1. \/ i = [key |-> to, issuer |-> to.issuer, primary |-> TRUE]
              \/ \E r \in ids[d] : i = [key |-> r.key, issuer |-> to.issuer, primary |-> FALSE]
          BY DEF Qualify
        <5> QED
          BY <4>3, <4>4, <5>1
      <4>6. \E i \in Qualify(ids[d], to) : i.primary
        <5>1. PICK i : i = [key |-> to, issuer |-> to.issuer, primary |-> TRUE]
          OBVIOUS
        <5>2. i \in Qualify(ids[d], to) /\ i.primary
          BY <5>1 DEF Qualify
        <5> QED
          BY <5>2
      <4>7. Uniform(d)'
        BY <4>1, <4>2, <4>3, <4>4, <4>5 DEF Uniform
      <4> QED
        BY <4>1, <4>2, <4>3, <4>4, <4>5, <4>6, <4>7
    <3>4. CASE d \notin old \cup new \cup given
      <4>1. ids'[d] = ids[d] /\ (d \in migrated' => d \in migrated)
        BY <2>1, <2>7, <3>4
      <4>2. d.act \notin Scoped => \A I : Witness(d, I) => Witness(d, I)'
        BY <2>8, <2>10, WitnessKept
      <4>3. Uniform(d)'
        BY <4>1 DEF IssuersInv, IssuerRows, Uniform
      <4> QED
        BY <4>1, <4>2, <4>3 DEF IssuersInv, IssuerRows
    <3> QED
      BY <3>1, <3>2, <3>3, <3>4
  <2>15. IssuerRows'
    BY <2>13, <2>14 DEF IssuerRows, Shared
  <2>16. \A x \in Mentions : /\ resolved'[x].document \in docs' \cup {NoDoc}
                             /\ resolved'[x].document \in {resolved[x].document, NoDoc}
    <3>1. resolved' = [x \in Mentions |-> IF x \in Unresolving(record) THEN NoTarget ELSE resolved[x]]
      BY <1>2 DEF ApplyMigration
    <3>2. \A x \in Mentions : x \notin Unresolving(record) => resolved[x].document \notin old
      BY DEF Unresolving, old
    <3>3. NoTarget.document = NoDoc
      BY DEF NoTarget, Target
    <3> QED
      BY <2>1, <3>1, <3>2, <3>3 DEF IssuersInv
  <2>17. \A r \in pending' : r.tool # "migrate" /\ r \in pending
    BY <1>0 DEF Waits
  <2> QED
    BY <1>0, <2>8, <2>10, <2>12, <2>15, <2>16, <2>17, IssuersKept
<1> QED
  BY <1>1, <1>2

LEMMA IssuersEnd ==
    ASSUME CorpusAssumption, TypesAssumption, ActsInv, HomesInv, IssuersInv, NEW record \in pending,
           EndRun(record)
    PROVE  IssuersInv'
<1>1. ASSUME UNCHANGED <<docs, ids, bound, migrated, resolved>>, pending' \subseteq pending
      PROVE  IssuersInv'
  <2>1. IsFiniteSet(pending')
    BY <1>1, FS_Subset DEF IssuersInv
  <2>2. \A x \in Mentions : \A d \in {resolved'[x].document} : d \in docs \cup {NoDoc} /\ Answers(d, x)
    BY <1>1 DEF IssuersInv
  <2>3. \A r \in pending' : r \in pending
    BY <1>1
  <2> QED
    BY <1>1, <2>1, <2>2, <2>3, IssuersQuiet
<1>2. CASE DescribeDoctrine(record)
  BY <1>1, <1>2 DEF DescribeDoctrine, Finish, graph
<1>3. CASE PromoteRelations(record)
  BY <1>1, <1>3 DEF PromoteRelations, Finish, identity
<1> QED
  BY <1>2, <1>3, IssuersIdentity, IssuersSimple, IssuersCompiled, IssuersResolve,
     IssuersReprocess, IssuersApply DEF EndRun

LEMMA IssuersInit == ASSUME CorpusAssumption, TypesAssumption, CorpusInit PROVE IssuersInv
<1>1. PICK old \in Bindings : Registered(old)
  BY DEF CorpusInit
<1> DEFINE held == {d \in Documents : \E m \in DOMAIN old : old[m] = d}
<1>2. /\ bound = old /\ docs = held /\ pending = {} /\ migrated = {}
      /\ ids = [d \in Documents |->
                   IF d \in held THEN {[key |-> d, issuer |-> NoIssuer, primary |-> TRUE]} ELSE {}]
      /\ resolved = [x \in Mentions |-> NoTarget]
  BY <1>1 DEF Registered
<1>3. \A d \in held : d \in Documents /\ d.issuer = NoIssuer
  BY DEF TypesAssumption, CorpusAssumption
<1>4. \A m \in DOMAIN old : old[m] \in held \cup {NoDoc}
  BY DEF CorpusAssumption
<1> HIDE DEF held
<1>5. \A d \in Documents : \A i \in ids[d] : /\ i.issuer = NoIssuer /\ i.key = d /\ d \in held
                                             /\ i.key.issuer = NoIssuer
  BY <1>2, <1>3
<1>6. \A d \in Documents : d.issuer \in Issuer \cup {NoIssuer}
  BY DEF Documents, Key
<1>7. IssuerRows
  <2>1. \A m \in DOMAIN bound : bound[m] \in docs \cup {NoDoc}
    BY <1>2, <1>4
  <2>2. ASSUME NEW d \in Documents PROVE Uniform(d)
    <3>1. PICK J : J = d.issuer
      OBVIOUS
    <3>2. J \in Issuer \cup {NoIssuer} /\ \A i \in ids[d] : i.issuer = J /\ i.key.issuer = J
      BY <1>3, <1>5, <1>6, <3>1
    <3> QED
      BY <3>1, <3>2 DEF Uniform
  <2> QED
    BY <1>2, <1>5, <2>1, <2>2 DEF IssuerRows
<1>8. \A x \in Mentions : \A d \in {resolved[x].document} : d \in docs \cup {NoDoc} /\ Answers(d, x)
  BY <1>2 DEF NoTarget, Target, Answers
<1> QED
  BY <1>2, <1>7, <1>8, FS_EmptySet DEF IssuersInv

LEMMA IssuersInvHolds == MaxPlans = 1 => (CorpusSpec => [](ActsInv /\ HomesInv /\ IssuersInv))
<1>1. MaxPlans = 1 /\ ActsInv /\ HomesInv /\ IssuersInv /\ [CorpusNext]_corpus => IssuersInv'
  <2> SUFFICES ASSUME MaxPlans = 1, ActsInv, HomesInv, IssuersInv, [CorpusNext]_corpus PROVE IssuersInv'
    OBVIOUS
  <2>1. CASE UNCHANGED corpus
    <3>1. UNCHANGED <<docs, ids, bound, migrated, resolved, pending>>
      BY <2>1 DEF corpus, identity, graph
    <3>2. /\ \A x \in Mentions : \A d \in {resolved'[x].document} : d \in docs \cup {NoDoc} /\ Answers(d, x)
          /\ IsFiniteSet(pending')
      BY <3>1 DEF IssuersInv
    <3> QED
      BY <3>1, <3>2, CorpusAssumption, IssuersQuiet
  <2> QED
    BY <2>1, CorpusAssumption, TypesAssumption, IssuersStart, IssuersEnd, IssuersCleanup, IssuersPlan
       DEF CorpusNext
<1>2. CorpusInit => IssuersInv
  BY CorpusAssumption, TypesAssumption, IssuersInit
<1> SUFFICES ASSUME MaxPlans = 1 PROVE CorpusSpec => [](ActsInv /\ HomesInv /\ IssuersInv)
  OBVIOUS
<1>3. ActsInv /\ HomesInv /\ IssuersInv /\ [CorpusNext]_corpus => IssuersInv'
  BY <1>1
<1> QED
  BY <1>2, <1>3, HomesInvHolds, PTL DEF CorpusSpec

\* With one migration planned at a time, a reference that names an authority is only
\* resolved to a document of that authority, and the document stays one: registering it
\* again, giving it a qualified key, dividing it or cleaning up never makes it another's.
THEOREM NamedIssuersAreTargets == MaxPlans = 1 => (CorpusSpec => []NamedIssuerIsTarget)
<1>1. ActsInv /\ HomesInv /\ IssuersInv => NamedIssuerIsTarget
  <2> SUFFICES ASSUME HomesInv, IssuersInv, NEW x \in Mentions, resolved[x].document # NoDoc
               PROVE  \E i \in ids[resolved[x].document] :
                         /\ i.key = KeyOf(NoIssuer, Mention[x].act)
                         /\ Mention[x].issuer \in {NoIssuer, i.issuer}
    BY DEF NamedIssuerIsTarget
  <2>1. PICK d : d = resolved[x].document
    OBVIOUS
  <2>2. d \in docs /\ Answers(d, x) /\ d # NoDoc
    BY <2>1 DEF IssuersInv
  <2>3. d \in Documents /\ d.act = Mention[x].act
    BY <2>2 DEF Answers
  <2>4. PICK i \in ids[d] : i.key = KeyOf(NoIssuer, d.act)
    BY <2>2, <2>3 DEF HomesInv, Rows
  <2>5. ASSUME Mention[x].issuer # NoIssuer PROVE i.issuer = Mention[x].issuer
    <3>1. Fixed(d, Mention[x].issuer)
      BY <2>2, <2>5 DEF Answers
    <3> QED
      BY <2>3, <2>4, <2>5, <3>1 DEF Fixed, IssuersInv, IssuerRows, Uniform
  <2> QED
    BY <2>1, <2>3, <2>4, <2>5
<1> SUFFICES ASSUME MaxPlans = 1 PROVE CorpusSpec => []NamedIssuerIsTarget
  OBVIOUS
<1>2. CorpusSpec => [](ActsInv /\ HomesInv /\ IssuersInv)
  BY IssuersInvHolds
<1> QED
  BY <1>1, <1>2, PTL
=============================================================================
