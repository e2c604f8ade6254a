-------------------------- MODULE McpGatewayProofs --------------------------
(***************************************************************************)
(* What is proved about the MCP gateway, for any number of concurrent tool *)
(* calls, any capacity of its store, any contract versions and problems,   *)
(* and whatever the service behind it sends.                               *)
(***************************************************************************)
EXTENDS McpGateway, SequenceTheorems, TLAPS

\* What the store keeps and its handles stand for.
Held == [version : Binding, problem : Problem, edition : Nat]

PerCaller(f) == f = [c \in Caller |-> f[c]]

ReadingTool == {"get_case_research", "get_authority", "get_provision", "get_evidence",
                "get_normative_relationships", "get_calculation"}

\* An envelope of an edition the service has answered from.
Served(h) == h \in Held /\ h.edition <= edition

\* What a call at work knows: its request, and the bundle that answers it.
Knows(c) ==
    /\ step[c] \in {"sent", "insert", "touch", "trim", "pop"} =>
          arg[c].tool = "research_case" /\ arg[c].ref \in [version : Binding, problem : Problem]
    /\ step[c] \in {"insert", "touch", "trim", "pop"} =>
          Served(got[c]) /\ got[c].version = arg[c].ref.version /\ got[c].problem = arg[c].ref.problem
    /\ step[c] = "read" =>
          /\ arg[c].tool = "read" /\ arg[c].ref.tool \in ReadingTool
          /\ Served(got[c]) /\ got[c] = arg[c].ref.handle

\* A result is about what was asked.
Theirs(a, result) ==
    result.ok => IF a.tool = "research_case"
                 THEN result.handle.version = a.ref.version /\ result.handle.problem = a.ref.problem
                 ELSE result.handle = a.ref.handle

GatewayInv ==
    /\ PerCaller(step) /\ PerCaller(arg) /\ PerCaller(got) /\ PerCaller(said)
    /\ edition \in Nat /\ 0..edition \subseteq DOMAIN shelf
    /\ entries \in Seq(Held \X Held)
    /\ \A i \in 1..Len(entries) : entries[i][1] = entries[i][2] /\ Served(entries[i][2])
    /\ \A c \in Caller : Knows(c) /\ Theirs(arg[c], said[c])

-----------------------------------------------------------------------------
(* Results.                                                                *)

LEMMA Outcomes ==
    /\ \A code, again : ~Error(code, again).ok
    /\ ~NoAnswer.ok /\ ~Broken.ok
    /\ \A h, about, items, links : View(h, about, items, links).ok /\ View(h, about, items, links).handle = h
  BY DEF Error, NoAnswer, Broken, View

\* A reading tool answers with an error or from the bundle it was given.
LEMMA ProjectForm ==
    ASSUME NEW a, NEW h, a.tool \in ReadingTool
    PROVE  Project(a, h).ok => Project(a, h).handle = h
<1> DEFINE Fine(x) == \/ \E code : x = Error(code, FALSE)
                      \/ \E about, items, links : x = View(h, about, items, links)
<1>0. ASSUME NEW x, Fine(x), x.ok PROVE x.handle = h
  <2>1. PICK about, items, links : x = View(h, about, items, links)
    BY <1>0, Outcomes
  <2> QED
    BY <2>1, Outcomes
<1>1. ASSUME NEW r PROVE Fine(GetAuthority(h, r))
  <2> DEFINE spans == UNION {x.evidence : x \in ByRefs(shelf[h.edition].authorities, {r})}
             items == Refs(ByRefs(shelf[h.edition].spans, spans))
             links == LinksOf(h, {r}, spans)
  <2>1. GetAuthority(h, r) = IF ~Unique(shelf[h.edition].authorities, r) THEN Error("authority", FALSE)
                             ELSE View(h, r, items, links)
    BY DEF GetAuthority
  <2> HIDE DEF spans, items, links
  <2> QED
    BY <2>1
<1>2. ASSUME NEW p PROVE Fine(GetProvision(h, p))
  <2> DEFINE holders == {x \in shelf[h.edition].authorities : p \in x.provisions}
             spans == {e \in shelf[h.edition].spans : e.provision = p}
             items == Refs(holders) \cup Refs(spans)
             links == LinksOf(h, Refs(holders), Refs(spans))
  <2>1. GetProvision(h, p) = IF holders = {} /\ spans = {} THEN Error("provision", FALSE)
                             ELSE View(h, p, items, links)
    BY DEF GetProvision
  <2> HIDE DEF holders, spans, items, links
  <2> QED
    BY <2>1
<1>3. ASSUME NEW r PROVE Fine(GetEvidence(h, r))
  <2> DEFINE b == shelf[h.edition]
             e == CHOOSE x \in b.spans : x.ref = r
             items == {r, e.authority, e.source}
             links == LinksOf(h, {e.authority}, {r})
  <2>1. GetEvidence(h, r) = IF ~Unique(b.spans, r) THEN Error("evidence", FALSE)
                            ELSE IF ~Unique(b.authorities, e.authority) THEN Error("authority", FALSE)
                            ELSE IF e.source \notin b.sources THEN Error("source", FALSE)
                            ELSE View(h, r, items, links)
    BY DEF GetEvidence
  <2> HIDE DEF b, e, items, links
  <2> QED
    BY <2>1
<1>4. \A r : GetRelationships(h, r).handle = h
  BY Outcomes DEF GetRelationships
<1>5. ASSUME NEW r PROVE Fine(GetCalculation(h, r))
  <2> DEFINE items == UNION {t.evidence : t \in ByRefs(shelf[h.edition].traces, {r})}
  <2>1. GetCalculation(h, r) = IF ~Unique(shelf[h.edition].traces, r) THEN Error("calculation", FALSE)
                               ELSE View(h, r, items, NoLinks)
    BY DEF GetCalculation
  <2> HIDE DEF items
  <2> QED
    BY <2>1
<1>6. WholeCase(h).handle = h
  BY Outcomes DEF WholeCase
<1> HIDE DEF Fine
<1> QED
  BY <1>0, <1>1, <1>2, <1>3, <1>4, <1>5, <1>6 DEF Project, ReadingTool

-----------------------------------------------------------------------------
(* Steps of one call.                                                      *)

\* Everybody else is left alone.
LEMMA OneCall ==
    ASSUME GatewayInv, NEW c \in Caller, NEW next, NEW g, NEW result, NEW a,
           step' = [step EXCEPT ![c] = next], got' = [got EXCEPT ![c] = g],
           said' = [said EXCEPT ![c] = result], arg' = [arg EXCEPT ![c] = a],
           UNCHANGED <<shelf, edition>>,
           entries' \in Seq(Held \X Held),
           \A i \in 1..Len(entries') : entries'[i][1] = entries'[i][2] /\ Served(entries'[i][2]),
           Knows(c)', Theirs(a, result)
    PROVE  GatewayInv'
<1>1. /\ PerCaller(step) /\ PerCaller(arg) /\ PerCaller(got) /\ PerCaller(said)
  BY DEF GatewayInv
<1>2. PerCaller(step)' /\ PerCaller(arg)' /\ PerCaller(got)' /\ PerCaller(said)'
  BY <1>1 DEF PerCaller
<1>3. said'[c] = result /\ arg'[c] = a
  BY <1>1 DEF PerCaller
<1>4. \A x \in Caller : x # c =>
          step'[x] = step[x] /\ arg'[x] = arg[x] /\ got'[x] = got[x] /\ said'[x] = said[x]
  BY <1>1 DEF PerCaller
<1>5. \A h : Served(h)' <=> Served(h)
  BY DEF Served
<1>6. ASSUME NEW x \in Caller PROVE Knows(x)' /\ Theirs(arg[x], said[x])'
  <2>1. CASE x = c
    BY <1>3, <2>1 DEF Theirs
  <2>2. CASE x # c
    <3>1. Knows(x) /\ Theirs(arg[x], said[x])
      BY DEF GatewayInv
    <3>2. Knows(x)'
      BY <1>4, <1>5, <2>2, <3>1 DEF Knows
    <3>3. Theirs(arg[x], said[x])'
      BY <1>4, <2>2, <3>1 DEF Theirs
    <3> QED
      BY <3>2, <3>3
  <2> QED
    BY <2>1, <2>2
<1>7. (\A i \in 1..Len(entries) : entries[i][1] = entries[i][2] /\ Served(entries[i][2]))'
  BY DEF Served
<1>8. edition' \in Nat /\ 0..edition' \subseteq DOMAIN shelf'
  BY DEF GatewayInv
<1> QED
  BY <1>2, <1>6, <1>7, <1>8 DEF GatewayInv

\* A call that ends.
LEMMA Ends ==
    ASSUME GatewayInv, NEW c \in Caller, NEW result, Finish(c, result),
           UNCHANGED <<shelf, edition, arg>>, Theirs(arg[c], result),
           entries' \in Seq(Held \X Held),
           \A i \in 1..Len(entries') : entries'[i][1] = entries'[i][2] /\ Served(entries'[i][2])
    PROVE  GatewayInv'
<1>1. arg' = [arg EXCEPT ![c] = arg[c]] /\ PerCaller(step)
  BY DEF GatewayInv, PerCaller
<1>2. step' = [step EXCEPT ![c] = "idle"]
  BY DEF Finish, GoTo
<1>3. Knows(c)'
  BY <1>1, <1>2 DEF Knows, PerCaller
<1> QED
  BY <1>1, <1>2, <1>3, OneCall DEF Finish

\* A call that goes on.
LEMMA GoesOn ==
    ASSUME GatewayInv, NEW c \in Caller, NEW next, NEW g, GoTo(c, next),
           got' = [got EXCEPT ![c] = g], UNCHANGED <<shelf, edition, arg, said>>,
           entries' \in Seq(Held \X Held),
           \A i \in 1..Len(entries') : entries'[i][1] = entries'[i][2] /\ Served(entries'[i][2]),
           Knows(c)'
    PROVE  GatewayInv'
<1>1. arg' = [arg EXCEPT ![c] = arg[c]] /\ said' = [said EXCEPT ![c] = said[c]]
  BY DEF GatewayInv, PerCaller
<1>2. Theirs(arg[c], said[c])
  BY DEF GatewayInv
<1> QED
  BY <1>1, <1>2, OneCall DEF GoTo

LEMMA Stored ==
    ASSUME GatewayInv
    PROVE  /\ entries \in Seq(Held \X Held)
           /\ \A i \in 1..Len(entries) : entries[i][1] = entries[i][2] /\ Served(entries[i][2])
           /\ \A f : PerCaller(f) => \A c \in Caller : f = [f EXCEPT ![c] = f[c]]
           /\ PerCaller(step) /\ PerCaller(arg) /\ PerCaller(got) /\ PerCaller(said)
  BY DEF GatewayInv, PerCaller

LEMMA ResearchInv ==
    ASSUME GatewayAssumption, GatewayInv, NEW c \in Caller, NEW r \in Question, ResearchCase(c, r)
    PROVE  GatewayInv'
<1> DEFINE a == [tool |-> "research_case", ref |-> r]
<1>1. arg' = [arg EXCEPT ![c] = a] /\ UNCHANGED <<shelf, edition, entries>>
  BY DEF ResearchCase, Called
<1>2. a.tool = "research_case" /\ a.ref = r
  OBVIOUS
<1> HIDE DEF a
<1>3. CASE Refusal(r) = "none"
  <2>1. r \in [version : Binding, problem : Problem]
    BY <1>3 DEF Refusal, Question, GatewayAssumption
  <2>2. /\ step' = [step EXCEPT ![c] = "sent"] /\ said' = [said EXCEPT ![c] = NoAnswer]
        /\ got' = [got EXCEPT ![c] = got[c]]
    BY <1>3, Stored DEF ResearchCase, GoTo
  <2>3. Knows(c)'
    BY <1>1, <1>2, <2>1, <2>2, Stored DEF Knows, PerCaller
  <2>4. Theirs(a, NoAnswer)
    BY Outcomes DEF Theirs
  <2> QED
    BY <1>1, <2>2, <2>3, <2>4, Stored, OneCall
<1>4. CASE Refusal(r) # "none"
  <2>1. /\ step' = [step EXCEPT ![c] = "idle"] /\ said' = [said EXCEPT ![c] = Error(Refusal(r), FALSE)]
        /\ got' = [got EXCEPT ![c] = NoAnswer]
    BY <1>4 DEF ResearchCase, Finish, GoTo
  <2>2. Knows(c)'
    BY <2>1, Stored DEF Knows, PerCaller
  <2>3. Theirs(a, Error(Refusal(r), FALSE))
    BY Outcomes DEF Theirs
  <2> QED
    BY <1>1, <2>1, <2>2, <2>3, Stored, OneCall
<1> QED
  BY <1>3, <1>4

LEMMA ReadInv ==
    ASSUME GatewayInv, NEW c \in Caller, NEW h \in Known, NEW t \in Tools(h), Read(c, t[1], h, t[2])
    PROVE  GatewayInv'
<1> DEFINE a == [tool |-> "read", ref |-> [tool |-> t[1], handle |-> h, ref |-> t[2]]]
<1>1. arg' = [arg EXCEPT ![c] = a] /\ UNCHANGED <<shelf, edition, entries>>
  BY DEF Read, Called
<1>2. a.tool = "read" /\ a.ref.tool = t[1] /\ a.ref.handle = h
  OBVIOUS
<1> HIDE DEF a
<1>3. t[1] \in ReadingTool
  BY DEF Tools, ReadingTool
<1>4. CASE h \in Handles
  <2>1. /\ step' = [step EXCEPT ![c] = "read"] /\ said' = [said EXCEPT ![c] = NoAnswer]
        /\ got' = [got EXCEPT ![c] = Value(h)]
    BY <1>4 DEF Read, GoTo
  <2>2. Value(h) = h /\ Served(h)
    <3>1. Slot(h) \in 1..Len(entries) /\ entries[Slot(h)][1] = h
      BY <1>4 DEF Handles, Slot
    <3> QED
      BY <3>1, Stored DEF Value
  <2>3. Knows(c)'
    BY <1>1, <1>2, <1>3, <2>1, <2>2, Stored DEF Knows, PerCaller, Served
  <2>4. Theirs(a, NoAnswer)
    BY Outcomes DEF Theirs
  <2> QED
    BY <1>1, <2>1, <2>3, <2>4, Stored, OneCall
<1>5. CASE h \notin Handles
  <2>1. /\ step' = [step EXCEPT ![c] = "idle"] /\ said' = [said EXCEPT ![c] = Error("bundle", FALSE)]
        /\ got' = [got EXCEPT ![c] = NoAnswer]
    BY <1>5 DEF Read, Finish, GoTo
  <2>2. Knows(c)'
    BY <2>1, Stored DEF Knows, PerCaller
  <2>3. Theirs(a, Error("bundle", FALSE))
    BY Outcomes DEF Theirs
  <2> QED
    BY <1>1, <2>1, <2>2, <2>3, Stored, OneCall
<1> QED
  BY <1>4, <1>5

\* Whatever defect an answer has, it is of the edition of now.
LEMMA Editions ==
    ASSUME NEW r PROVE Honest(r).edition = edition /\ \A a \in Defective(r) : a.edition = edition
<1>1. \A q : Honest(q).edition = edition
  BY DEF Honest
<1> QED
  BY <1>1 DEF Defective, Honest

LEMMA SuccessInv ==
    ASSUME GatewayInv, NEW c \in Caller, NEW a, a.edition = edition, Success(c, a)
    PROVE  GatewayInv'
<1>1. step[c] = "sent" /\ UNCHANGED <<shelf, edition, entries, arg>>
  BY DEF Success, Answered
<1>2. arg[c].tool = "research_case" /\ arg[c].ref \in [version : Binding, problem : Problem] /\ edition \in Nat
  BY <1>1 DEF GatewayInv, Knows
<1>3. CASE Shape(a) /\ ValidSuccess(a, arg[c].ref)
  <2> DEFINE g == Envelope(a.contract, a.input.problem, a.edition)
  <2>1. GoTo(c, "insert") /\ got' = [got EXCEPT ![c] = g] /\ UNCHANGED said
    BY <1>3 DEF Success
  <2>2. g.version = arg[c].ref.version /\ g.problem = arg[c].ref.problem /\ g.edition = edition /\ g \in Held
    BY <1>2, <1>3 DEF ValidSuccess, Envelope, Held
  <2> HIDE DEF g
  <2>3. Knows(c)'
    BY <1>1, <1>2, <2>1, <2>2, Stored DEF Knows, GoTo, PerCaller, Served
  <2> QED
    BY <1>1, <2>1, <2>3, Stored, GoesOn
<1>4. CASE ~(Shape(a) /\ ValidSuccess(a, arg[c].ref))
  <2>1. Finish(c, Error("contract", FALSE))
    BY <1>4 DEF Success
  <2>2. Theirs(arg[c], Error("contract", FALSE))
    BY Outcomes DEF Theirs
  <2> QED
    BY <1>1, <2>1, <2>2, Stored, Ends
<1> QED
  BY <1>3, <1>4

LEMMA FailureInv ==
    ASSUME GatewayInv, NEW c \in Caller,
           (\E e : Failure(c, e)) \/ Transport(c) \/ Dropped(c)
    PROVE  GatewayInv'
<1>1. UNCHANGED <<shelf, edition, entries, arg>>
  BY DEF Failure, Transport, Dropped, Answered
<1>2. \A e, r : ~Mapped(e, r).ok
  BY Outcomes DEF Mapped
<1>3. PICK result : Finish(c, result) /\ ~result.ok
  BY <1>2, Outcomes DEF Failure, Transport, Dropped
<1>4. Theirs(arg[c], result)
  BY <1>3 DEF Theirs
<1> QED
  BY <1>1, <1>3, <1>4, Stored, Ends

-----------------------------------------------------------------------------
(* Steps on the store.                                                     *)

LEMMA Placed ==
    ASSUME GatewayInv, NEW h \in Handles
    PROVE  Slot(h) \in 1..Len(entries) /\ entries[Slot(h)][1] = h /\ Value(h) = h /\ Served(h)
<1>1. Slot(h) \in 1..Len(entries) /\ entries[Slot(h)][1] = h
  BY DEF Handles, Slot
<1> QED
  BY <1>1, Stored DEF Value

\* What RemoveAt leaves.
LEMMA RemoveForm ==
    ASSUME NEW S, NEW s \in Seq(S), NEW k \in 1..Len(s)
    PROVE  /\ RemoveAt(s, k) \in Seq(S) /\ Len(RemoveAt(s, k)) = Len(s) - 1
           /\ \A i \in 1..Len(s) - 1 : RemoveAt(s, k)[i] = IF i < k THEN s[i] ELSE s[i + 1]
<1>1. Len(s) \in Nat /\ k \in Nat
  OBVIOUS
<1>2. SubSeq(s, 1, k - 1) \in Seq(S) /\ Len(SubSeq(s, 1, k - 1)) = k - 1
      /\ \A i \in 1..k - 1 : SubSeq(s, 1, k - 1)[i] = s[i]
  BY <1>1
<1>3. SubSeq(s, k + 1, Len(s)) \in Seq(S) /\ Len(SubSeq(s, k + 1, Len(s))) = Len(s) - k
      /\ \A i \in 1..Len(s) - k : SubSeq(s, k + 1, Len(s))[i] = s[k + i]
  BY <1>1
<1> DEFINE a == SubSeq(s, 1, k - 1)
           b == SubSeq(s, k + 1, Len(s))
<1> HIDE DEF a, b
<1>4. a \in Seq(S) /\ b \in Seq(S) /\ Len(a) = k - 1 /\ Len(b) = Len(s) - k
  BY <1>2, <1>3 DEF a, b
<1>5. /\ a \o b \in Seq(S) /\ Len(a \o b) = Len(s) - 1
      /\ \A i \in 1..Len(s) - 1 : (a \o b)[i] = IF i < k THEN a[i] ELSE b[i - (k - 1)]
  BY <1>1, <1>4
<1>6. ASSUME NEW i \in 1..Len(s) - 1
      PROVE  (a \o b)[i] = IF i < k THEN s[i] ELSE s[i + 1]
  <2>0. i \in Nat /\ (a \o b)[i] = IF i < k THEN a[i] ELSE b[i - (k - 1)]
    BY <1>1, <1>5
  <2>1. CASE i < k
    <3>1. i \in 1..k - 1
      BY <1>1, <2>0, <2>1
    <3>2. a[i] = s[i]
      BY <1>2, <3>1 DEF a
    <3> QED
      BY <2>0, <2>1, <3>2
  <2>2. CASE ~(i < k)
    <3> DEFINE j == i - (k - 1)
    <3>1. j \in 1..Len(s) - k /\ k + j = i + 1
      BY <1>1, <2>0, <2>2
    <3> HIDE DEF j
    <3>2. b[j] = s[k + j]
      BY <1>3, <3>1 DEF b
    <3>3. (a \o b)[i] = b[j]
      BY <2>0, <2>2 DEF j
    <3> QED
      BY <2>2, <3>1, <3>2, <3>3
  <2> QED
    BY <2>1, <2>2
<1> QED
  BY <1>5, <1>6 DEF RemoveAt, a, b

LEMMA MovedForm ==
    ASSUME GatewayInv, NEW h \in Handles
    PROVE  /\ Moved(h) \in Seq(Held \X Held) /\ Len(Moved(h)) = Len(entries)
           /\ \A i \in 1..Len(Moved(h)) : \E j \in 1..Len(entries) : Moved(h)[i] = entries[j]
<1>1. Slot(h) \in 1..Len(entries) /\ entries \in Seq(Held \X Held) /\ entries[Slot(h)] \in Held \X Held
      /\ Len(entries) \in Nat
  BY Placed, Stored
<1> DEFINE r == RemoveAt(entries, Slot(h))
<1>2. /\ r \in Seq(Held \X Held) /\ Len(r) = Len(entries) - 1
      /\ \A i \in 1..Len(entries) - 1 : r[i] = IF i < Slot(h) THEN entries[i] ELSE entries[i + 1]
  BY <1>1, RemoveForm
<1> HIDE DEF r
<1>3. /\ Append(r, entries[Slot(h)]) \in Seq(Held \X Held) /\ Len(Append(r, entries[Slot(h)])) = Len(entries)
      /\ Append(r, entries[Slot(h)])[Len(entries)] = entries[Slot(h)]
      /\ \A i \in 1..Len(entries) - 1 : Append(r, entries[Slot(h)])[i] = r[i]
  BY <1>1, <1>2
<1>4. ASSUME NEW i \in 1..Len(entries)
      PROVE  \E j \in 1..Len(entries) : Append(r, entries[Slot(h)])[i] = entries[j]
  <2>1. CASE i = Len(entries)
    BY <1>1, <1>3, <2>1
  <2>2. CASE i < Len(entries)
    <3>1. i \in 1..Len(entries) - 1 /\ i + 1 \in 1..Len(entries)
      BY <1>1, <2>2
    <3> QED
      BY <1>2, <1>3, <3>1
  <2>3. i = Len(entries) \/ i < Len(entries)
    BY <1>1
  <2> QED
    BY <2>1, <2>2, <2>3
<1> QED
  BY <1>3, <1>4 DEF Moved, r

LEMMA PutInv == ASSUME GatewayInv, NEW c \in Caller, Put(c) PROVE GatewayInv'
<1> DEFINE h == got[c]
<1>1. /\ step[c] = "insert" /\ UNCHANGED <<shelf, edition, arg, got, said>> /\ GoTo(c, "touch")
      /\ entries' = IF h \in Handles THEN [entries EXCEPT ![Slot(h)] = <<h, h>>] ELSE Append(entries, <<h, h>>)
  BY DEF Put, HandleFor
<1>2. Served(h) /\ Knows(c)
  BY <1>1 DEF GatewayInv, Knows
<1> HIDE DEF h
<1>3. /\ entries' \in Seq(Held \X Held)
      /\ \A i \in 1..Len(entries') : entries'[i][1] = entries'[i][2] /\ Served(entries'[i][2])
  <2> DEFINE e == <<h, h>>
  <2>0. e \in Held \X Held /\ e[1] = h /\ e[2] = h
    BY <1>2 DEF Served
  <2> HIDE DEF e
  <2>1. CASE h \in Handles
    <3>1. entries' = [entries EXCEPT ![Slot(h)] = e]
      BY <1>1, <2>1 DEF e
    <3>2. /\ entries' \in Seq(Held \X Held) /\ Len(entries') = Len(entries)
          /\ \A i \in 1..Len(entries) : entries'[i] = e \/ entries'[i] = entries[i]
      BY <2>0, <2>1, <3>1, Placed, Stored
    <3> QED
      BY <1>2, <2>0, <3>2, Stored
  <2>2. CASE h \notin Handles
    <3>1. entries' = Append(entries, e)
      BY <1>1, <2>2 DEF e
    <3>2. /\ entries' \in Seq(Held \X Held) /\ Len(entries') = Len(entries) + 1
          /\ \A i \in 1..Len(entries') : entries'[i] = e \/ (i \in 1..Len(entries) /\ entries'[i] = entries[i])
      BY <2>0, <3>1, Stored
    <3> QED
      BY <1>2, <2>0, <3>2, Stored
  <2> QED
    BY <2>1, <2>2
<1>4. Knows(c)'
  BY <1>1, <1>2, Stored DEF Knows, GoTo, PerCaller, Served
<1>5. got' = [got EXCEPT ![c] = got[c]]
  BY <1>1, Stored
<1> QED
  BY <1>1, <1>3, <1>4, <1>5, GoesOn

LEMMA TouchInv == ASSUME GatewayInv, NEW c \in Caller, Touch(c) PROVE GatewayInv'
<1>1. /\ step[c] \in {"touch", "read"} /\ UNCHANGED <<shelf, edition, arg>>
  BY DEF Touch
<1>2. Served(got[c]) /\ Knows(c)
  BY <1>1 DEF GatewayInv, Knows
<1>3. CASE got[c] \notin Handles
  <2>1. Finish(c, Broken) /\ UNCHANGED entries
    BY <1>3 DEF Touch, HandleFor
  <2>2. Theirs(arg[c], Broken)
    BY Outcomes DEF Theirs
  <2> QED
    BY <1>1, <2>1, <2>2, Stored, Ends
<1>4. CASE got[c] \in Handles
  <2>1. entries' = Moved(got[c])
    BY <1>4 DEF Touch, HandleFor
  <2>2. /\ entries' \in Seq(Held \X Held)
        /\ \A i \in 1..Len(entries') : entries'[i][1] = entries'[i][2] /\ Served(entries'[i][2])
    BY <1>4, <2>1, MovedForm, Stored
  <2>3. CASE step[c] = "touch"
    <3>1. GoTo(c, "trim") /\ UNCHANGED <<got, said>>
      BY <1>4, <2>3 DEF Touch, HandleFor
    <3>2. Knows(c)'
      BY <1>1, <1>2, <2>3, <3>1, Stored DEF Knows, GoTo, PerCaller, Served
    <3>3. got' = [got EXCEPT ![c] = got[c]]
      BY <3>1, Stored
    <3> QED
      BY <1>1, <2>2, <3>1, <3>2, <3>3, GoesOn
  <2>4. CASE step[c] = "read"
    <3>1. Finish(c, Project(arg[c].ref, got[c]))
      BY <1>4, <2>4 DEF Touch, HandleFor
    <3>2. arg[c].tool = "read" /\ arg[c].ref.tool \in ReadingTool /\ got[c] = arg[c].ref.handle
      BY <1>2, <2>4 DEF Knows
    <3>3. Theirs(arg[c], Project(arg[c].ref, got[c]))
      BY <3>2, ProjectForm DEF Theirs
    <3> QED
      BY <1>1, <2>2, <3>1, <3>3, Ends
  <2> QED
    BY <1>1, <2>3, <2>4
<1> QED
  BY <1>3, <1>4

LEMMA TrimInv == ASSUME GatewayInv, NEW c \in Caller, Trim(c) PROVE GatewayInv'
<1>1. step[c] = "trim" /\ UNCHANGED <<shelf, edition, entries, arg>>
  BY DEF Trim
<1>2. Knows(c)
  BY DEF GatewayInv
<1>3. CASE Len(entries) > Capacity
  <2>1. GoTo(c, "pop") /\ UNCHANGED <<got, said>>
    BY <1>3 DEF Trim
  <2>2. Knows(c)'
    BY <1>1, <1>2, <2>1, Stored DEF Knows, GoTo, PerCaller, Served
  <2>3. got' = [got EXCEPT ![c] = got[c]]
    BY <2>1, Stored
  <2> QED
    BY <1>1, <2>1, <2>2, <2>3, Stored, GoesOn
<1>4. CASE ~(Len(entries) > Capacity)
  <2>1. Finish(c, WholeCase(got[c]))
    BY <1>4 DEF Trim
  <2>2. Theirs(arg[c], WholeCase(got[c]))
    BY <1>1, <1>2, Outcomes DEF Theirs, Knows, WholeCase
  <2> QED
    BY <1>1, <2>1, <2>2, Stored, Ends
<1> QED
  BY <1>3, <1>4

LEMMA PopInv == ASSUME GatewayInv, NEW c \in Caller, Pop(c) PROVE GatewayInv'
<1>1. step[c] = "pop" /\ UNCHANGED <<shelf, edition, arg>>
  BY DEF Pop
<1>2. Knows(c)
  BY DEF GatewayInv
<1>3. CASE entries = <<>>
  <2>1. Finish(c, Broken) /\ UNCHANGED entries
    BY <1>3 DEF Pop
  <2>2. Theirs(arg[c], Broken)
    BY Outcomes DEF Theirs
  <2> QED
    BY <1>1, <2>1, <2>2, Stored, Ends
<1>4. CASE entries # <<>>
  <2>1. entries' = Tail(entries) /\ GoTo(c, "trim") /\ UNCHANGED <<got, said>>
    BY <1>4 DEF Pop
  <2>2. /\ entries' \in Seq(Held \X Held) /\ Len(entries') = Len(entries) - 1
        /\ \A i \in 1..Len(entries') : i + 1 \in 1..Len(entries) /\ entries'[i] = entries[i + 1]
    BY <1>4, <2>1, Stored
  <2>3. \A i \in 1..Len(entries') : entries'[i][1] = entries'[i][2] /\ Served(entries'[i][2])
    BY <2>2, Stored
  <2>4. Knows(c)'
    BY <1>1, <1>2, <2>1, Stored DEF Knows, GoTo, PerCaller, Served
  <2>5. got' = [got EXCEPT ![c] = got[c]]
    BY <2>1, Stored
  <2> QED
    BY <1>1, <2>1, <2>2, <2>3, <2>4, <2>5, GoesOn
<1> QED
  BY <1>3, <1>4

-----------------------------------------------------------------------------
(* The specification.                                                      *)

\* A new edition, or a restart.
LEMMA OutsideInv == ASSUME GatewayInv, Start \/ NewEdition \/ Restart \/ UNCHANGED gateway PROVE GatewayInv'
<1>1. CASE Start \/ UNCHANGED gateway
  BY <1>1 DEF Start, gateway, GatewayInv, PerCaller, Served, Knows, Theirs
<1>2. CASE NewEdition
  <2>1. edition' = edition + 1 /\ edition + 1 \in DOMAIN shelf /\ UNCHANGED <<shelf, entries, step, arg, got, said>>
    BY <1>2 DEF NewEdition
  <2>2. edition' \in Nat /\ 0..edition' \subseteq DOMAIN shelf' /\ edition <= edition'
    BY <2>1 DEF GatewayInv
  <2>3. \A h : Served(h) => Served(h)'
    BY <2>1, <2>2 DEF Served, Held, GatewayInv
  <2>4. (\A i \in 1..Len(entries) : entries[i][1] = entries[i][2] /\ Served(entries[i][2]))'
    BY <2>1, <2>3, Stored DEF Served
  <2>5. \A c \in Caller : Knows(c)' /\ Theirs(arg[c], said[c])'
    BY <2>1, <2>3 DEF GatewayInv, Knows, Theirs, Served
  <2> QED
    BY <2>1, <2>2, <2>4, <2>5 DEF GatewayInv, PerCaller
<1>3. CASE Restart
  <2>1. /\ UNCHANGED <<shelf, edition, arg>> /\ entries' = <<>>
        /\ step' = [c \in Caller |-> "idle"] /\ got' = [c \in Caller |-> NoAnswer]
        /\ said' = [c \in Caller |-> NoAnswer]
    BY <1>3 DEF Restart
  <2>2. PerCaller(step)' /\ PerCaller(arg)' /\ PerCaller(got)' /\ PerCaller(said)'
    BY <2>1, Stored DEF PerCaller
  <2>3. \A c \in Caller : Knows(c)' /\ Theirs(arg[c], said[c])'
    BY <2>1, Outcomes DEF Knows, Theirs
  <2>4. entries' \in Seq(Held \X Held) /\ Len(entries') = 0
    BY <2>1
  <2>5. (\A i \in 1..Len(entries) : entries[i][1] = entries[i][2] /\ Served(entries[i][2]))'
    BY <2>4
  <2>6. edition' \in Nat /\ 0..edition' \subseteq DOMAIN shelf'
    BY <2>1 DEF GatewayInv
  <2> QED
    BY <2>2, <2>3, <2>4, <2>5, <2>6 DEF GatewayInv
<1> QED
  BY <1>1, <1>2, <1>3

LEMMA GatewayInvNext == ASSUME GatewayAssumption, GatewayInv, [GatewayNext]_gateway PROVE GatewayInv'
<1>1. ASSUME NEW c \in Caller, Going(c) PROVE GatewayInv'
  <2>1. CASE step[c] = "sent" /\ Success(c, Honest(arg[c].ref))
    BY <2>1, Editions, SuccessInv
  <2>2. CASE step[c] = "sent" /\ \E a \in Defective(arg[c].ref) : Success(c, a)
    BY <2>2, Editions, SuccessInv
  <2>3. CASE step[c] = "sent" /\ \E e \in Errors(arg[c].ref) : Failure(c, e)
    BY <2>3, FailureInv
  <2>4. CASE Transport(c) \/ Dropped(c)
    BY <2>4, FailureInv
  <2> QED
    BY <1>1, <2>1, <2>2, <2>3, <2>4, PutInv, TouchInv, TrimInv, PopInv DEF Going
<1> QED
  BY <1>1, OutsideInv, ResearchInv, ReadInv DEF GatewayNext

LEMMA GatewayInvInit ==
    ASSUME NEW c, NEW s, NEW calls, GatewayInit(c, s, calls)
    PROVE  GatewayInv
<1>1. PerCaller(step) /\ PerCaller(arg) /\ PerCaller(got) /\ PerCaller(said)
  BY DEF GatewayInit, PerCaller
<1>2. edition = 0 /\ 0..0 = {0} /\ entries \in Seq(Held \X Held) /\ Len(entries) = 0
  BY DEF GatewayInit
<1>3. \A x \in Caller : Knows(x) /\ Theirs(arg[x], said[x])
  BY Outcomes DEF GatewayInit, Knows, Theirs
<1> QED
  BY <1>1, <1>2, <1>3 DEF GatewayInit, GatewayInv

\* Whatever the service sends and however calls interleave, a result is about what
\* was asked: the problem and version of a research, the handle of a reading tool.
THEOREM ResultsAnswerTheCall ==
    ASSUME NEW c, NEW s, NEW calls PROVE GatewaySpec(c, s, calls) => []AnswersAreTheirs
<1>1. GatewayInit(c, s, calls) => GatewayInv
  BY GatewayInvInit
<1>2. GatewayInv /\ [GatewayNext]_gateway => GatewayInv'
  BY GatewayInvNext, GatewayAssumption
<1>3. GatewayInv => AnswersAreTheirs
  BY DEF GatewayInv, AnswersAreTheirs, Theirs
<1> QED
  BY <1>1, <1>2, <1>3, PTL DEF GatewaySpec

-----------------------------------------------------------------------------
(* The links of a view.                                                    *)

\* What a call ends with, when it does: an error, or a view of the bundle it knows.
Views(x) ==
    \/ ~x.ok
    \/ \E h : /\ Served(h)
             /\ \/ x = WholeCase(h)
                \/ \E a : a.tool \in ReadingTool /\ x = Project(a, h)

LinksInv ==
    /\ \A n \in DOMAIN shelf : Contract(shelf[n])
    /\ \A c \in Caller : said[c].ok => ClosedLinks(said[c])

\* The joins of a bundle that keeps the contract are closed.
LEMMA JoinsAreClosed ==
    ASSUME NEW b, Contract(b), NEW as, NEW es, NEW n, n = Links(b, as, es)
    PROVE  /\ \A s \in n.selections : s.aspect \in Refs(n.aspects) /\ s.task \in Refs(n.tasks)
           /\ \A a \in n.aspects :
                 /\ a.question \in n.questions
                 /\ \E s \in n.selections : s.aspect = a.ref
                 /\ \A v \in b.coverage : v.aspect = a.ref => v \in n.coverage
           /\ \A v \in n.coverage :
                 /\ v.tasks \subseteq Refs(n.tasks) /\ v.omissions \subseteq Refs(n.omissions)
                 /\ v.unresolved \subseteq Refs(n.unresolved)
<1> DEFINE sel == Selections(b, as, es)
           cov == Coverages(b, sel)
           linked == LinkedAspects(sel, cov)
           omitted == Omissions(b, sel, cov)
           open == {u \in b.unresolved : u.ref \in UNION {v.unresolved : v \in cov}}
<1>1. /\ n.selections = sel /\ n.coverage = cov /\ n.aspects = ByRefs(b.aspects, linked)
      /\ n.tasks = LinkedTasks(b, sel, cov) /\ n.omissions = omitted
      /\ n.questions = b.questions \cap {a.question : a \in n.aspects}
      /\ open \subseteq n.unresolved
  BY DEF Links
<1>2. \A s \in sel : s \in b.selections /\ s.aspect \in linked
  BY DEF Selections, LinkedAspects
<1>3. \A v \in cov : v \in b.coverage /\ v.aspect \in linked
  BY DEF Coverages, LinkedAspects
<1>4. \A x \in linked : \E s \in sel : s.aspect = x
  <2> SUFFICES ASSUME NEW v \in cov PROVE \E s \in sel : s.aspect = v.aspect
    BY DEF LinkedAspects
  <2>1. CASE v.aspect \in {s.aspect : s \in sel}
    BY <2>1
  <2>2. CASE v.selections \cap Refs(sel) # {}
    <3>1. PICK s \in sel : s.ref \in v.selections
      BY <2>2 DEF Refs
    <3>2. s.aspect = v.aspect
      BY <1>2, <1>3, <3>1 DEF Contract
    <3> QED
      BY <3>2
  <2> QED
    BY <2>1, <2>2 DEF Coverages
<1>5. \A x \in linked : \A v \in b.coverage : v.aspect = x => v \in cov
  BY <1>4 DEF Coverages
<1>11. \A u \in b.unresolved, v \in cov : u.ref \in v.unresolved => u \in n.unresolved
  BY <1>1
<1>12. n.omissions = Omissions(b, sel, cov)
  BY <1>1
<1> HIDE DEF sel, cov, linked, omitted, open
<1>13. \A t \in b.tasks : (\E x \in sel : t.ref = x.task) \/ (\E v \in cov : t.ref \in v.tasks) => t \in n.tasks
  BY <1>1 DEF LinkedTasks
<1>14. \A o \in b.omissions : (\E v \in cov : o.ref \in v.omissions) => o \in n.omissions
  BY <1>12 DEF Omissions
<1>6. \A s \in sel : s.aspect \in Refs(n.aspects) /\ s.task \in Refs(n.tasks)
  <2> TAKE s \in sel
  <2>1. s.aspect \in Refs(b.aspects) /\ s.task \in Refs(b.tasks)
    BY <1>2 DEF Contract
  <2>2. s.aspect \in Refs(n.aspects)
    BY <1>1, <1>2, <2>1 DEF Refs, ByRefs
  <2>3. PICK t \in b.tasks : t.ref = s.task
    BY <2>1 DEF Refs
  <2>4. t \in n.tasks
    BY <1>13, <2>3
  <2> QED
    BY <2>2, <2>3, <2>4 DEF Refs
<1>7. \A a \in n.aspects : a \in b.aspects /\ a.ref \in linked /\ a.question \in n.questions
  BY <1>1 DEF ByRefs, Contract
<1>8. \A v \in cov : v.tasks \subseteq Refs(n.tasks)
  <2> SUFFICES ASSUME NEW v \in cov, NEW r \in v.tasks PROVE r \in Refs(n.tasks)
    OBVIOUS
  <2>1. PICK t \in b.tasks : t.ref = r
    BY <1>3 DEF Contract, Refs
  <2>2. t \in n.tasks
    BY <1>13, <2>1
  <2> QED
    BY <2>1, <2>2 DEF Refs
<1>9. \A v \in cov : v.omissions \subseteq Refs(n.omissions)
  <2> SUFFICES ASSUME NEW v \in cov, NEW r \in v.omissions PROVE r \in Refs(n.omissions)
    OBVIOUS
  <2>1. PICK o \in b.omissions : o.ref = r
    BY <1>3 DEF Contract, Refs
  <2>2. o \in n.omissions
    BY <1>14, <2>1
  <2> QED
    BY <2>1, <2>2 DEF Refs
<1>10. \A v \in cov : v.unresolved \subseteq Refs(n.unresolved)
  <2> SUFFICES ASSUME NEW v \in cov, NEW r \in v.unresolved PROVE r \in Refs(n.unresolved)
    OBVIOUS
  <2>1. PICK u \in b.unresolved : u.ref = r
    BY <1>3 DEF Contract, Refs
  <2>2. u \in n.unresolved
    BY <1>11, <2>1
  <2> QED
    BY <2>1, <2>2 DEF Refs
<1> QED
  BY <1>1, <1>4, <1>5, <1>6, <1>7, <1>8, <1>9, <1>10

\* So is every view of such a bundle.
Linkage(h, links) == links = NoLinks \/ \E as, es : links = Links(shelf[h.edition], as, es)

LEMMA ViewsAreClosed ==
    ASSUME NEW h, Contract(shelf[h.edition]), NEW about, NEW items, NEW links, Linkage(h, links)
    PROVE  ClosedLinks(View(h, about, items, links))
<1> DEFINE x == View(h, about, items, links)
<1>1. x.links = links /\ x.handle = h
  BY DEF View
<1> HIDE DEF x
<1>2. CASE links = NoLinks
  <2>1. links.selections = {} /\ links.aspects = {} /\ links.coverage = {}
    BY <1>2 DEF NoLinks
  <2> QED
    BY <1>1, <2>1 DEF ClosedLinks, x
<1>3. CASE \E as, es : links = Links(shelf[h.edition], as, es)
  <2>1. PICK as, es : links = Links(shelf[h.edition], as, es)
    BY <1>3
  <2>2. /\ \A s \in links.selections : s.aspect \in Refs(links.aspects) /\ s.task \in Refs(links.tasks)
        /\ \A a \in links.aspects :
              /\ a.question \in links.questions
              /\ \E s \in links.selections : s.aspect = a.ref
              /\ \A v \in shelf[h.edition].coverage : v.aspect = a.ref => v \in links.coverage
        /\ \A v \in links.coverage :
              /\ v.tasks \subseteq Refs(links.tasks) /\ v.omissions \subseteq Refs(links.omissions)
              /\ v.unresolved \subseteq Refs(links.unresolved)
    <3>1. PICK b : b = shelf[h.edition]
      OBVIOUS
    <3>2. Contract(b) /\ links = Links(b, as, es)
      BY <2>1, <3>1
    <3> QED
      BY <3>1, <3>2, JoinsAreClosed, Zenon
  <2> QED
    BY <1>1, <2>2 DEF ClosedLinks, x
<1> QED
  BY <1>2, <1>3 DEF Linkage

LEMMA WholeIsClosed ==
    ASSUME NEW h, Contract(shelf[h.edition]) PROVE ClosedLinks(WholeCase(h))
<1> DEFINE b == shelf[h.edition]
           all == [questions |-> b.questions, aspects |-> b.aspects, tasks |-> b.tasks,
                   selections |-> b.selections, coverage |-> b.coverage,
                   omissions |-> b.omissions, unresolved |-> b.unresolved]
           x == View(h, "case", Refs(b.authorities), IF h.version \in Linked THEN all ELSE NoLinks)
<1>1. WholeCase(h) = x
  BY DEF WholeCase
<1>2. CASE h.version \in Linked
  <2>1. x.links = all /\ x.handle = h /\ x.about = "case"
    BY <1>2 DEF View
  <2>2. /\ all.questions = b.questions /\ all.aspects = b.aspects /\ all.tasks = b.tasks
        /\ all.selections = b.selections /\ all.coverage = b.coverage
        /\ all.omissions = b.omissions /\ all.unresolved = b.unresolved
    OBVIOUS
  <2> HIDE DEF all, x
  <2>3. ClosedLinks(x)
    BY <2>1, <2>2 DEF ClosedLinks, Contract
  <2> QED
    BY <1>1, <2>3
<1>3. CASE h.version \notin Linked
  <2>1. WholeCase(h) = View(h, "case", Refs(b.authorities), NoLinks)
    BY <1>3 DEF WholeCase
  <2> QED
    BY <2>1, ViewsAreClosed DEF Linkage
<1> QED
  BY <1>2, <1>3

LEMMA ProjectionsAreClosed ==
    ASSUME NEW h, Contract(shelf[h.edition]), NEW a, a.tool \in ReadingTool, Project(a, h).ok
    PROVE  ClosedLinks(Project(a, h))
<1> DEFINE b == shelf[h.edition]
<1>0. ASSUME NEW x, x.ok,
             \/ \E code : x = Error(code, FALSE)
             \/ \E about, items, links : Linkage(h, links) /\ x = View(h, about, items, links)
      PROVE  ClosedLinks(x)
  <2>1. PICK about, items, links : Linkage(h, links) /\ x = View(h, about, items, links)
    BY <1>0, Outcomes
  <2>2. ClosedLinks(View(h, about, items, links))
    BY <2>1, ViewsAreClosed
  <2> QED
    BY <2>1, <2>2
<1>1. \A as, es : Linkage(h, LinksOf(h, as, es)) /\ Linkage(h, NoLinks)
  BY DEF LinksOf, Linkage
<1>2. ASSUME NEW r, GetAuthority(h, r).ok PROVE ClosedLinks(GetAuthority(h, r))
  <2> DEFINE spans == UNION {x.evidence : x \in ByRefs(b.authorities, {r})}
             items == Refs(ByRefs(b.spans, spans))
             links == LinksOf(h, {r}, spans)
  <2>1. \/ GetAuthority(h, r) = Error("authority", FALSE)
        \/ GetAuthority(h, r) = View(h, r, items, links)
    BY DEF GetAuthority
  <2>2. Linkage(h, links)
    BY <1>1
  <2> HIDE DEF items, links
  <2> QED
    BY <1>0, <1>2, <2>1, <2>2
<1>3. ASSUME NEW r, GetProvision(h, r).ok PROVE ClosedLinks(GetProvision(h, r))
  <2> DEFINE holders == {x \in b.authorities : r \in x.provisions}
             spans == {e \in b.spans : e.provision = r}
             items == Refs(holders) \cup Refs(spans)
             links == LinksOf(h, Refs(holders), Refs(spans))
  <2>1. \/ GetProvision(h, r) = Error("provision", FALSE)
        \/ GetProvision(h, r) = View(h, r, items, links)
    BY DEF GetProvision
  <2>2. Linkage(h, links)
    BY <1>1
  <2> HIDE DEF items, links
  <2> QED
    BY <1>0, <1>3, <2>1, <2>2
<1>4. ASSUME NEW r, GetEvidence(h, r).ok PROVE ClosedLinks(GetEvidence(h, r))
  <2> DEFINE e == CHOOSE x \in b.spans : x.ref = r
             items == {r, e.authority, e.source}
             links == LinksOf(h, {e.authority}, {r})
  <2>1. \/ GetEvidence(h, r) \in {Error("evidence", FALSE), Error("authority", FALSE), Error("source", FALSE)}
        \/ GetEvidence(h, r) = View(h, r, items, links)
    BY DEF GetEvidence
  <2>2. Linkage(h, links)
    BY <1>1
  <2> HIDE DEF items, links
  <2> QED
    BY <1>0, <1>4, <2>1, <2>2
<1>5. ASSUME NEW r PROVE ClosedLinks(GetRelationships(h, r))
  BY <1>1, ViewsAreClosed DEF GetRelationships
<1>6. ASSUME NEW r, GetCalculation(h, r).ok PROVE ClosedLinks(GetCalculation(h, r))
  <2> DEFINE items == UNION {t.evidence : t \in ByRefs(b.traces, {r})}
  <2>1. \/ GetCalculation(h, r) = Error("calculation", FALSE)
        \/ GetCalculation(h, r) = View(h, r, items, NoLinks)
    BY DEF GetCalculation
  <2> HIDE DEF items
  <2> QED
    BY <1>0, <1>1, <1>6, <2>1
<1> QED
  BY <1>2, <1>3, <1>4, <1>5, <1>6, WholeIsClosed DEF Project, ReadingTool

\* What the result of a call can become in a step.
LEMMA Ended ==
    ASSUME GatewayInv, [GatewayNext]_gateway, NEW c \in Caller
    PROVE  said'[c] = said[c] \/ Views(said'[c])
<1>0. PerCaller(said)
  BY DEF GatewayInv
<1>1. ASSUME NEW x, NEW d \in Caller, Finish(d, x), Views(x) PROVE said'[c] = said[c] \/ Views(said'[c])
  <2>1. said'[d] = x /\ (c # d => said'[c] = said[c])
    BY <1>0, <1>1 DEF Finish, PerCaller
  <2> QED
    BY <1>1, <2>1
<1>2. \A code, again : Views(Error(code, again))
  BY Outcomes DEF Views
<1>3. Views(NoAnswer) /\ Views(Broken)
  BY Outcomes DEF Views
<1>4. ASSUME NEW d \in Caller, said' = [said EXCEPT ![d] = NoAnswer]
      PROVE  said'[c] = said[c] \/ Views(said'[c])
  <2>1. said'[d] = NoAnswer /\ (c # d => said'[c] = said[c])
    BY <1>0, <1>4 DEF PerCaller
  <2> QED
    BY <1>3, <2>1
<1>5. \A d \in Caller : Knows(d)
  BY DEF GatewayInv
<1>6. CASE Start \/ NewEdition \/ UNCHANGED gateway
  BY <1>6 DEF Start, NewEdition, gateway
<1>7. CASE Restart
  BY <1>3, <1>7 DEF Restart
<1>8. ASSUME NEW d \in Caller, NEW r \in Question, ResearchCase(d, r)
      PROVE  said'[c] = said[c] \/ Views(said'[c])
  BY <1>1, <1>2, <1>4, <1>8 DEF ResearchCase
<1>9. ASSUME NEW d \in Caller, NEW h, NEW t, Read(d, t[1], h, t[2])
      PROVE  said'[c] = said[c] \/ Views(said'[c])
  BY <1>1, <1>2, <1>4, <1>9 DEF Read
<1>10. ASSUME NEW d \in Caller, Going(d) PROVE said'[c] = said[c] \/ Views(said'[c])
  <2>1. ASSUME NEW a, Success(d, a) PROVE said'[c] = said[c] \/ Views(said'[c])
    BY <1>1, <1>2, <2>1 DEF Success
  <2>2. ASSUME NEW e, Failure(d, e) PROVE said'[c] = said[c] \/ Views(said'[c])
    <3>1. Views(Mapped(e, arg[d].ref))
      BY <1>2 DEF Mapped
    <3> QED
      BY <1>1, <2>2, <3>1 DEF Failure
  <2>3. CASE Transport(d) \/ Dropped(d)
    BY <1>1, <1>2, <1>3, <2>3 DEF Transport, Dropped
  <2>4. CASE Put(d)
    BY <2>4 DEF Put
  <2>5. CASE Touch(d)
    <3>1. CASE got[d] \notin Handles
      BY <1>1, <1>3, <2>5, <3>1 DEF Touch, HandleFor
    <3>2. CASE got[d] \in Handles /\ step[d] = "touch"
      BY <2>5, <3>2 DEF Touch, HandleFor
    <3>3. CASE got[d] \in Handles /\ step[d] = "read"
      <4>1. Finish(d, Project(arg[d].ref, got[d]))
        BY <2>5, <3>3 DEF Touch, HandleFor
      <4>2. Views(Project(arg[d].ref, got[d]))
        BY <1>5, <3>3 DEF Views, Knows
      <4> QED
        BY <1>1, <4>1, <4>2
    <3> QED
      BY <2>5, <3>1, <3>2, <3>3 DEF Touch
  <2>6. CASE Trim(d)
    <3>1. step[d] = "trim" /\ Views(WholeCase(got[d]))
      BY <1>5, <2>6 DEF Trim, Views, Knows
    <3> QED
      BY <1>1, <2>6, <3>1 DEF Trim
  <2>7. CASE Pop(d)
    BY <1>1, <1>3, <2>7 DEF Pop
  <2> QED
    BY <1>10, <2>1, <2>2, <2>3, <2>4, <2>5, <2>6, <2>7 DEF Going
<1> QED
  BY <1>6, <1>7, <1>8, <1>9, <1>10 DEF GatewayNext

LEMMA ShelfIsConstant == ASSUME [GatewayNext]_gateway PROVE shelf' = shelf
  BY DEF GatewayNext, gateway, Start, NewEdition, Restart, ResearchCase, Read, Going, Success, Failure,
         Transport, Dropped, Answered, Put, Touch, Trim, Pop

LEMMA LinksInvNext ==
    ASSUME GatewayInv, LinksInv, [GatewayNext]_gateway PROVE LinksInv'
<1>1. shelf' = shelf
  BY ShelfIsConstant
<1>2. \A x : ClosedLinks(x)' <=> ClosedLinks(x)
  BY <1>1 DEF ClosedLinks
<1>3. ASSUME NEW c \in Caller PROVE said'[c].ok => ClosedLinks(said[c])'
  <2>1. PICK x : x = said'[c]
    OBVIOUS
  <2>2. ASSUME x.ok PROVE ClosedLinks(x)
    <3>1. CASE x = said[c]
      BY <2>2, <3>1 DEF LinksInv
    <3>2. CASE Views(x)
      <4>1. PICK h : /\ Served(h)
                     /\ \/ x = WholeCase(h)
                        \/ \E a : a.tool \in ReadingTool /\ x = Project(a, h)
        BY <2>2, <3>2 DEF Views
      <4>2. h.edition \in DOMAIN shelf
        BY <4>1 DEF Served, Held, GatewayInv
      <4>3. Contract(shelf[h.edition])
        BY <4>2 DEF LinksInv
      <4> QED
        BY <2>2, <4>1, <4>3, WholeIsClosed, ProjectionsAreClosed
    <3> QED
      BY <2>1, <3>1, <3>2, Ended
  <2>3. ASSUME x.ok PROVE ClosedLinks(x)'
    BY <1>2, <2>2, <2>3
  <2> QED
    BY <1>1, <2>1, <2>3 DEF ClosedLinks
<1> QED
  BY <1>1, <1>3 DEF LinksInv

\* Where the service answers with bundles that keep the contract, the links of
\* every view a tool returns are closed.
THEOREM ViewsCarryTheirLinks ==
    ASSUME NEW c, NEW s, NEW calls PROVE GatewaySpec(c, s, calls) => []LinksAreClosed
<1>1. GatewayInit(c, s, calls) => GatewayInv
  BY GatewayInvInit
<1>2. GatewayInit(c, s, calls) => LinksInv
  BY Outcomes DEF GatewayInit, LinksInv
<1>3. GatewayInv /\ [GatewayNext]_gateway => GatewayInv'
  BY GatewayInvNext, GatewayAssumption
<1>4. GatewayInv /\ LinksInv /\ [GatewayNext]_gateway => LinksInv'
  BY LinksInvNext
<1>5. LinksInv => LinksAreClosed
  BY DEF LinksInv, LinksAreClosed
<1> QED
  BY <1>1, <1>2, <1>3, <1>4, <1>5, PTL DEF GatewaySpec

-----------------------------------------------------------------------------
(* The order of eviction.                                                  *)

\* The entries stand in the order in which they were last used.
OrderInv ==
    /\ restarts \in Nat
    /\ used \in Seq(Held)
    /\ \A k, l \in 1..Len(used) : used[k] = used[l] => k = l
    /\ \A i, j \in 1..Len(entries) : entries[i][1] = entries[j][1] => i = j
    /\ \A i \in 1..Len(entries) : \E k \in 1..Len(used) : used[k] = entries[i][1]
    /\ \A i, j \in 1..Len(entries) : i < j =>
          \E k, l \in 1..Len(used) : k < l /\ used[k] = entries[i][1] /\ used[l] = entries[j][1]

\* Where an element of s without its k-th comes from, and goes to.
From(i, k) == IF i < k THEN i ELSE i + 1
To(j, k) == IF j < k THEN j ELSE j - 1

LEMMA RemoveOrder ==
    ASSUME NEW S, NEW s \in Seq(S), NEW k \in 1..Len(s), NEW r, r = RemoveAt(s, k)
    PROVE  /\ r \in Seq(S) /\ Len(r) = Len(s) - 1
           /\ \A i \in 1..Len(r) : From(i, k) \in 1..Len(s) /\ From(i, k) # k /\ r[i] = s[From(i, k)]
           /\ \A i, j \in 1..Len(r) : i < j => From(i, k) < From(j, k)
           /\ \A i, j \in 1..Len(r) : From(i, k) = From(j, k) => i = j
           /\ \A j \in 1..Len(s) : j # k => To(j, k) \in 1..Len(r) /\ r[To(j, k)] = s[j]
           /\ \A i, j \in 1..Len(s) : i # k /\ j # k /\ i < j => To(i, k) < To(j, k)
<1>1. Len(s) \in Nat /\ k \in Nat /\ 1 <= k /\ k <= Len(s)
  OBVIOUS
<1>2. /\ r \in Seq(S) /\ Len(r) = Len(s) - 1
      /\ \A i \in 1..Len(s) - 1 : r[i] = IF i < k THEN s[i] ELSE s[i + 1]
  BY RemoveForm
<1>3. \A i \in 1..Len(r) : From(i, k) \in 1..Len(s) /\ From(i, k) # k /\ r[i] = s[From(i, k)]
  BY <1>1, <1>2 DEF From
<1>4. /\ \A i, j \in 1..Len(r) : i < j => From(i, k) < From(j, k)
      /\ \A i, j \in 1..Len(r) : From(i, k) = From(j, k) => i = j
  BY <1>1, <1>2 DEF From
<1>5. ASSUME NEW j \in 1..Len(s), j # k PROVE To(j, k) \in 1..Len(r) /\ r[To(j, k)] = s[j]
  <2>1. To(j, k) \in 1..Len(r)
    BY <1>1, <1>2, <1>5 DEF To
  <2>2. From(To(j, k), k) = j
    BY <1>1, <1>5 DEF From, To
  <2> QED
    BY <1>3, <2>1, <2>2
<1>6. \A i, j \in 1..Len(s) : i # k /\ j # k /\ i < j => To(i, k) < To(j, k)
  BY <1>1 DEF To
<1> QED
  BY <1>2, <1>3, <1>4, <1>5, <1>6

\* A use puts a handle behind all the others and leaves them in their order.
LEMMA UseOrder ==
    ASSUME used \in Seq(Held), \A k, l \in 1..Len(used) : used[k] = used[l] => k = l,
           NEW h \in Held, Use(h)
    PROVE  /\ used' \in Seq(Held) /\ Len(used') \in Nat \ {0} /\ used'[Len(used')] = h
           /\ \A k, l \in 1..Len(used') : used'[k] = used'[l] => k = l
           /\ \A k \in 1..Len(used) : used[k] # h => \E m \in 1..Len(used') - 1 : used'[m] = used[k]
           /\ \A k, l \in 1..Len(used) : k < l /\ used[k] # h /\ used[l] # h =>
                 \E m, n \in 1..Len(used') - 1 : m < n /\ used'[m] = used[k] /\ used'[n] = used[l]
<1>0. DOMAIN used = 1..Len(used) /\ Len(used) \in Nat
  OBVIOUS
<1>1. ASSUME NEW r \in Seq(Held), \A k, l \in 1..Len(r) : r[k] = r[l] => k = l,
             \A i \in 1..Len(r) : r[i] # h, used' = Append(r, h)
      PROVE  /\ used' \in Seq(Held) /\ Len(used') \in Nat \ {0} /\ used'[Len(used')] = h
             /\ Len(r) = Len(used') - 1 /\ \A i \in 1..Len(r) : used'[i] = r[i]
             /\ \A k, l \in 1..Len(used') : used'[k] = used'[l] => k = l
  <2>1. /\ used' \in Seq(Held) /\ Len(used') = Len(r) + 1 /\ used'[Len(r) + 1] = h
        /\ \A i \in 1..Len(r) : used'[i] = r[i]
    BY <1>1
  <2>2. Len(r) \in Nat
    OBVIOUS
  <2>3. \A k \in 1..Len(used') : k = Len(r) + 1 \/ k \in 1..Len(r)
    BY <2>1, <2>2
  <2>4. \A k, l \in 1..Len(used') : used'[k] = used'[l] => k = l
    BY <1>1, <2>1, <2>3
  <2> QED
    BY <2>1, <2>2, <2>4
<1>2. CASE \E i \in DOMAIN used : used[i] = h
  <2>1. PICK q : q = CHOOSE i \in DOMAIN used : used[i] = h
    OBVIOUS
  <2>2. q \in 1..Len(used) /\ used[q] = h
    BY <1>0, <1>2, <2>1
  <2>3. PICK r : r = RemoveAt(used, q)
    OBVIOUS
  <2>4. used' = Append(r, h)
    BY <1>2, <2>1, <2>3 DEF Use
  <2>5. /\ r \in Seq(Held) /\ Len(r) = Len(used) - 1
        /\ \A i \in 1..Len(r) : From(i, q) \in 1..Len(used) /\ From(i, q) # q /\ r[i] = used[From(i, q)]
        /\ \A i, j \in 1..Len(r) : From(i, q) = From(j, q) => i = j
        /\ \A j \in 1..Len(used) : j # q => To(j, q) \in 1..Len(r) /\ r[To(j, q)] = used[j]
        /\ \A i, j \in 1..Len(used) : i # q /\ j # q /\ i < j => To(i, q) < To(j, q)
    BY <2>2, <2>3, RemoveOrder
  <2>6. \A i \in 1..Len(r) : r[i] # h
    BY <2>2, <2>5
  <2>7. \A k, l \in 1..Len(r) : r[k] = r[l] => k = l
    BY <2>5
  <2>8. /\ used' \in Seq(Held) /\ Len(used') \in Nat \ {0} /\ used'[Len(used')] = h
        /\ Len(r) = Len(used') - 1 /\ \A i \in 1..Len(r) : used'[i] = r[i]
        /\ \A k, l \in 1..Len(used') : used'[k] = used'[l] => k = l
    BY <1>1, <2>4, <2>5, <2>6, <2>7
  <2>9. \A k \in 1..Len(used) : used[k] # h => To(k, q) \in 1..Len(used') - 1 /\ used'[To(k, q)] = used[k]
    BY <2>2, <2>5, <2>8
  <2>10. \A k, l \in 1..Len(used) : k < l /\ used[k] # h /\ used[l] # h => To(k, q) < To(l, q)
    BY <2>2, <2>5
  <2> QED
    BY <2>8, <2>9, <2>10
<1>3. CASE ~\E i \in DOMAIN used : used[i] = h
  <2>1. used' = Append(used, h)
    BY <1>3 DEF Use
  <2>2. \A i \in 1..Len(used) : used[i] # h
    BY <1>0, <1>3
  <2>3. /\ used' \in Seq(Held) /\ Len(used') \in Nat \ {0} /\ used'[Len(used')] = h
        /\ Len(used) = Len(used') - 1 /\ \A i \in 1..Len(used) : used'[i] = used[i]
        /\ \A k, l \in 1..Len(used') : used'[k] = used'[l] => k = l
    BY <1>1, <2>1, <2>2
  <2> QED
    BY <2>3
<1> QED
  BY <1>2, <1>3

\* One more use of h, and h at the end of the entries: whether it was there or not.
LEMMA UsedLast ==
    ASSUME OrderInv, NEW h \in Held, Use(h), UNCHANGED restarts,
           NEW n \in Nat, Len(entries') = n + 1, entries'[n + 1][1] = h,
           NEW at \in [1..n -> 1..Len(entries)],
           \A i \in 1..n : entries'[i] = entries[at[i]] /\ entries[at[i]][1] # h,
           \A i, j \in 1..n : i < j => at[i] < at[j]
    PROVE  OrderInv'
<1>1. /\ used' \in Seq(Held) /\ Len(used') \in Nat \ {0} /\ used'[Len(used')] = h
      /\ \A k, l \in 1..Len(used') : used'[k] = used'[l] => k = l
      /\ \A k \in 1..Len(used) : used[k] # h => \E m \in 1..Len(used') - 1 : used'[m] = used[k]
      /\ \A k, l \in 1..Len(used) : k < l /\ used[k] # h /\ used[l] # h =>
            \E x, y \in 1..Len(used') - 1 : x < y /\ used'[x] = used[k] /\ used'[y] = used[l]
  BY UseOrder DEF OrderInv
<1>2. \A i \in 1..Len(entries') : i \in 1..n \/ i = n + 1
  OBVIOUS
<1>3. \A i \in 1..n : at[i] \in 1..Len(entries) /\ entries'[i][1] = entries[at[i]][1] /\ entries'[i][1] # h
  OBVIOUS
<1>4. \A i, j \in 1..Len(entries') : entries'[i][1] = entries'[j][1] => i = j
  <2> SUFFICES ASSUME NEW i \in 1..Len(entries'), NEW j \in 1..Len(entries'),
                      entries'[i][1] = entries'[j][1]
               PROVE  i = j
    OBVIOUS
  <2>1. CASE i \in 1..n /\ j \in 1..n
    <3>0. \A x, y \in 1..Len(entries) : entries[x][1] = entries[y][1] => x = y
      BY DEF OrderInv
    <3>1. at[i] = at[j]
      <4>1. /\ at[i] \in 1..Len(entries) /\ at[j] \in 1..Len(entries)
            /\ entries[at[i]][1] = entries[at[j]][1]
        BY <1>3, <2>1
      <4> QED
        BY <3>0, <4>1, Zenon
    <3>2. at[i] \in Int /\ at[j] \in Int /\ i \in Int /\ j \in Int
      BY <1>3, <2>1
    <3> QED
      BY <2>1, <3>1, <3>2
  <2>2. CASE ~(i \in 1..n /\ j \in 1..n)
    BY <1>2, <1>3, <2>2
  <2> QED
    BY <2>1, <2>2
<1>5. ASSUME NEW i \in 1..n PROVE \E k \in 1..Len(used') - 1 : used'[k] = entries'[i][1]
  <2>1. PICK k \in 1..Len(used) : used[k] = entries[at[i]][1]
    BY <1>3 DEF OrderInv
  <2> QED
    BY <1>1, <1>3, <2>1
<1>6. \A i \in 1..Len(entries') : \E k \in 1..Len(used') : used'[k] = entries'[i][1]
  <2> TAKE i \in 1..Len(entries')
  <2>1. CASE i \in 1..n
    BY <1>1, <1>5, <2>1
  <2>2. CASE i = n + 1
    <3>1. Len(used') \in 1..Len(used') /\ used'[Len(used')] = entries'[i][1]
      BY <1>1, <2>2
    <3> QED
      BY <3>1
  <2> QED
    BY <1>2, <2>1, <2>2
<1>7. ASSUME NEW i \in 1..Len(entries'), NEW j \in 1..Len(entries'), i < j
      PROVE  \E k, l \in 1..Len(used') : k < l /\ used'[k] = entries'[i][1] /\ used'[l] = entries'[j][1]
  <2>1. i \in 1..n
    BY <1>2, <1>7
  <2>2. CASE j \in 1..n
    <3>1. at[i] < at[j]
      BY <1>7, <2>1, <2>2
    <3>0. \A a, b \in 1..Len(entries) : a < b =>
             \E k, l \in 1..Len(used) : k < l /\ used[k] = entries[a][1] /\ used[l] = entries[b][1]
      BY DEF OrderInv
    <3>2. PICK k, l \in 1..Len(used) : k < l /\ used[k] = entries[at[i]][1] /\ used[l] = entries[at[j]][1]
      <4>1. at[i] \in 1..Len(entries) /\ at[j] \in 1..Len(entries)
        BY <1>3, <2>1, <2>2
      <4> QED
        BY <3>0, <3>1, <4>1, Zenon
    <3>4. used[k] # h /\ used[l] # h
      BY <1>3, <2>1, <2>2, <3>2
    <3>3. PICK x, y \in 1..Len(used') - 1 : x < y /\ used'[x] = used[k] /\ used'[y] = used[l]
      BY <1>1, <3>2, <3>4
    <3>5. used'[x] = entries'[i][1] /\ used'[y] = entries'[j][1]
      BY <1>3, <2>1, <2>2, <3>2, <3>3
    <3>6. x \in 1..Len(used') /\ y \in 1..Len(used')
      BY <1>1, <3>3
    <3> QED
      BY <3>3, <3>5, <3>6
  <2>3. CASE j = n + 1
    <3>1. PICK k \in 1..Len(used') - 1 : used'[k] = entries'[i][1]
      BY <1>5, <2>1
    <3> QED
      BY <1>1, <2>3, <3>1
  <2> QED
    BY <1>2, <2>2, <2>3
<1>8. restarts' \in Nat
  BY DEF OrderInv
<1> QED
  BY <1>1, <1>4, <1>6, <1>7, <1>8 DEF OrderInv

\* A step that leaves the entries and the uses as they are, or rewrites an entry
\* under its own handle, or takes the first away.
LEMMA SameOrder ==
    ASSUME OrderInv, UNCHANGED <<used, restarts>>,
           NEW n \in Nat, Len(entries') = n,
           NEW at \in [1..n -> 1..Len(entries)],
           \A i \in 1..n : entries'[i][1] = entries[at[i]][1],
           \A i, j \in 1..n : i < j => at[i] < at[j]
    PROVE  OrderInv'
<1>1. \A i \in 1..n : at[i] \in 1..Len(entries)
  OBVIOUS
<1>2. ASSUME NEW i \in 1..n, NEW j \in 1..n, entries'[i][1] = entries'[j][1] PROVE i = j
  <2>0. \A x, y \in 1..Len(entries) : entries[x][1] = entries[y][1] => x = y
    BY DEF OrderInv
  <2>1. at[i] = at[j]
    <3>1. /\ at[i] \in 1..Len(entries) /\ at[j] \in 1..Len(entries)
          /\ entries[at[i]][1] = entries[at[j]][1]
      BY <1>1, <1>2
    <3> QED
      BY <2>0, <3>1, Zenon
  <2>2. at[i] \in Int /\ at[j] \in Int /\ i \in Int /\ j \in Int
    BY <1>1
  <2> QED
    BY <2>1, <2>2
<1>3. ASSUME NEW i \in 1..n PROVE \E k \in 1..Len(used) : used[k] = entries'[i][1]
  <2>1. PICK k \in 1..Len(used) : used[k] = entries[at[i]][1]
    BY <1>1 DEF OrderInv
  <2> QED
    BY <2>1
<1>4. ASSUME NEW i \in 1..n, NEW j \in 1..n, i < j
      PROVE  \E k, l \in 1..Len(used) : k < l /\ used[k] = entries'[i][1] /\ used[l] = entries'[j][1]
  <2>0. \A a, b \in 1..Len(entries) : a < b =>
           \E k, l \in 1..Len(used) : k < l /\ used[k] = entries[a][1] /\ used[l] = entries[b][1]
    BY DEF OrderInv
  <2>1. at[i] < at[j] /\ at[i] \in 1..Len(entries) /\ at[j] \in 1..Len(entries)
    BY <1>1, <1>4
  <2>2. PICK k, l \in 1..Len(used) : k < l /\ used[k] = entries[at[i]][1] /\ used[l] = entries[at[j]][1]
    BY <2>0, <2>1, Zenon
  <2>3. used[k] = entries'[i][1] /\ used[l] = entries'[j][1]
    BY <2>2
  <2> QED
    BY <2>2, <2>3
<1> QED
  BY <1>2, <1>3, <1>4 DEF OrderInv

\* Nothing of the store changes.
LEMMA StoreUnchanged ==
    ASSUME OrderInv, UNCHANGED <<entries, used, restarts>> PROVE OrderInv'
  BY DEF OrderInv

LEMMA PutOrder == ASSUME GatewayInv, OrderInv, NEW c \in Caller, Put(c) PROVE OrderInv'
<1> DEFINE h == got[c]
<1>1. /\ UNCHANGED restarts /\ step[c] = "insert"
      /\ entries' = IF h \in Handles THEN [entries EXCEPT ![Slot(h)] = <<h, h>>] ELSE Append(entries, <<h, h>>)
      /\ IF h \in Handles THEN UNCHANGED used ELSE Use(h)
  BY DEF Put, HandleFor
<1>2. h \in Held
  BY <1>1 DEF GatewayInv, Knows, Served
<1>3. Len(entries) \in Nat /\ entries \in Seq(Held \X Held)
  BY Stored
<1> DEFINE at == [i \in 1..Len(entries) |-> i]
<1>4. /\ at \in [1..Len(entries) -> 1..Len(entries)]
      /\ \A i \in 1..Len(entries) : at[i] = i
  OBVIOUS
<1> HIDE DEF at, h
<1>5. CASE h \in Handles
  <2>1. Len(entries') = Len(entries) /\ \A i \in 1..Len(entries) : entries'[i][1] = entries[i][1]
    <3>1. Slot(h) \in 1..Len(entries) /\ entries[Slot(h)][1] = h
      BY <1>5, Placed
    <3>0. PICK e : e = <<h, h>>
      OBVIOUS
    <3>2. e[1] = h /\ e \in Held \X Held
      BY <1>2, <3>0
    <3>3. /\ Len(entries') = Len(entries)
          /\ \A i \in 1..Len(entries) : entries'[i] = IF i = Slot(h) THEN e ELSE entries[i]
      BY <1>1, <1>3, <1>5, <3>0, <3>1, <3>2
    <3> QED
      BY <3>1, <3>2, <3>3
  <2>2. /\ \A i \in 1..Len(entries) : entries'[i][1] = entries[at[i]][1]
        /\ \A i, j \in 1..Len(entries) : i < j => at[i] < at[j]
    BY <1>4, <2>1
  <2>3. UNCHANGED <<used, restarts>>
    BY <1>1, <1>5
  <2> QED
    BY <1>3, <1>4, <2>1, <2>2, <2>3, SameOrder
<1>6. CASE h \notin Handles
  <2>0. PICK e : e = <<h, h>>
    OBVIOUS
  <2>1. e[1] = h /\ e \in Held \X Held
    BY <1>2, <2>0
  <2>2. entries' = Append(entries, e)
    BY <1>1, <1>6, <2>0
  <2>3. /\ Len(entries') = Len(entries) + 1 /\ entries'[Len(entries) + 1] = e
        /\ \A i \in 1..Len(entries) : entries'[i] = entries[i]
    BY <1>3, <2>1, <2>2
  <2>4. \A i \in 1..Len(entries) : entries[i][1] # h
    BY <1>6 DEF Handles
  <2>5. \A i \in 1..Len(entries) : entries'[i] = entries[at[i]] /\ entries[at[i]][1] # h
    BY <1>4, <2>3, <2>4
  <2>6. Use(h) /\ entries'[Len(entries) + 1][1] = h
    BY <1>1, <1>6, <2>1, <2>3
  <2>7. \A i, j \in 1..Len(entries) : i < j => at[i] < at[j]
    BY <1>4
  <2> QED
    BY <1>1, <1>2, <1>3, <1>4, <2>3, <2>5, <2>6, <2>7, UsedLast
<1> QED
  BY <1>5, <1>6

LEMMA TouchOrder == ASSUME GatewayInv, OrderInv, NEW c \in Caller, Touch(c) PROVE OrderInv'
<1>1. step[c] \in {"touch", "read"} /\ UNCHANGED restarts
  BY DEF Touch
<1>2. CASE got[c] \notin Handles
  BY <1>1, <1>2, StoreUnchanged DEF Touch, HandleFor
<1>3. CASE got[c] \in Handles
  <2>1. PICK h \in Handles : h = got[c]
    BY <1>3
  <2>2. entries' = Moved(h) /\ Use(h)
    BY <1>3, <2>1 DEF Touch, HandleFor
  <2>3. PICK k : k = Slot(h)
    OBVIOUS
  <2>4. k \in 1..Len(entries) /\ entries[k][1] = h /\ Served(h)
    BY <2>3, Placed
  <2>5. entries \in Seq(Held \X Held) /\ Len(entries) \in Nat /\ entries[k] \in Held \X Held
    BY <2>4, Stored
  <2>6. PICK r : r = RemoveAt(entries, k)
    OBVIOUS
  <2>7. /\ r \in Seq(Held \X Held) /\ Len(r) = Len(entries) - 1
        /\ \A i \in 1..Len(r) : From(i, k) \in 1..Len(entries) /\ From(i, k) # k /\ r[i] = entries[From(i, k)]
        /\ \A i, j \in 1..Len(r) : i < j => From(i, k) < From(j, k)
    BY <2>4, <2>5, <2>6, RemoveOrder
  <2>8. entries' = Append(r, entries[k])
    BY <2>2, <2>3, <2>6 DEF Moved
  <2>9. /\ Len(entries') = Len(r) + 1 /\ entries'[Len(r) + 1] = entries[k]
        /\ \A i \in 1..Len(r) : entries'[i] = r[i]
    BY <2>5, <2>7, <2>8
  <2> DEFINE at == [i \in 1..Len(r) |-> From(i, k)]
  <2>10. /\ at \in [1..Len(r) -> 1..Len(entries)]
         /\ \A i \in 1..Len(r) : at[i] = From(i, k)
    BY <2>7
  <2> HIDE DEF at
  <2>11. \A x \in 1..Len(entries) : x # k => entries[x][1] # h
    BY <2>4 DEF OrderInv
  <2>12. \A i \in 1..Len(r) : entries'[i] = entries[at[i]] /\ entries[at[i]][1] # h
    BY <2>7, <2>9, <2>10, <2>11
  <2>13. \A i, j \in 1..Len(r) : i < j => at[i] < at[j]
    BY <2>7, <2>10
  <2>14. Len(r) \in Nat /\ h \in Held /\ entries'[Len(r) + 1][1] = h
    BY <2>4, <2>7, <2>9 DEF Served
  <2> QED
    BY <1>1, <2>2, <2>9, <2>10, <2>12, <2>13, <2>14, UsedLast
<1> QED
  BY <1>2, <1>3

\* Of the entries the first is taken, which was used before all the others.
LEMMA PopOrder ==
    ASSUME GatewayInv, OrderInv, NEW c \in Caller, Pop(c)
    PROVE  /\ OrderInv'
           /\ \A h \in Handles : h \notin {entries'[i][1] : i \in 1..Len(entries')} =>
                 Later(h) = Handles \ {h}
<1>1. UNCHANGED <<used, restarts>>
  BY DEF Pop
<1>2. CASE entries = <<>>
  <2>1. UNCHANGED entries
    BY <1>2 DEF Pop
  <2> QED
    BY <1>1, <2>1, StoreUnchanged DEF Handles
<1>3. CASE entries # <<>>
  <2>1. entries' = Tail(entries) /\ entries \in Seq(Held \X Held)
    BY <1>3, Stored DEF Pop
  <2>2. /\ Len(entries) \in Nat \ {0} /\ Len(entries') = Len(entries) - 1
        /\ \A i \in 1..Len(entries') : i + 1 \in 1..Len(entries) /\ entries'[i] = entries[i + 1]
    BY <1>3, <2>1
  <2> DEFINE at == [i \in 1..Len(entries) - 1 |-> i + 1]
  <2>3. /\ at \in [1..Len(entries) - 1 -> 1..Len(entries)]
        /\ \A i \in 1..Len(entries) - 1 : at[i] = i + 1
    BY <2>2
  <2> HIDE DEF at
  <2>4. \A i \in 1..Len(entries) - 1 : entries'[i][1] = entries[at[i]][1]
    BY <2>2, <2>3
  <2>5. \A i, j \in 1..Len(entries) - 1 : i < j => at[i] < at[j]
    BY <2>3
  <2>6. Len(entries) - 1 \in Nat
    BY <2>2
  <2>7. OrderInv'
    BY <1>1, <2>2, <2>3, <2>4, <2>5, <2>6, SameOrder
  <2>8. ASSUME NEW h \in Handles, h \notin {entries'[i][1] : i \in 1..Len(entries')}
        PROVE  Later(h) = Handles \ {h}
    <3>1. PICK i \in 1..Len(entries) : entries[i][1] = h
      BY DEF Handles
    <3>2. i = 1
      <4> SUFFICES ASSUME i # 1 PROVE FALSE
        OBVIOUS
      <4>1. i - 1 \in 1..Len(entries') /\ i - 1 + 1 = i
        BY <2>2
      <4>2. entries'[i - 1] = entries[i]
        BY <2>2, <4>1
      <4> QED
        BY <2>8, <3>1, <4>1, <4>2
    <3>3. ASSUME NEW g \in Handles, g # h PROVE g \in Later(h)
      <4>1. PICK j \in 1..Len(entries) : entries[j][1] = g
        BY DEF Handles
      <4>2. 1 < j /\ 1 \in 1..Len(entries)
        BY <2>2, <3>1, <3>2, <3>3, <4>1
      <4>3. \A a, b \in 1..Len(entries) : a < b =>
               \E k, l \in 1..Len(used) : k < l /\ used[k] = entries[a][1] /\ used[l] = entries[b][1]
        BY DEF OrderInv
      <4>4. PICK k, l \in 1..Len(used) : k < l /\ used[k] = entries[1][1] /\ used[l] = entries[j][1]
        BY <4>2, <4>3, Zenon
      <4> QED
        BY <3>1, <3>2, <4>1, <4>4 DEF Later
    <3>4. h \notin Later(h)
      <4> SUFFICES ASSUME NEW k \in 1..Len(used), NEW l \in 1..Len(used),
                          k < l, used[k] = h, used[l] = h
                   PROVE  FALSE
        BY DEF Later
      <4>1. k = l
        BY DEF OrderInv
      <4> QED
        BY <4>1
    <3> QED
      BY <3>3, <3>4 DEF Later
  <2> QED
    BY <2>7, <2>8
<1> QED
  BY <1>2, <1>3

\* No other step takes a handle away.
LEMMA HandlesStay ==
    ASSUME GatewayInv, NEW c \in Caller, Put(c) \/ Touch(c), NEW h \in Handles
    PROVE  h \in {entries'[i][1] : i \in 1..Len(entries')}
<1>1. PICK i \in 1..Len(entries) : entries[i][1] = h
  BY DEF Handles
<1>2. entries \in Seq(Held \X Held) /\ Len(entries) \in Nat
  BY Stored
<1>3. CASE Put(c)
  <2>1. PICK g : g = got[c]
    OBVIOUS
  <2>2. /\ entries' = IF g \in Handles THEN [entries EXCEPT ![Slot(g)] = <<g, g>>] ELSE Append(entries, <<g, g>>)
        /\ g \in Held
    BY <1>3, <2>1 DEF Put, HandleFor, GatewayInv, Knows, Served
  <2>0. PICK e : e = <<g, g>>
    OBVIOUS
  <2>3. e[1] = g /\ e \in Held \X Held
    BY <2>0, <2>2
  <2>4. CASE g \in Handles
    <3>1. Slot(g) \in 1..Len(entries) /\ entries[Slot(g)][1] = g
      BY <2>4, Placed
    <3>2. /\ Len(entries') = Len(entries)
          /\ \A j \in 1..Len(entries) : entries'[j] = IF j = Slot(g) THEN e ELSE entries[j]
      BY <1>2, <2>0, <2>2, <2>3, <2>4, <3>1
    <3>3. entries'[i][1] = h /\ i \in 1..Len(entries')
      BY <1>1, <2>3, <3>1, <3>2
    <3> QED
      BY <3>3
  <2>5. CASE g \notin Handles
    <3>1. entries' = Append(entries, e)
      BY <2>0, <2>2, <2>5
    <3>2. entries'[i] = entries[i] /\ i \in 1..Len(entries')
      BY <1>2, <2>3, <3>1
    <3> QED
      BY <1>1, <3>2
  <2> QED
    BY <2>4, <2>5
<1>4. CASE Touch(c)
  <2>1. CASE got[c] \notin Handles
    BY <1>1, <1>4, <2>1 DEF Touch, HandleFor
  <2>2. CASE got[c] \in Handles
    <3>1. PICK k : k = Slot(got[c])
      OBVIOUS
    <3>2. k \in 1..Len(entries) /\ entries[k] \in Held \X Held
      BY <1>2, <2>2, <3>1, Placed, Stored
    <3>3. PICK r : r = RemoveAt(entries, k)
      OBVIOUS
    <3>4. /\ r \in Seq(Held \X Held) /\ Len(r) = Len(entries) - 1
          /\ \A j \in 1..Len(entries) : j # k => To(j, k) \in 1..Len(r) /\ r[To(j, k)] = entries[j]
      BY <1>2, <3>2, <3>3, RemoveOrder, SMTT(30)
    <3>5. entries' = Append(r, entries[k])
      BY <1>4, <2>2, <3>1, <3>3 DEF Touch, HandleFor, Moved
    <3>6. /\ Len(entries') = Len(r) + 1 /\ entries'[Len(r) + 1] = entries[k]
          /\ \A j \in 1..Len(r) : entries'[j] = r[j]
      BY <3>2, <3>4, <3>5
    <3>7. CASE i = k
      <4>1. Len(r) + 1 \in 1..Len(entries') /\ entries'[Len(r) + 1][1] = h
        BY <1>1, <1>2, <3>4, <3>6, <3>7
      <4> QED
        BY <4>1
    <3>8. CASE i # k
      <4>1. To(i, k) \in 1..Len(r) /\ entries'[To(i, k)][1] = h
        BY <1>1, <3>4, <3>6, <3>8
      <4>2. To(i, k) \in 1..Len(entries')
        BY <1>2, <3>4, <3>6, <4>1
      <4> QED
        BY <4>1, <4>2
    <3> QED
      BY <3>7, <3>8
  <2> QED
    BY <2>1, <2>2
<1> QED
  BY <1>3, <1>4

Evicted == \A h \in Handles :
    restarts' = restarts /\ h \notin {entries'[i][1] : i \in 1..Len(entries')} => Later(h) = Handles \ {h}

LEMMA OrderInvNext ==
    ASSUME GatewayInv, OrderInv, [GatewayNext]_gateway PROVE OrderInv' /\ Evicted
<1>1. ASSUME UNCHANGED <<entries, used, restarts>> PROVE OrderInv' /\ Evicted
  BY <1>1, StoreUnchanged DEF Evicted, Handles
<1>2. CASE Restart
  <2>1. entries' = <<>> /\ used' = <<>> /\ restarts' = restarts + 1 /\ restarts \in Nat
    BY <1>2 DEF Restart, OrderInv
  <2>2. Len(entries') = 0 /\ Len(used') = 0 /\ used' \in Seq(Held) /\ restarts' \in Nat /\ restarts' # restarts
    BY <2>1
  <2>3. OrderInv'
    BY <2>2 DEF OrderInv
  <2> QED
    BY <2>2, <2>3 DEF Evicted
<1>3. CASE Start \/ NewEdition \/ UNCHANGED gateway
  BY <1>1, <1>3 DEF Start, NewEdition, gateway
<1>4. ASSUME NEW c \in Caller, Put(c) \/ Touch(c) PROVE OrderInv' /\ Evicted
  BY <1>4, PutOrder, TouchOrder, HandlesStay DEF Evicted
<1>5. ASSUME NEW c \in Caller, Pop(c) PROVE OrderInv' /\ Evicted
  BY <1>5, PopOrder DEF Evicted
<1>6. ASSUME NEW c \in Caller, Going(c) PROVE OrderInv' /\ Evicted
  BY <1>1, <1>4, <1>5, <1>6 DEF Going, Success, Failure, Transport, Dropped, Answered, Trim
<1>7. ASSUME NEW c \in Caller, NEW r, ResearchCase(c, r) PROVE OrderInv' /\ Evicted
  BY <1>1, <1>7 DEF ResearchCase
<1>8. ASSUME NEW c \in Caller, NEW t, NEW h, NEW r, Read(c, t, h, r) PROVE OrderInv' /\ Evicted
  BY <1>1, <1>8 DEF Read
<1> QED
  BY <1>2, <1>3, <1>6, <1>7, <1>8 DEF GatewayNext

\* However puts and gets interleave, what is evicted is the entry that was stored
\* or read least recently.
THEOREM TheOldestIsEvicted ==
    ASSUME NEW c, NEW s, NEW calls PROVE GatewaySpec(c, s, calls) => OldestIsEvicted
<1>1. GatewayInit(c, s, calls) => GatewayInv
  BY GatewayInvInit
<1>2. GatewayInit(c, s, calls) => OrderInv
  <2> SUFFICES ASSUME GatewayInit(c, s, calls) PROVE OrderInv
    OBVIOUS
  <2>1. restarts = 0 /\ used \in Seq(Held) /\ Len(used) = 0 /\ Len(entries) = 0
    BY DEF GatewayInit
  <2> QED
    BY <2>1 DEF OrderInv
<1>3. GatewayInv /\ [GatewayNext]_gateway => GatewayInv'
  BY GatewayInvNext, GatewayAssumption
<1>4. GatewayInv /\ OrderInv /\ [GatewayNext]_gateway => OrderInv' /\ [Evicted]_gateway
  BY OrderInvNext
<1>5. [Evicted]_gateway =>
          [\A h \in Handles :
              restarts' = restarts /\ h \notin {entries'[i][1] : i \in 1..Len(entries')} =>
                 Later(h) = Handles \ {h}]_gateway
  BY DEF Evicted
<1> QED
  BY <1>1, <1>2, <1>3, <1>4, <1>5, PTL DEF GatewaySpec, OldestIsEvicted
=============================================================================
