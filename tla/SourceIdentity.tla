---------------------------- MODULE SourceIdentity ----------------------------
(***************************************************************************)
(* How a page of the normograma is given a canonical identity              *)
(* (tools/source_identity.py, tools/document_family_identity.py).  An act  *)
(* stands for a type, a number and a year; a signal is an act and the      *)
(* authority that issued it, as read from the URL or from a heading.       *)
(***************************************************************************)
EXTENDS Integers, FiniteSets

CONSTANTS
    Issuer,         \* normalized issuer keys
    NoIssuer,       \* a legacy key, or wording that names no issuer
    Act,            \* type, number and year of a document
    NoAct,          \* no heading of the expected shape
    Scoped          \* acts of a type that several authorities number alike

(* CO:issuer:type:number:year, or without the issuer                      *)
Key == [issuer : Issuer \cup {NoIssuer}, act : Act]

KeyOf(issuer, act) == [issuer |-> issuer, act |-> act]

Signal(act, issuer) == [act |-> act, issuer |-> issuer]

CanonicalKey(signal) ==
    KeyOf(IF signal.act \in Scoped THEN signal.issuer ELSE NoIssuer, signal.act)

(* The canonical key and, for an issuer-qualified one, the older form      *)
CanonicalKeys(signal) == {CanonicalKey(signal), KeyOf(NoIssuer, signal.act)}

(* A signal whose key can be formed                                        *)
Complete(signal) ==
    signal.act # NoAct /\ (signal.act \in Scoped => signal.issuer # NoIssuer)

Accepted(signal) == [accepted |-> TRUE, signal |-> signal, reason |-> "none"]
Unresolved(signal, reason) == [accepted |-> FALSE, signal |-> signal, reason |-> reason]

(* URL and first heading of an ordinary act must name the same act; the    *)
(* issuer is the URL's.                                                     *)
AssessGeneric(page) ==
    LET source == Signal(page.act, page.issuer) IN
    IF page.family # "normative"
    THEN Unresolved(source, IF page.family # "unknown" /\ page.heading # NoAct
                            THEN "SOURCE_IDENTITY_CONFLICT"
                            ELSE "SOURCE_IDENTITY_UNRESOLVED")
    ELSE IF page.heading = NoAct
    THEN Unresolved(source, "SOURCE_IDENTITY_UNRESOLVED")
    ELSE IF page.heading # page.act
    THEN Unresolved(source, "SOURCE_IDENTITY_CONFLICT")
    ELSE IF ~Complete(source)
    THEN Unresolved(source, "ISSUER_IDENTITY_UNRESOLVED")
    ELSE Accepted(source)

(* A title conflicts with the URL unless it names an act the URL admits (an *)
(* oficio may call itself a concepto; a URL without a year admits several) *)
Contradicts(title, page) ==
    \/ title.act \notin page.names
    \/ page.issuer # NoIssuer /\ title.issuer # page.issuer

(* The families with a parser of their own: titles of the family's shape   *)
(* confirm the URL, and a complete URL stands without one.                 *)
AssessFamily(page) ==
    LET source == Signal(page.act, page.issuer)
        agreeing == {t \in page.titles : ~Contradicts(t, page)}
    IN IF Cardinality(agreeing) > 1
       THEN Unresolved(source, "FAMILY_IDENTITY_AMBIGUOUS")
       ELSE IF agreeing # {}
       THEN LET title == CHOOSE t \in agreeing : TRUE
            IN IF Complete(title) THEN Accepted(title)
                                  ELSE Unresolved(source, "SOURCE_IDENTITY_UNRESOLVED")
       ELSE IF page.titles # {}
       THEN Unresolved(source, "SOURCE_IDENTITY_CONFLICT")
       ELSE IF ~Complete(source)
       THEN Unresolved(source, "SOURCE_IDENTITY_UNRESOLVED")
       ELSE Accepted(source)

IsFamily(page) == page.family = "family"

Assess(page) == IF IsFamily(page) THEN AssessFamily(page) ELSE AssessGeneric(page)

(* An identifier row: the key, the issuer stored beside it, and whether it *)
(* is primary.  Writing a signal's keys replaces rows with the same key.   *)
Identifier == [key : Key, issuer : Issuer \cup {NoIssuer}, primary : BOOLEAN]

Upsert(rows, signal) ==
    {r \in rows : r.key \notin CanonicalKeys(signal)}
      \cup {[key |-> k, issuer |-> signal.issuer,
             primary |-> k = CanonicalKey(signal)] : k \in CanonicalKeys(signal)}

(* A faulty form: any document of the same authority will do               *)
EquivalentIssuer(rows, signal, unqualified) ==
    \E r \in rows : NoIssuer \in {r.issuer, signal.issuer} \/ r.issuer = signal.issuer

(* A document registered under another id is the same act when one of its  *)
(* keys says so; a key without issuer speaks for a scoped act only in the  *)
(* families.                                                                *)
Equivalent(rows, signal, unqualified) ==
    \E r \in rows :
       /\ r.key.act = signal.act
       /\ IF r.key.issuer # NoIssuer
          THEN signal.act \in Scoped /\ r.key.issuer = signal.issuer
          ELSE /\ signal.act \notin Scoped \/ unqualified
               /\ NoIssuer \in {r.issuer, signal.issuer} \/ r.issuer = signal.issuer

(* The key a document is known by: a primary one when there is one.  Rows  *)
(* alike are ordered by a digest, so any of them may come first.           *)
MainKeys(rows) ==
    LET primary == {r \in rows : r.primary}
    IN {r.key : r \in IF primary # {} THEN primary ELSE rows}
===============================================================================
