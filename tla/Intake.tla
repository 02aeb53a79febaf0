------------------------------- MODULE Intake -------------------------------
(***************************************************************************)
(* Reading one source: `ingest` interprets the rows of a document by an     *)
(* adapter spec, gives every record its identity and proves what it can     *)
(* about the result.  Everything here is a function of a spec and a         *)
(* document; the loops (Breaks) say when it is evaluated.                   *)
(*                                                                         *)
(* A document is [readable, rows, opening, closing, total] and a row is     *)
(* [blank, keys, ref, date, cell, places, debit, balance, worth]: what its  *)
(* cells say, Unread where they do not parse, with the decimal places of the *)
(* amount as it is printed; and `worth`, what the row really moved, which no *)
(* code sees.  Amounts are paise; in a file of minor units `cell` is a       *)
(* hundred times the worth, as DECIMAL reads it.                            *)
(* A spec is [verb, natural, unmappable].                                   *)
(***************************************************************************)
EXTENDS Integers, Sequences, FiniteSets, FiniteSetsExt

CONSTANTS
    Parts,      \* the names of the match keys that a row carries
    Unread,     \* a cell that is empty or does not parse
    NoFigure,   \* a balance or a total that the document does not state
    Window,     \* the dates of the loop's period
    Budget      \* <<n, d>>: at most n rows of d may be rejected (rejection_budget_pct)

ASSUME IntakeAssumption ==
    /\ Unread \notin Window /\ NoFigure \notin Int
    /\ Budget[1] \in Nat /\ Budget[2] \in Nat \ {0}
-----------------------------------------------------------------------------
(* interpret *)

Magnitude(n) == IF n < 0 THEN -n ELSE n

\* The verbs that may feed AMOUNT.  A wrong one does not fail, it reads another number.
Parsed(spec, row) ==
    CASE spec.verb = "decimal" -> row.cell
      [] spec.verb = "decimal_minor" -> row.cell \div 100
      [] spec.verb = "sign_from_column" -> IF row.debit THEN -Magnitude(row.cell) ELSE Magnitude(row.cell)

\* A row is rejected by rule, or because its date or its amount does not parse.
Parses(row) == ~row.blank /\ row.date # Unread /\ row.cell # Unread
Kept(doc) == {i \in DOMAIN doc.rows : Parses(doc.rows[i])}
Lost(doc) == DOMAIN doc.rows \ Kept(doc)

\* The fields are read in order, DATE first: a balance is read also where the amount fails.
Balances(doc) ==
    {i \in DOMAIN doc.rows :
        /\ ~doc.rows[i].blank
        /\ doc.rows[i].date # Unread /\ doc.rows[i].balance # NoFigure}

\* The closed list of what a natural key may name.
Field(spec, row, name) ==
    CASE name = "amount" -> Parsed(spec, row)
      [] name = "ref" -> row.ref
      [] name = "date" -> row.date
      [] OTHER -> row.keys[name]
Readable(spec) == \A n \in DOMAIN spec.natural : spec.natural[n] \in Parts \cup {"amount", "ref", "date"}
NaturalKey(spec, row) == [n \in DOMAIN spec.natural |-> Field(spec, row, spec.natural[n])]

\* Stable where the source has a natural key, positional where it has none.
Identity(side, spec, doc, i) ==
    LET key(j) == NaturalKey(spec, doc.rows[j]) IN
    IF spec.natural = <<>> THEN [key |-> <<side, i>>, occurrence |-> 0]
    ELSE [key |-> key(i), occurrence |-> Cardinality({j \in Kept(doc) : j < i /\ key(j) = key(i)})]

RecordOf(side, spec, doc, i) ==
    [side |-> side, id |-> Identity(side, spec, doc, i), row |-> i,
     keys |-> doc.rows[i].keys, date |-> doc.rows[i].date, amount |-> Parsed(spec, doc.rows[i]),
     places |-> doc.rows[i].places]
-----------------------------------------------------------------------------
(* prove *)

Amount(spec, doc, i) == Parsed(spec, doc.rows[i])
SumOfKept(spec, doc) == MapThenSumSet(LAMBDA i : Amount(spec, doc, i), Kept(doc))

\* That something came out.  Every row is a record or a rejection by how interpret goes.
Conserved(doc) == Kept(doc) # {}
WithinRejectionBudget(doc) == Cardinality(Lost(doc)) * Budget[2] <= Budget[1] * Len(doc.rows)

\* A check is skipped where the source does not state what it needs.
Outcome(stated, holds) == IF ~stated THEN "skip" ELSE IF holds THEN "pass" ELSE "fail"
ControlTotal(spec, doc) == Outcome(doc.total # NoFigure, doc.total = SumOfKept(spec, doc))

\* Row by row where two balances were read, else from the opening to the closing one.
Chained(doc) == Cardinality(Balances(doc)) > 1
ChainHolds(spec, doc) ==
    \A i, j \in Balances(doc) :
        (i < j /\ j \in Kept(doc) /\ \A k \in Balances(doc) : ~(i < k /\ k < j))
            => doc.rows[j].balance = doc.rows[i].balance + Amount(spec, doc, j)

\* Mutant: whatever a reject rule drops is taken to have moved the balance.
RollForwardForgiving(spec, doc) ==
    IF Chained(doc) THEN Outcome(TRUE, ChainHolds(spec, doc))
    ELSE Outcome(doc.opening # NoFigure /\ doc.closing # NoFigure,
                 Lost(doc) # {} \/ doc.closing = doc.opening + SumOfKept(spec, doc))

RollForward(spec, doc) ==
    IF Chained(doc) THEN Outcome(TRUE, ChainHolds(spec, doc))
    ELSE Outcome(doc.opening # NoFigure /\ doc.closing # NoFigure,
                 doc.closing = doc.opening + SumOfKept(spec, doc))

InWindow(doc) == \A i \in Kept(doc) : doc.rows[i].date \in Window

Strength(spec, doc) ==
    LET substantive == {ControlTotal(spec, doc), RollForward(spec, doc)}
        failed == "fail" \in substantive \/ ~Conserved(doc) \/ ~WithinRejectionBudget(doc) \/ ~InWindow(doc)
    IN  IF failed THEN "failed" ELSE IF "pass" \in substantive THEN "verified" ELSE "declared"
-----------------------------------------------------------------------------
\* ingest: a spec that cannot express a column, a file that does not open and a key
\* that names no field each give a failed source without a record, never an error.
Usable(spec, doc) == ~spec.unmappable /\ doc.readable /\ Readable(spec)
Ingest(side, spec, doc) ==
    IF Usable(spec, doc)
    THEN [records |-> {RecordOf(side, spec, doc, i) : i \in Kept(doc)}, strength |-> Strength(spec, doc)]
    ELSE [records |-> {}, strength |-> "failed"]
=============================================================================
