------------------------------- MODULE Breaks -------------------------------
(***************************************************************************)
(* What a close of the TDS loop makes of its two files.  load_sources reads *)
(* both (Intake) and gives every record its pairing key; the exact and the  *)
(* tolerant strategy claim groups; and _disposition_pass names what is left *)
(* over: nearmiss says on which part a row failed, diagnose what that       *)
(* means, the two sides of one break become one exception, and fingerprint  *)
(* gives it a name that is to hold from one close to the next.              *)
(*                                                                         *)
(* Between two closes a file may be exported again, in another order or     *)
(* with one more row.                                                       *)
(***************************************************************************)
EXTENDS Intake, SequencesExt

CONSTANTS
    Anchors, Groups,    \* the two sides: "government" and "books"
    ByDifference,       \* ByDifference[p]: the code when p alone differs, or Undeclared
    ByAbsence,          \* ByAbsence[side]: the codes of a row without a counterpart
    Undeclared,
    Unexplained,        \* E14
    Tolerance,          \* the profile's absolute tolerance
    Limit,              \* MAX_CANDIDATES
    Digest(_),          \* the order of the hashes that record ids begin with
    Unfiled,            \* keys.status of a return that is not accepted yet
    Scenes,             \* bound: the specs and files to start from: [specs, files]
    Strangers,          \* bound: rows that a later export may add
    MaxExports          \* bound: exports after the first

Sides == {Anchors, Groups}
Compared == Parts \cup {"amount", "date"}

ASSUME BreaksAssumption ==
    /\ Anchors # Groups
    /\ DOMAIN ByDifference = Compared /\ DOMAIN ByAbsence = Sides
    /\ Tolerance \in Nat /\ Limit \in Nat \ {0} /\ MaxExports \in Nat
    \* A late row is none that a file holds already, and pairs with none of them.
    /\ \A row \in Strangers, scene \in Scenes, side \in Sides :
         \A i \in DOMAIN scene.files[side].rows :
            LET old == scene.files[side].rows[i] IN row # old /\ row.keys # old.keys

\* A profile names its codes (by_difference, by_absence), and E14 is none of them.
ASSUME CodesAreNamed ==
    /\ \A p \in Compared : ByDifference[p] # Unexplained
    /\ \A side \in Sides : IsFiniteSet(ByAbsence[side]) /\ Unexplained \notin ByAbsence[side]

\* What a side's file may ever hold: rows in an order, whose amounts are numbers if they parse.
RowsOf(scene, side) == Range(scene.files[side].rows) \cup Strangers
ASSUME FilesAreRows ==
    /\ IsFiniteSet(Parts)
    /\ \A scene \in Scenes, side \in Sides :
        /\ DOMAIN scene.files = Sides
        /\ {"readable", "rows", "opening", "closing", "total"} \subseteq DOMAIN scene.files[side]
        /\ scene.files[side].rows \in Seq(RowsOf(scene, side))
        /\ scene.specs[side].verb \in {"decimal", "decimal_minor", "sign_from_column"}
        /\ \A row \in RowsOf(scene, side) : row.cell \in Int \cup {Unread}

\* A document is truthful when the figures it states are what its rows moved.
Moved(doc, S) == MapThenSumSet(LAMBDA i : doc.rows[i].worth, S)
Truthful(doc) ==
    /\ \A i, j \in {k \in DOMAIN doc.rows : doc.rows[k].balance # NoFigure} :
        i < j => doc.rows[j].balance = doc.rows[i].balance + Moved(doc, (i + 1)..j)
    /\ NoFigure \notin {doc.opening, doc.closing} => doc.closing = doc.opening + Moved(doc, DOMAIN doc.rows)
    /\ doc.total # NoFigure => doc.total = Moved(doc, DOMAIN doc.rows)
ASSUME FiguresAreTrue ==
    /\ \A row \in Strangers : row.balance = NoFigure
    /\ \A scene \in Scenes, side \in Sides :
        /\ Truthful(scene.files[side])
        /\ {scene.files[side].opening, scene.files[side].closing, scene.files[side].total} \subseteq Int \cup {NoFigure}
        /\ \A row \in RowsOf(scene, side) : row.worth \in Int /\ row.balance \in Int \cup {NoFigure}

\* Hashes are numbers, and those of two natural keys of a file differ.
ASSUME HashesAreNumbers ==
    \A scene \in Scenes, side \in Sides :
        /\ \A i \in 1..(Len(scene.files[side].rows) + MaxExports) : Digest(<<side, i>>) \in Int
        /\ Readable(scene.specs[side]) =>
            \A row \in {x \in RowsOf(scene, side) : Parses(x)} :
                Digest(NaturalKey(scene.specs[side], row)) \in Int
ASSUME HashesDiffer ==
    \A scene \in Scenes, side \in Sides :
        Readable(scene.specs[side]) =>
            LET keys == {NaturalKey(scene.specs[side], row) : row \in {x \in RowsOf(scene, side) : Parses(x)}}
            IN  \A k, l \in keys : Digest(k) = Digest(l) => k = l

VARIABLES
    specs,      \* the adapter spec of each side
    files,      \* the document of each side, as it is on disk
    closed,     \* the files of the last close, and what it raised; before, none
    exports     \* exports so far, against MaxExports

breaksVars == <<specs, files, closed, exports>>
-----------------------------------------------------------------------------
(* load_sources, and what the two strategies claim. *)

Intaken(fs, side) == Ingest(side, specs[side], fs[side])

\* A row of the government's that is not final is out of scope.
InScope(r, fs) == r.side = Groups \/ fs[r.side].rows[r.row].filed # Unfiled
Pairing(r) == <<r.keys, r.date>>

\* The group of the anchor's own key, its total within the budget.
Ties(a, group, budget) ==
    LET total == MapThenSumSet(LAMBDA g : g.amount, group)
    IN  group # {} /\ Magnitude(a.amount - total) <= budget

\* Those whose amount is exact, or else those within tolerance; the first in the file.
Contenders(anchors, group) ==
    LET exact == {a \in anchors : Ties(a, group, 0)}
    IN  IF exact # {} THEN exact ELSE {a \in anchors : Ties(a, group, Tolerance)}
Claims(anchors, group) ==
    {a \in Contenders(anchors, group) : \A b \in Contenders(anchors, group) : a.row <= b.row}

\* What no strategy matched: [anchors, groups], the groups as sets of records.
LeftOver(fs) ==
    LET anchors == {a \in Intaken(fs, Anchors).records : InScope(a, fs)}
        rows == Intaken(fs, Groups).records
        pairings == {Pairing(r) : r \in rows}
        group(p) == {r \in rows : Pairing(r) = p}
        of(p) == {a \in anchors : Pairing(a) = p}
    IN  [anchors |-> {a \in anchors : a \notin Claims(of(Pairing(a)), group(Pairing(a)))},
         groups |-> {group(p) : p \in {q \in pairings : Claims(of(q), group(q)) = {}}}]
-----------------------------------------------------------------------------
(* nearmiss.compare and diagnose.diagnose. *)

\* The amount is compared as it is printed: 100.5 is not 100.50.
Value(r, part) == CASE part = "amount" -> <<r.amount, r.places>> [] part = "date" -> r.date [] OTHER -> r.keys[part]
Differs(r, c) == {p \in Compared : Value(r, p) # Value(c, p)}
Agreement(r, c) == Cardinality(Compared \ Differs(r, c))
Candidates(r, others) == {c \in others : Differs(r, c) # {} /\ Differs(r, c) # Compared}

\* By record id: the hash of source and natural key, then the occurrence.
IdBefore(c, d) ==
    \/ Digest(c.id.key) < Digest(d.id.key)
    \/ c.id.key = d.id.key /\ c.id.occurrence < d.id.occurrence

\* Closest first, then the smaller difference of amounts, then the id.
Closer(r, c, d) ==
    LET delta(x) == Magnitude(r.amount - x.amount) IN
    \/ Agreement(r, c) > Agreement(r, d)
    \/ /\ Agreement(r, c) = Agreement(r, d)
       /\ delta(c) < delta(d) \/ (delta(c) = delta(d) /\ IdBefore(c, d))

Shown(r, others) ==
    LET all == Candidates(r, others)
    IN  {c \in all : Cardinality({d \in all : Closer(r, d, c)}) < Limit}
Closest(r, others) == CHOOSE c \in Shown(r, others) : \A d \in Shown(r, others) : ~Closer(r, d, c)

\* The code of a candidate when it is one part away.
Reads(r, c) == ByDifference[CHOOSE p \in Differs(r, c) : TRUE]
OnePartAway(r, c) == Cardinality(Differs(r, c)) = 1

\* Mutant: the closest row decides, whatever else is as close.
DiagnosisOfClosest(r, others) ==
    LET closest == Closest(r, others)
    IN  IF Candidates(r, others) = {} \/ ~OnePartAway(r, closest) THEN ByAbsence[r.side]
        ELSE IF Reads(r, closest) = Undeclared THEN {} ELSE {Reads(r, closest)}

\* The codes that the evidence supports: none, one, or more than one.
Diagnosis(r, others) ==
    LET closest == Closest(r, others)
        rivals == {c \in Shown(r, others) : OnePartAway(r, c) /\ Reads(r, c) # Undeclared}
    IN  IF Candidates(r, others) = {} \/ ~OnePartAway(r, closest) THEN ByAbsence[r.side]
        ELSE IF Reads(r, closest) = Undeclared THEN {}
        ELSE {Reads(r, c) : c \in rivals}

\* `read`: with nothing on the other side to compare with, nothing is diagnosed.
Reading(r, others) ==
    LET codes == IF others = {} THEN {} ELSE Diagnosis(r, others)
        decided == Cardinality(codes) = 1
    IN  [code |-> IF decided THEN CHOOSE c \in codes : TRUE ELSE Unexplained,
         derived |-> decided,
         ambiguous |-> IF decided THEN {} ELSE codes]
-----------------------------------------------------------------------------
(* _disposition_pass. *)

Others(r, left) == IF r.side = Anchors THEN UNION left.groups ELSE left.anchors
Singles(left) == left.anchors \cup UNION {g \in left.groups : Cardinality(g) = 1}
Counterpart(r, left) ==
    LET others == Others(r, left) IN
    IF Candidates(r, others) # {} /\ OnePartAway(r, Closest(r, others)) THEN {Closest(r, others)} ELSE {}

\* Mutant: closest from one side is enough.
OneBreakOneSided(r, s, left) ==
    /\ s \in Counterpart(r, left)
    /\ Reading(r, Others(r, left)).code = Reading(s, Others(s, left)).code

\* Two rows are the sides of one break: mutually closest, and read alike.
OneBreak(r, s, left) ==
    /\ s \in Counterpart(r, left) /\ r \in Counterpart(s, left)
    /\ Reading(r, Others(r, left)).code = Reading(s, Others(s, left)).code

Exception(members, reading) ==
    [members |-> members, code |-> reading.code, derived |-> reading.derived,
     ambiguous |-> reading.ambiguous]

\* The row at the other end of r's break, if there is one; the anchor's end comes first.
Partner(r, left) == {s \in Singles(left) : OneBreak(r, s, left)}
First(r, left) == r.side = Anchors \/ Partner(r, left) = {}

\* A single row or a pair, with the reading of the row that comes first; and what is
\* left of a group of several rows, which cannot be paired.
Raised(fs) ==
    LET left == LeftOver(fs)
    IN  {Exception({r} \cup Partner(r, left), Reading(r, Others(r, left))) :
            r \in {s \in Singles(left) : First(s, left)}}
        \cup {Exception(g, [code |-> Unexplained, derived |-> FALSE, ambiguous |-> {}]) :
                g \in {h \in left.groups : Cardinality(h) > 1}}

\* Mutant: named after the records' ids.
FingerprintOfIds(e) == [code |-> e.code, keys |-> [m \in {r.id : r \in e.members} |-> 1]]

\* fingerprint.of: the code and the natural keys, without side, occurrence or amount
\* (other than an amount that the natural key names).
Fingerprint(e) ==
    [code |-> e.code,
     keys |-> [k \in {r.id.key : r \in e.members} |-> Cardinality({r \in e.members : r.id.key = k})]]
-----------------------------------------------------------------------------
None == [files |-> <<>>, raised |-> {}]

BreaksInit ==
    \E scene \in Scenes :
        /\ specs = scene.specs /\ files = scene.files
        /\ closed = None /\ exports = 0

Close ==
    /\ closed' = [files |-> files, raised |-> Raised(files)]
    /\ UNCHANGED <<specs, files, exports>>

\* A statement that states its balances row by row keeps its order.
Reorder(side, p) ==
    /\ exports < MaxExports
    /\ \A i \in DOMAIN files[side].rows : files[side].rows[i].balance = NoFigure
    /\ files' = [files EXCEPT ![side].rows = [i \in DOMAIN @ |-> @[p[i]]]]
    /\ exports' = exports + 1
    /\ UNCHANGED <<specs, closed>>

\* A late row, at the end of a file that states no figures of its own.
StatesNothing(doc) == doc.opening = NoFigure /\ doc.closing = NoFigure /\ doc.total = NoFigure
Extend(side, row) ==
    /\ exports < MaxExports /\ StatesNothing(files[side])
    /\ files' = [files EXCEPT ![side].rows = Append(@, row)]
    /\ exports' = exports + 1
    /\ UNCHANGED <<specs, closed>>

BreaksNext ==
    \/ Close
    \/ \E side \in Sides :
         \/ \E p \in Bijection(DOMAIN files[side].rows, DOMAIN files[side].rows) : Reorder(side, p)
         \/ \E row \in Strangers : Extend(side, row)

BreaksSpec == BreaksInit /\ [][BreaksNext]_breaksVars
-----------------------------------------------------------------------------
\* Every record that no strategy matched is raised, in one exception and no other, and
\* nothing matched is (_disposition_pass: pairing merges two rows of one break only).
LeftoversRaisedOnce ==
    closed # None =>
        LET left == LeftOver(closed.files) IN
        /\ UNION {e.members : e \in closed.raised} = left.anchors \cup UNION left.groups
        /\ \A e, f \in closed.raised : e # f => e.members \cap f.members = {}

\* A derived code is what every counterpart says that is as close as the closest one
\* and that the loop has declared, as long as the list of candidates was not cut.
VerdictIsDecisive ==
    closed # None =>
        LET left == LeftOver(closed.files) IN
        \A e \in closed.raised : \A r \in e.members :
            LET near == {c \in Others(r, left) : OnePartAway(r, c)} IN
            (e.derived /\ Cardinality(Candidates(r, Others(r, left))) <= Limit) =>
                IF near = {} THEN ByAbsence[r.side] = {e.code}
                ELSE \A c \in near : Reads(r, c) \in {e.code, Undeclared}

\* The breaks of a close under their names, and how many have each.
Names(raised) ==
    LET name(e) == [print |-> Fingerprint(e), derived |-> e.derived] IN
    [n \in {name(e) : e \in raised} |-> Cardinality({e \in raised : name(e) = n})]

\* A close of the same rows, in whatever order, of sources that have natural keys.
SameRows(d, e) == \E p \in Bijection(DOMAIN d.rows, DOMAIN d.rows) : e.rows = [i \in DOMAIN d.rows |-> d.rows[p[i]]]
Reexported ==
    /\ closed # None /\ closed' # closed
    /\ \A s \in Sides : specs[s].natural # <<>> /\ SameRows(closed.files[s], closed'.files[s])

\* Rows of one key are alike, and no two others contend for one group: of two contenders
\* the first in the file is matched, so that its order says which one is left over.
AlikeByKey(fs) ==
    \A side \in Sides : \A r, s \in Intaken(fs, side).records :
        r.id.key = s.id.key => Pairing(r) = Pairing(s) /\ r.amount = s.amount /\ r.places = s.places
Uncontested(fs) ==
    LET anchors == {a \in Intaken(fs, Anchors).records : InScope(a, fs)}
        with(records, p) == {r \in records : Pairing(r) = p}
    IN  \A a, b \in anchors :
          LET p == Pairing(a) IN
          {a, b} \subseteq Contenders(with(anchors, p), with(Intaken(fs, Groups).records, p)) => a.id.key = b.id.key

\* Late rows that agree with nothing, on a side that had a leftover before.
Stranger(r, records) == \A c \in records : Differs(r, c) = Compared
LateStranger(side) ==
    LET before == Intaken(closed.files, side).records
        late == Intaken(closed'.files, side).records \ before
        other == CHOOSE s \in Sides : s # side
    IN  /\ closed.files[other] = closed'.files[other]
        /\ before \subseteq Intaken(closed'.files, side).records
        /\ \A r \in before : InScope(r, closed.files) = InScope(r, closed'.files)
        /\ late # {} /\ \A r \in late : Stranger(r, before \cup Intaken(closed.files, other).records)
        /\ \E e \in closed.raised : \E r \in e.members : r.side = side

\* The same rows in another order are the same breaks under the same names, where the
\* order of a file says nothing; and a row that agrees with nothing renames no break
\* (_assign_identity, nearmiss, fingerprint.of).
BreaksKeepTheirNames ==
    [][ /\ Reexported /\ AlikeByKey(closed.files) /\ Uncontested(closed.files)
               => Names(closed.raised) = Names(closed'.raised)
        /\ closed # None /\ closed' # closed /\ (\E s \in Sides : LateStranger(s))
               => closed.raised \subseteq closed'.raised ]_breaksVars

\* A source that is `verified` accounts for all the money of its file, except where a
\* running balance cannot see: outside the first and the last balance read, and from one
\* balance to the next where the row of the next did not parse, or a row between them did
\* that has no balance (prove, _roll_forward).
Unseen(doc) ==
    LET next(i) == {j \in Balances(doc) : i <= j}
        before(i) == {j \in Balances(doc) : j < i}
    IN  IF ~Chained(doc) THEN {}
        ELSE {i \in DOMAIN doc.rows :
                \/ next(i) = {} \/ before(i) = {} \/ Min(next(i)) \in Lost(doc)
                \/ \E k \in Kept(doc) \ Balances(doc) : before(k) = before(i)}
VerifiedMissesNothing ==
    \A side \in Sides :
        LET doc == files[side]
            read == MapThenSumSet(LAMBDA i : Amount(specs[side], doc, i), Kept(doc) \ Unseen(doc))
        IN  Intaken(files, side).strength = "verified" => read = Moved(doc, DOMAIN doc.rows \ Unseen(doc))
=============================================================================
