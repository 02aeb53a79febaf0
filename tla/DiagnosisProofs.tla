---------------------------- MODULE DiagnosisProofs ----------------------------
(***************************************************************************)
(* What a close says of its leftovers, and what is made of it afterwards.  *)
(*                                                                         *)
(* For any files: every leftover is in one exception, because a row has    *)
(* one counterpart at most and pairing is mutual; and a derived code is    *)
(* what every near row says, because `Closer` is an order, so that the     *)
(* closest candidate exists and none that was shown is nearer.             *)
(*                                                                         *)
(* For any documents that state true figures: what was read of the rows    *)
(* that a chain of balances sees adds up gap by gap, each gap being seen   *)
(* as a whole or not at all.                                               *)
(*                                                                         *)
(* For any two orders of the same rows: the n-th row of a key goes to the  *)
(* n-th row of that key, which says the same.  Under this correspondence   *)
(* the totals of groups, the claims on them, the leftovers, their          *)
(* candidates in their order, the closest one, the readings and the pairs  *)
(* are images of each other, and so are the exceptions; their names count  *)
(* keys, which it keeps.  Late rows that agree with nothing are the same   *)
(* argument with the identity for the correspondence.                      *)
(*                                                                         *)
(* For any exceptions, replies, drafts and lists: a label that the engine  *)
(* derived stands and is never sent out, no code moves unattested, and     *)
(* every answer is asked for once and recorded as what it was.  What the   *)
(* properties say of the results and the journal holds of them because it  *)
(* holds of every prefix that a running call has put down: an accepted     *)
(* answer is about an exception that may be reclassified, since no request *)
(* is sent for another one, and the request in hand is the only one on the *)
(* list that was sent and not answered.                                    *)
(***************************************************************************)
EXTENDS Breaks, Triage, Sums

(* The files that a close may read. *)

Fields == {"readable", "opening", "closing", "total"}

\* A file holds rows of the scene it came from, or late ones: one more for each export.
FromScene(fs, scene, n) ==
    /\ DOMAIN fs = Sides
    /\ \A side \in Sides :
        /\ Fields \cup {"rows"} \subseteq DOMAIN fs[side]
        /\ \A f \in Fields : fs[side][f] = scene.files[side][f]
        /\ fs[side].rows \in Seq(RowsOf(scene, side))
        /\ Len(fs[side].rows) <= Len(scene.files[side].rows) + n

BreaksInv ==
    /\ exports \in 0..MaxExports
    /\ \E scene \in Scenes :
        /\ specs = scene.specs /\ FromScene(files, scene, exports)
        /\ closed # None => FromScene(closed.files, scene, MaxExports)
    /\ closed # None => closed.raised = Raised(closed.files)

LEMMA OneMore ==
    ASSUME NEW a \in Nat, NEW b \in Nat, NEW n \in Nat, a <= b + n
    PROVE  a <= b + (n + 1) /\ a + 1 <= b + (n + 1)
OBVIOUS

LEMMA MoreExports ==
    ASSUME NEW fs, NEW scene \in Scenes, NEW m \in Nat, NEW n \in Nat, m <= n, FromScene(fs, scene, m)
    PROVE  FromScene(fs, scene, n)
<1>1. ASSUME NEW side \in Sides
      PROVE  Len(fs[side].rows) <= Len(scene.files[side].rows) + n
  <2>1. fs[side].rows \in Seq(RowsOf(scene, side)) /\ scene.files[side].rows \in Seq(RowsOf(scene, side))
      BY FilesAreRows DEF FromScene
  <2>2. Len(fs[side].rows) \in Nat /\ Len(scene.files[side].rows) \in Nat
      BY <2>1
  <2>3. Len(fs[side].rows) <= Len(scene.files[side].rows) + m
      BY DEF FromScene
  <2> QED BY <2>2, <2>3
<1> QED BY <1>1 DEF FromScene

LEMMA BreaksBegin == BreaksInit => BreaksInv
<1> SUFFICES ASSUME BreaksInit PROVE BreaksInv
    OBVIOUS
<1>1. PICK scene \in Scenes : specs = scene.specs /\ files = scene.files
    BY DEF BreaksInit
<1>2. exports = 0 /\ closed = None
    BY DEF BreaksInit
<1>3. ASSUME NEW side \in Sides
      PROVE  /\ Fields \cup {"rows"} \subseteq DOMAIN files[side]
             /\ files[side].rows \in Seq(RowsOf(scene, side))
             /\ Len(files[side].rows) <= Len(scene.files[side].rows) + 0
  <2>1. /\ Fields \cup {"rows"} \subseteq DOMAIN scene.files[side]
        /\ scene.files[side].rows \in Seq(RowsOf(scene, side))
      BY FilesAreRows DEF Fields
  <2>2. Len(scene.files[side].rows) \in Nat
      BY <2>1
  <2> QED BY <1>1, <2>1, <2>2
<1>4. DOMAIN files = Sides
    BY <1>1, FilesAreRows DEF Sides
<1>5. FromScene(files, scene, 0)
    BY <1>1, <1>3, <1>4 DEF FromScene
<1> QED BY <1>1, <1>2, <1>5, BreaksAssumption DEF BreaksInv

\* An export puts other rows in the place of one file's.
LEMMA Exported ==
    ASSUME NEW side \in Sides, NEW scene \in Scenes, NEW fs, NEW n \in Nat, FromScene(fs, scene, n),
           NEW rows \in Seq(RowsOf(scene, side)), Len(rows) <= Len(fs[side].rows) + 1
    PROVE  FromScene([fs EXCEPT ![side].rows = rows], scene, n + 1)
<1> DEFINE gs == [fs EXCEPT ![side].rows = rows]
<1>1. DOMAIN gs = Sides
    BY DEF FromScene
<1>2. ASSUME NEW s \in Sides
      PROVE  /\ Fields \cup {"rows"} \subseteq DOMAIN gs[s] /\ gs[s].rows \in Seq(RowsOf(scene, s))
             /\ \A f \in Fields : gs[s][f] = scene.files[s][f]
             /\ Len(gs[s].rows) <= Len(scene.files[s].rows) + (n + 1)
  <2>1. /\ Fields \cup {"rows"} \subseteq DOMAIN fs[s]
        /\ fs[s].rows \in Seq(RowsOf(scene, s)) /\ DOMAIN fs = Sides
        /\ \A f \in Fields : fs[s][f] = scene.files[s][f]
        /\ Len(fs[s].rows) <= Len(scene.files[s].rows) + n
      BY DEF FromScene
  <2>2. scene.files[s].rows \in Seq(RowsOf(scene, s))
      BY FilesAreRows
  <2>3. Len(fs[s].rows) \in Nat /\ Len(scene.files[s].rows) \in Nat
      BY <2>1, <2>2
  <2> DEFINE old == Len(fs[s].rows)
             first == Len(scene.files[s].rows)
  <2>4. old <= first + (n + 1) /\ old + 1 <= first + (n + 1)
      BY <2>1, <2>3, OneMore
  <2>5. CASE s = side
    <3>1. gs[s] = [fs[s] EXCEPT !.rows = rows]
        BY <2>1, <2>5
    <3>2. /\ DOMAIN gs[s] = DOMAIN fs[s] /\ gs[s].rows = rows
          /\ \A f \in Fields : gs[s][f] = fs[s][f]
        BY <2>1, <3>1 DEF Fields
    <3>3. Len(rows) \in Nat
        OBVIOUS
    <3>4. Len(rows) <= old + 1
        BY <2>5
    <3>5. Len(rows) <= first + (n + 1)
      <4>1. old \in Nat /\ first \in Nat
          BY <2>3
      <4> HIDE DEF old, first
      <4> QED BY <2>4, <3>3, <3>4, <4>1
    <3> HIDE DEF gs
    <3> QED BY <2>1, <2>5, <3>2, <3>5
  <2>6. CASE s # side
    <3>1. gs[s] = fs[s]
        BY <2>1, <2>6
    <3> HIDE DEF gs
    <3> QED BY <2>1, <2>4, <3>1
  <2> QED BY <2>5, <2>6
<1> HIDE DEF gs
<1>3. FromScene(gs, scene, n + 1)
    BY <1>1, <1>2 DEF FromScene
<1> QED BY <1>3 DEF gs

\* What a close raised stands as long as the specs do.
LEMMA SpecsDecide ==
    ASSUME specs' = specs, closed' = closed
    PROVE  Raised(closed.files)' = Raised(closed.files)
BY DEF Raised, LeftOver, Intaken

LEMMA BreaksSteps == BreaksInv /\ [BreaksNext]_breaksVars => BreaksInv'
<1> SUFFICES ASSUME BreaksInv, [BreaksNext]_breaksVars PROVE BreaksInv'
    OBVIOUS
<1>1. PICK scene \in Scenes :
        /\ specs = scene.specs /\ FromScene(files, scene, exports)
        /\ closed # None => FromScene(closed.files, scene, MaxExports)
    BY DEF BreaksInv
<1>2. /\ exports \in 0..MaxExports /\ MaxExports \in Nat
      /\ closed # None => closed.raised = Raised(closed.files)
    BY BreaksAssumption DEF BreaksInv
<1>3. CASE UNCHANGED breaksVars
  <2>1. specs' = specs /\ files' = files /\ closed' = closed /\ exports' = exports
      BY <1>3 DEF breaksVars
  <2>2. FromScene(files, scene, exports)' /\ (closed # None => FromScene(closed.files, scene, MaxExports)')
      BY <1>1, <2>1 DEF FromScene
  <2>3. closed # None => closed'.raised = Raised(closed.files)'
      BY <1>2, <2>1, SpecsDecide
  <2> QED BY <1>1, <1>2, <2>1, <2>2, <2>3 DEF BreaksInv, None
<1>4. CASE Close
  <2>1. closed'.files = files /\ closed'.raised = Raised(files) /\ specs' = specs /\ files' = files
        /\ exports' = exports
      BY <1>4 DEF Close
  <2>2. FromScene(files, scene, MaxExports)
      BY <1>1, <1>2, MoreExports
  <2>3. closed'.raised = Raised(closed.files)'
      BY <2>1 DEF Raised, LeftOver, Intaken
  <2>4. FromScene(files, scene, exports)' /\ FromScene(closed.files, scene, MaxExports)'
      BY <1>1, <2>1, <2>2 DEF FromScene
  <2> QED BY <1>1, <1>2, <2>1, <2>3, <2>4 DEF BreaksInv
<1>5. ASSUME NEW side \in Sides, NEW rows \in Seq(RowsOf(scene, side)),
             Len(rows) <= Len(files[side].rows) + 1, exports < MaxExports,
             files' = [files EXCEPT ![side].rows = rows], exports' = exports + 1,
             UNCHANGED <<specs, closed>>
      PROVE  BreaksInv'
  <2>1. exports \in Nat /\ exports' \in 0..MaxExports
      BY <1>2, <1>5
  <2>2. FromScene([files EXCEPT ![side].rows = rows], scene, exports + 1)
      BY <1>1, <1>5, <2>1, Exported
  <2>3. FromScene(files', scene, exports + 1)
      BY <2>2, <1>5
  <2>4. FromScene(files, scene, exports)'
      BY <2>3, <1>5 DEF FromScene
  <2>5. closed # None => FromScene(closed.files, scene, MaxExports)'
      BY <1>1, <1>5 DEF FromScene
  <2>6. closed # None => closed'.raised = Raised(closed.files)'
      BY <1>2, <1>5, SpecsDecide
  <2> QED BY <1>1, <1>5, <2>1, <2>4, <2>5, <2>6 DEF BreaksInv, None
<1>6. ASSUME NEW side \in Sides, NEW p \in Bijection(DOMAIN files[side].rows, DOMAIN files[side].rows),
             Reorder(side, p)
      PROVE  BreaksInv'
  <2> DEFINE old == files[side].rows
             rows == [i \in DOMAIN old |-> old[p[i]]]
             S == RowsOf(scene, side)
  <2>1. old \in Seq(S)
      BY <1>1 DEF FromScene
  <2>2. p \in [DOMAIN old -> DOMAIN old]
      BY DEF Bijection, Injection
  <2>3. files' = [files EXCEPT ![side].rows = rows] /\ exports < MaxExports /\ exports' = exports + 1
        /\ UNCHANGED <<specs, closed>>
      BY <1>6 DEF Reorder
  <2> HIDE DEF old, S
  <2>4. rows \in Seq(S) /\ Len(rows) = Len(old) /\ Len(old) \in Nat
    <3>1. Len(old) \in Nat /\ DOMAIN old = 1..Len(old) /\ \A i \in DOMAIN old : old[i] \in S
        BY <2>1
    <3>2. rows \in [1..Len(old) -> S]
        BY <2>2, <3>1
    <3> QED BY <3>1, <3>2
  <2> HIDE DEF rows
  <2>5. Len(rows) <= Len(old) + 1
      BY <2>4
  <2> QED BY <1>5, <2>3, <2>4, <2>5 DEF old, S
<1>7. ASSUME NEW side \in Sides, NEW row \in Strangers, Extend(side, row)
      PROVE  BreaksInv'
  <2> DEFINE old == files[side].rows
             rows == Append(old, row)
             S == RowsOf(scene, side)
  <2>1. old \in Seq(S)
      BY <1>1 DEF FromScene
  <2>2. files' = [files EXCEPT ![side].rows = rows] /\ exports < MaxExports /\ exports' = exports + 1
        /\ UNCHANGED <<specs, closed>>
      BY <1>7 DEF Extend
  <2>3. row \in S
      BY DEF RowsOf
  <2> HIDE DEF old, S
  <2>4. rows \in Seq(S) /\ Len(rows) = Len(old) + 1 /\ Len(old) \in Nat
      BY <2>1, <2>3
  <2> HIDE DEF rows
  <2>5. Len(rows) <= Len(old) + 1
      BY <2>4
  <2> QED BY <1>5, <2>2, <2>4, <2>5 DEF old, S
<1> QED BY <1>3, <1>4, <1>6, <1>7 DEF BreaksNext
-----------------------------------------------------------------------------
(* What a close reads and what is left of it. *)

IsRecord(r, side) ==
    r.side = side /\ r.amount \in Int /\ Digest(r.id.key) \in Int /\ r.id.occurrence \in Nat

LEMMA RecordsAreTyped ==
    ASSUME NEW scene \in Scenes, specs = scene.specs, NEW fs, FromScene(fs, scene, MaxExports),
           NEW side \in Sides
    PROVE  /\ IsFiniteSet(Intaken(fs, side).records)
           /\ \A r \in Intaken(fs, side).records : IsRecord(r, side)
<1> DEFINE doc == fs[side]
           spec == specs[side]
           kept == Kept(doc)
           all == RowsOf(scene, side)
           records == {RecordOf(side, spec, doc, i) : i \in kept}
<1>1. doc.rows \in Seq(all) /\ scene.files[side].rows \in Seq(all)
      /\ Len(doc.rows) <= Len(scene.files[side].rows) + MaxExports
    BY FilesAreRows DEF FromScene
<1>2. IsFiniteSet(kept) /\ kept \subseteq DOMAIN doc.rows
  <2>1. IsFiniteSet(1..Len(doc.rows)) /\ DOMAIN doc.rows = 1..Len(doc.rows)
      BY <1>1, FS_Interval
  <2>2. kept \subseteq DOMAIN doc.rows
      BY DEF Kept
  <2> HIDE DEF kept
  <2> QED BY <2>1, <2>2, FS_Subset
<1>3. IsFiniteSet(records)
  <2> DEFINE f == [i \in kept |-> RecordOf(side, spec, doc, i)]
  <2>1. f \in Surjection(kept, records)
      BY DEF Surjection
  <2> HIDE DEF kept, records, f
  <2> QED BY <1>2, <2>1, FS_Surjection
<1>4. ASSUME NEW i \in kept, Usable(spec, doc) PROVE IsRecord(RecordOf(side, spec, doc, i), side)
  <2> DEFINE row == doc.rows[i]
             id == Identity(side, spec, doc, i)
  <2>1. row \in all /\ Parses(row) /\ i \in 1..Len(doc.rows)
    <3>1. i \in DOMAIN doc.rows /\ Parses(doc.rows[i])
        BY DEF Kept
    <3> QED BY <1>1, <3>1
  <2>2. row.cell \in Int
      BY <2>1, FilesAreRows DEF Parses
  <2>3. Parsed(spec, row) \in Int
    <3>1. spec.verb \in {"decimal", "decimal_minor", "sign_from_column"}
        BY FilesAreRows
    <3> HIDE DEF row, spec
    <3> QED BY <2>2, <3>1 DEF Parsed, Magnitude
  <2>4. CASE spec.natural = <<>>
    <3>1. id = [key |-> <<side, i>>, occurrence |-> 0]
        BY <2>4 DEF Identity
    <3>2. i \in 1..(Len(scene.files[side].rows) + MaxExports)
      <4>1. Len(doc.rows) \in Nat /\ Len(scene.files[side].rows) \in Nat /\ MaxExports \in Nat
          BY <1>1, BreaksAssumption
      <4> QED BY <1>1, <2>1, <4>1
    <3>3. Digest(<<side, i>>) \in Int
        BY <3>2, HashesAreNumbers
    <3>4. Digest(id.key) \in Int /\ id.occurrence \in Nat
        BY <3>1, <3>3
    <3> QED BY <2>3, <3>4 DEF IsRecord, RecordOf
  <2>5. CASE spec.natural # <<>>
    <3> DEFINE same == {j \in kept : j < i /\ NaturalKey(spec, doc.rows[j]) = NaturalKey(spec, row)}
    <3>1. id = [key |-> NaturalKey(spec, row), occurrence |-> Cardinality(same)]
        BY <2>5 DEF Identity
    <3>2. Cardinality(same) \in Nat
      <4>1. same \subseteq kept
          OBVIOUS
      <4> QED BY <1>2, <4>1, FS_Subset, FS_CardinalityType
    <3>3. Digest(NaturalKey(spec, row)) \in Int
        BY <1>4, <2>1, HashesAreNumbers DEF Usable
    <3>4. Digest(id.key) \in Int /\ id.occurrence \in Nat
        BY <3>1, <3>2, <3>3
    <3> QED BY <2>3, <3>4 DEF IsRecord, RecordOf
  <2> QED BY <2>4, <2>5
<1>5. CASE Usable(spec, doc)
  <2>1. Intaken(fs, side).records = records
      BY <1>5 DEF Intaken, Ingest
  <2> HIDE DEF kept
  <2> QED BY <1>3, <1>4, <1>5, <2>1
<1>6. CASE ~Usable(spec, doc)
  <2>1. Intaken(fs, side).records = {}
      BY <1>6 DEF Intaken, Ingest
  <2> QED BY <2>1, FS_EmptySet
<1> QED BY <1>5, <1>6

\* The records of either side, and groups of those of one pairing.
IsLeft(left) ==
    /\ IsFiniteSet(left.anchors) /\ \A r \in left.anchors : IsRecord(r, Anchors)
    /\ IsFiniteSet(UNION left.groups) /\ \A r \in UNION left.groups : IsRecord(r, Groups)
    /\ \A g \in left.groups : g # {}
    /\ \A g, h \in left.groups : g # h => g \cap h = {}

LEMMA LeftIsLeft ==
    ASSUME NEW scene \in Scenes, specs = scene.specs, NEW fs, FromScene(fs, scene, MaxExports)
    PROVE  IsLeft(LeftOver(fs))
<1> DEFINE left == LeftOver(fs)
           rows == Intaken(fs, Groups).records
           group(p) == {r \in rows : Pairing(r) = p}
<1>1. left.anchors \subseteq Intaken(fs, Anchors).records
    BY DEF LeftOver
<1>2. \A g \in left.groups : \E s \in rows : g = group(Pairing(s))
    BY DEF LeftOver
<1>3. IsFiniteSet(left.anchors) /\ \A r \in left.anchors : IsRecord(r, Anchors)
    BY <1>1, RecordsAreTyped, FS_Subset DEF Sides
<1> HIDE DEF left
<1>4. UNION left.groups \subseteq rows
    BY <1>2
<1>5. IsFiniteSet(rows) /\ \A r \in rows : IsRecord(r, Groups)
    BY RecordsAreTyped DEF Sides
<1> HIDE DEF rows
<1>6. IsFiniteSet(UNION left.groups) /\ \A r \in UNION left.groups : IsRecord(r, Groups)
    BY <1>4, <1>5, FS_Subset
<1>7. ASSUME NEW g \in left.groups, NEW h \in left.groups
      PROVE  g # {} /\ (g # h => g \cap h = {})
  <2>1. PICK s \in rows : g = group(Pairing(s))
      BY <1>2
  <2>2. PICK t \in rows : h = group(Pairing(t))
      BY <1>2
  <2>3. ASSUME NEW r, r \in g, r \in h PROVE g = h
      BY <2>1, <2>2, <2>3
  <2> QED BY <2>1, <2>3
<1> QED BY <1>3, <1>6, <1>7 DEF IsLeft, left
-----------------------------------------------------------------------------
(* The closest candidate. *)

LEMMA ComparedIsFinite == IsFiniteSet(Compared) /\ Cardinality(Compared) \in Nat
<1>1. IsFiniteSet({"amount", "date"})
  <2>1. IsFiniteSet({"amount"} \cup {"date"})
      BY FS_Singleton, FS_AddElement
  <2>2. {"amount"} \cup {"date"} = {"amount", "date"}
      OBVIOUS
  <2> QED BY <2>1, <2>2
<1> QED BY <1>1, FilesAreRows, FS_Union, FS_CardinalityType DEF Compared

LEMMA AgreementIsNumber == ASSUME NEW r, NEW c PROVE Agreement(r, c) \in Nat
BY ComparedIsFinite, FS_Subset, FS_CardinalityType DEF Agreement

LEMMA CloserIsOrder ==
    ASSUME NEW r, NEW side, NEW other, IsRecord(r, side),
           NEW c, IsRecord(c, other), NEW d, IsRecord(d, other), NEW e, IsRecord(e, other)
    PROVE  ~Closer(r, c, c) /\ (Closer(r, c, d) /\ Closer(r, d, e) => Closer(r, c, e))
<1> DEFINE delta(x) == Magnitude(r.amount - x.amount)
<1>1. \A x, y \in Int : Magnitude(x - y) \in Int
    BY DEF Magnitude
<1>2. delta(c) \in Int /\ delta(d) \in Int /\ delta(e) \in Int
    BY <1>1 DEF IsRecord
<1> HIDE DEF delta
<1>3. Agreement(r, c) \in Nat /\ Agreement(r, d) \in Nat /\ Agreement(r, e) \in Nat
    BY AgreementIsNumber
<1>4. ~IdBefore(c, c) /\ (IdBefore(c, d) /\ IdBefore(d, e) => IdBefore(c, e))
    BY DEF IsRecord, IdBefore
<1>5. \A x, y : Closer(r, x, y) <=>
        \/ Agreement(r, x) > Agreement(r, y)
        \/ /\ Agreement(r, x) = Agreement(r, y)
           /\ delta(x) < delta(y) \/ (delta(x) = delta(y) /\ IdBefore(x, y))
    BY DEF Closer, delta
<1> QED BY <1>2, <1>3, <1>4, <1>5

\* Of finitely many candidates one has none before it.
LEMMA ClosestExists ==
    ASSUME NEW r, NEW side, NEW other, IsRecord(r, side),
           NEW set, IsFiniteSet(set), set # {}, \A c \in set : IsRecord(c, other)
    PROVE  \E c \in set : \A d \in set : ~Closer(r, d, c)
<1> DEFINE Below(c) == {d \in set : Closer(r, d, c)}
           B == {Below(c) : c \in set}
<1>1. B \in SUBSET (SUBSET set) /\ B # {}
    OBVIOUS
<1>2. PICK T \in B : \A U \in B : ~(U \subseteq T /\ U # T)
  <2> HIDE DEF B
  <2> QED BY <1>1, SmallestExists
<1>3. PICK c \in set : T = Below(c)
    OBVIOUS
<1>4. ASSUME NEW d \in set, Closer(r, d, c) PROVE FALSE
  <2>1. Below(d) \subseteq Below(c) /\ d \in Below(c) /\ d \notin Below(d)
      BY <1>4, CloserIsOrder
  <2> QED BY <1>2, <1>3, <2>1
<1> QED BY <1>4

LEMMA ClosestIsShown ==
    ASSUME NEW r, NEW side, NEW other, IsRecord(r, side),
           NEW others, IsFiniteSet(others), \A c \in others : IsRecord(c, other),
           Candidates(r, others) # {}
    PROVE  /\ Closest(r, others) \in Shown(r, others) /\ Closest(r, others) \in others
           /\ \A d \in Shown(r, others) : ~Closer(r, d, Closest(r, others))
<1> DEFINE all == Candidates(r, others)
<1>1. all \subseteq others /\ IsFiniteSet(all) /\ Shown(r, others) \subseteq all
  <2>1. all \subseteq others /\ Shown(r, others) \subseteq all
      BY DEF Candidates, Shown
  <2> QED BY <2>1, FS_Subset
<1>2. \A c \in all : IsRecord(c, other)
    BY <1>1
<1> HIDE DEF all
<1>3. all # {}
    BY DEF all
<1>4. PICK c \in all : \A d \in all : ~Closer(r, d, c)
    BY <1>1, <1>2, <1>3, ClosestExists
<1>5. c \in Shown(r, others)
  <2>1. {d \in all : Closer(r, d, c)} = {}
      BY <1>4
  <2>2. Cardinality({d \in all : Closer(r, d, c)}) < Limit
    <3>1. Cardinality({}) = 0 /\ Limit \in Nat \ {0}
        BY FS_EmptySet, BreaksAssumption
    <3> QED BY <2>1, <3>1
  <2> QED BY <2>2 DEF Shown, all
<1>6. \A d \in Shown(r, others) : ~Closer(r, d, c)
    BY <1>1, <1>4
<1>7. /\ Closest(r, others) \in Shown(r, others)
      /\ \A d \in Shown(r, others) : ~Closer(r, d, Closest(r, others))
    BY <1>5, <1>6 DEF Closest
<1> QED BY <1>1, <1>7
-----------------------------------------------------------------------------
(* Every leftover in one exception. *)

LEMMA OtherSide ==
    ASSUME NEW left, IsLeft(left), NEW r \in Singles(left)
    PROVE  \/ /\ r \in left.anchors /\ IsRecord(r, Anchors) /\ Others(r, left) = UNION left.groups
           \/ /\ r \in UNION left.groups /\ IsRecord(r, Groups) /\ Others(r, left) = left.anchors
<1>1. r \in left.anchors \/ r \in UNION left.groups
    BY DEF Singles
<1>2. Anchors # Groups
    BY BreaksAssumption
<1> QED BY <1>1, <1>2 DEF IsLeft, IsRecord, Others

LEMMA CounterpartIsOther ==
    ASSUME NEW left, IsLeft(left), NEW r \in Singles(left), NEW s \in Counterpart(r, left)
    PROVE  s \in Others(r, left) /\ Counterpart(r, left) = {s}
<1>1. Candidates(r, Others(r, left)) # {} /\ Counterpart(r, left) = {Closest(r, Others(r, left))}
    BY DEF Counterpart
<1>2. Closest(r, Others(r, left)) \in Others(r, left)
  <2>1. CASE IsRecord(r, Anchors) /\ Others(r, left) = UNION left.groups
    <3>1. IsFiniteSet(Others(r, left)) /\ \A c \in Others(r, left) : IsRecord(c, Groups)
        BY <2>1 DEF IsLeft
    <3> QED BY <1>1, <2>1, <3>1, ClosestIsShown
  <2>2. CASE IsRecord(r, Groups) /\ Others(r, left) = left.anchors
    <3>1. IsFiniteSet(Others(r, left)) /\ \A c \in Others(r, left) : IsRecord(c, Anchors)
        BY <2>2 DEF IsLeft
    <3> QED BY <1>1, <2>2, <3>1, ClosestIsShown
  <2> QED BY <2>1, <2>2, OtherSide
<1> QED BY <1>1, <1>2

\* A row has one partner at most, on the other side, and is its partner's partner.
LEMMA PartnersArePairs ==
    ASSUME NEW left, IsLeft(left), NEW r \in Singles(left), NEW s \in Partner(r, left)
    PROVE  /\ s \in Singles(left) /\ r \in Partner(s, left)
           /\ Partner(r, left) = {s}
           /\ (r.side = Anchors /\ s.side = Groups) \/ (r.side = Groups /\ s.side = Anchors)
           /\ Reading(r, Others(r, left)).code = Reading(s, Others(s, left)).code
<1>1. s \in Singles(left) /\ OneBreak(r, s, left)
    BY DEF Partner
<1>2. OneBreak(s, r, left)
    BY <1>1 DEF OneBreak
<1>3. s \in Others(r, left) /\ Counterpart(r, left) = {s}
    BY <1>1, CounterpartIsOther DEF OneBreak
<1>4. (r.side = Anchors /\ s.side = Groups) \/ (r.side = Groups /\ s.side = Anchors)
  <2>1. CASE IsRecord(r, Anchors) /\ Others(r, left) = UNION left.groups
      BY <1>3, <2>1 DEF IsLeft, IsRecord
  <2>2. CASE IsRecord(r, Groups) /\ Others(r, left) = left.anchors
      BY <1>3, <2>2 DEF IsLeft, IsRecord
  <2> QED BY <2>1, <2>2, OtherSide
<1>5. Partner(r, left) = {s}
    BY <1>1, <1>3 DEF Partner, OneBreak
<1> QED BY <1>1, <1>2, <1>4, <1>5 DEF Partner, OneBreak

RaisedOf(left) ==
    {Exception({r} \cup Partner(r, left), Reading(r, Others(r, left))) :
            r \in {s \in Singles(left) : First(s, left)}}
    \cup {Exception(g, [code |-> Unexplained, derived |-> FALSE, ambiguous |-> {}]) :
            g \in {h \in left.groups : Cardinality(h) > 1}}

IsSingle(e, r, left) ==
    /\ r \in Singles(left) /\ First(r, left)
    /\ e = Exception({r} \cup Partner(r, left), Reading(r, Others(r, left)))
    /\ e.members = {r} \cup Partner(r, left) /\ e.members \subseteq Singles(left)

IsMany(e, g, left) ==
    /\ g \in left.groups /\ Cardinality(g) > 1
    /\ e = Exception(g, [code |-> Unexplained, derived |-> FALSE, ambiguous |-> {}])
    /\ e.members = g /\ ~e.derived

LEMMA RaisedAre ==
    ASSUME NEW left, NEW e \in RaisedOf(left)
    PROVE  (\E r : IsSingle(e, r, left)) \/ (\E g : IsMany(e, g, left))
<1>1. ASSUME NEW r \in Singles(left), First(r, left),
             e = Exception({r} \cup Partner(r, left), Reading(r, Others(r, left)))
      PROVE  IsSingle(e, r, left)
  <2>1. e.members = {r} \cup Partner(r, left)
      BY <1>1 DEF Exception
  <2>2. Partner(r, left) \subseteq Singles(left)
      BY DEF Partner
  <2> QED BY <1>1, <2>1, <2>2 DEF IsSingle
<1>2. ASSUME NEW g \in left.groups, Cardinality(g) > 1,
             e = Exception(g, [code |-> Unexplained, derived |-> FALSE, ambiguous |-> {}])
      PROVE  IsMany(e, g, left)
    BY <1>2 DEF IsMany, Exception
<1> QED BY <1>1, <1>2 DEF RaisedOf

LEMMA SinglesApart ==
    ASSUME NEW left, IsLeft(left), NEW e, NEW f, NEW r, IsSingle(e, r, left),
           NEW s, IsSingle(f, s, left), NEW x, x \in e.members, x \in f.members
    PROVE  e = f
<1>1. /\ r \in Singles(left) /\ First(r, left) /\ s \in Singles(left) /\ First(s, left)
      /\ x \in {r} \cup Partner(r, left) /\ x \in {s} \cup Partner(s, left)
    BY DEF IsSingle
<1>2. ASSUME NEW a \in Singles(left), NEW b \in Singles(left), First(a, left), First(b, left),
             b \in Partner(a, left)
      PROVE  FALSE
  <2>1. /\ a \in Partner(b, left)
        /\ (a.side = Anchors /\ b.side = Groups) \/ (a.side = Groups /\ b.side = Anchors)
      BY <1>2, PartnersArePairs
  <2> QED BY <1>2, <2>1, BreaksAssumption DEF First
<1>3. r = s
  <2>1. CASE x = r \/ x = s
      BY <1>1, <1>2, <2>1
  <2>2. CASE x \in Partner(r, left) /\ x \in Partner(s, left)
    <3>1. x \in Singles(left) /\ r \in Partner(x, left) /\ s \in Partner(x, left)
        BY <1>1, <2>2, PartnersArePairs
    <3> QED BY <3>1, PartnersArePairs
  <2> QED BY <1>1, <2>1, <2>2
<1> QED BY <1>3 DEF IsSingle

LEMMA LeftoversApart ==
    ASSUME NEW left, IsLeft(left), NEW e \in RaisedOf(left), NEW f \in RaisedOf(left), e # f
    PROVE  e.members \cap f.members = {}
<1> SUFFICES ASSUME NEW x, x \in e.members, x \in f.members PROVE FALSE
    OBVIOUS
<1>1. ASSUME NEW d, NEW h, NEW r, IsSingle(d, r, left), NEW g, IsMany(h, g, left),
             x \in d.members, x \in h.members
      PROVE  FALSE
  <2>1. x \in Singles(left) /\ x \in g /\ g \in left.groups /\ Cardinality(g) > 1
      BY <1>1 DEF IsSingle, IsMany
  <2>2. x \notin left.anchors
    <3>1. x \in UNION left.groups
        BY <2>1
    <3> QED BY <3>1, BreaksAssumption DEF IsLeft, IsRecord
  <2>3. PICK k \in left.groups : Cardinality(k) = 1 /\ x \in k
      BY <2>1, <2>2 DEF Singles
  <2>4. k = g
      BY <2>1, <2>3 DEF IsLeft
  <2> QED BY <2>1, <2>3, <2>4
<1>2. CASE \E r, s : IsSingle(e, r, left) /\ IsSingle(f, s, left)
    BY <1>2, SinglesApart
<1>3. CASE \E g, h : IsMany(e, g, left) /\ IsMany(f, h, left)
  <2>1. PICK g, h : IsMany(e, g, left) /\ IsMany(f, h, left)
      BY <1>3
  <2>2. g = h
      BY <2>1 DEF IsMany, IsLeft
  <2> QED BY <2>1, <2>2 DEF IsMany
<1> QED BY <1>1, <1>2, <1>3, RaisedAre

LEMMA LeftoversCovered ==
    ASSUME NEW left, IsLeft(left)
    PROVE  UNION {e.members : e \in RaisedOf(left)} = left.anchors \cup UNION left.groups
<1>1. ASSUME NEW e \in RaisedOf(left) PROVE e.members \subseteq left.anchors \cup UNION left.groups
    BY RaisedAre DEF IsSingle, IsMany, Singles
<1>2. ASSUME NEW r \in Singles(left) PROVE \E e \in RaisedOf(left) : r \in e.members
  <2>1. ASSUME NEW s \in Singles(left), First(s, left), r = s \/ r \in Partner(s, left)
        PROVE  \E e \in RaisedOf(left) : r \in e.members
    <3> DEFINE e == Exception({s} \cup Partner(s, left), Reading(s, Others(s, left)))
    <3>1. e \in RaisedOf(left)
        BY <2>1 DEF RaisedOf
    <3>2. e.members = {s} \cup Partner(s, left)
        BY DEF Exception
    <3> QED BY <2>1, <3>1, <3>2
  <2>2. CASE First(r, left)
      BY <2>1, <2>2
  <2>3. CASE ~First(r, left)
    <3>1. PICK s \in Partner(r, left) : TRUE
        BY <2>3 DEF First
    <3>2. s \in Singles(left) /\ First(s, left) /\ r \in Partner(s, left)
        BY <2>3, <3>1, PartnersArePairs DEF First
    <3> QED BY <2>1, <3>2
  <2> QED BY <2>2, <2>3
<1>3. ASSUME NEW g \in left.groups, NEW r \in g PROVE \E e \in RaisedOf(left) : r \in e.members
  <2>1. IsFiniteSet(g) /\ Cardinality(g) \in Nat /\ Cardinality(g) # 0
    <3>1. g \subseteq UNION left.groups /\ IsFiniteSet(UNION left.groups)
        BY DEF IsLeft
    <3>2. IsFiniteSet(g)
        BY <3>1, FS_Subset
    <3> QED BY <3>2, FS_CardinalityType, FS_EmptySet
  <2>2. CASE Cardinality(g) = 1
    <3>1. r \in Singles(left)
        BY <2>2 DEF Singles
    <3> QED BY <1>2, <3>1
  <2>3. CASE Cardinality(g) > 1
    <3> DEFINE e == Exception(g, [code |-> Unexplained, derived |-> FALSE, ambiguous |-> {}])
    <3>1. e \in RaisedOf(left)
        BY <2>3 DEF RaisedOf
    <3>2. e.members = g
        BY DEF Exception
    <3> QED BY <3>1, <3>2
  <2> QED BY <2>1, <2>2, <2>3
<1>4. left.anchors \subseteq Singles(left)
    BY DEF Singles
<1> QED BY <1>1, <1>2, <1>3, <1>4
-----------------------------------------------------------------------------
(* What a derived code says. *)

LEMMA ShownAreAll ==
    ASSUME NEW r, NEW side, NEW other, IsRecord(r, side),
           NEW others, IsFiniteSet(others), \A c \in others : IsRecord(c, other),
           Cardinality(Candidates(r, others)) <= Limit
    PROVE  Shown(r, others) = Candidates(r, others)
<1> DEFINE all == Candidates(r, others)
           before(c) == {d \in all : Closer(r, d, c)}
<1>1. all \subseteq others
    BY DEF Candidates
<1>2. IsFiniteSet(all) /\ (\A c \in all : IsRecord(c, other)) /\ Cardinality(all) \in Nat /\ Limit \in Nat
    BY <1>1, FS_Subset, FS_CardinalityType, BreaksAssumption
<1>3. Cardinality(all) <= Limit
    OBVIOUS
<1>4. Shown(r, others) = {c \in all : Cardinality(before(c)) < Limit}
    BY DEF Shown
<1> HIDE DEF all
<1>5. ASSUME NEW c \in all PROVE Cardinality(before(c)) < Limit
  <2>1. before(c) \subseteq all /\ c \notin before(c)
      BY <1>2, CloserIsOrder
  <2>2. Cardinality(before(c)) <= Cardinality(all) /\ Cardinality(before(c)) # Cardinality(all)
        /\ Cardinality(before(c)) \in Nat
    <3> HIDE DEF before
    <3> QED BY <1>2, <2>1, FS_Subset, FS_CardinalityType
  <2> QED BY <1>2, <1>3, <2>2
<1> HIDE DEF before
<1> QED BY <1>4, <1>5 DEF all

LEMMA OnePartIsClose ==
    ASSUME NEW r, NEW c
    PROVE  /\ Agreement(r, c) = Cardinality(Compared) - Cardinality(Differs(r, c))
           /\ Cardinality(Differs(r, c)) \in Nat
           /\ Cardinality(Differs(r, c)) = 0 <=> Differs(r, c) = {}
           /\ OnePartAway(r, c) => Differs(r, c) # {} /\ Differs(r, c) # Compared
<1>1. Differs(r, c) \subseteq Compared
    BY DEF Differs
<1>2. IsFiniteSet(Differs(r, c)) /\ Cardinality(Differs(r, c)) \in Nat
    BY <1>1, ComparedIsFinite, FS_Subset, FS_CardinalityType
<1>3. Agreement(r, c) = Cardinality(Compared) - Cardinality(Differs(r, c))
  <2>1. Compared \cap Differs(r, c) = Differs(r, c)
      BY <1>1
  <2> QED BY <2>1, ComparedIsFinite, FS_Difference DEF Agreement
<1>4. ASSUME Cardinality(Compared) = 1 PROVE FALSE
  <2>1. PICK x : Compared = {x}
      BY <1>4, ComparedIsFinite, FS_Singleton
  <2>2. "amount" \in Compared /\ "date" \in Compared /\ "amount" # "date"
      BY DEF Compared
  <2> QED BY <2>1, <2>2
<1> QED BY <1>2, <1>3, <1>4, FS_EmptySet DEF OnePartAway

\* If the list is not cut and some row is one part away, the closest row is.
LEMMA ClosestIsOnePartAway ==
    ASSUME NEW r, NEW side, NEW other, IsRecord(r, side),
           NEW others, IsFiniteSet(others), \A c \in others : IsRecord(c, other),
           Cardinality(Candidates(r, others)) <= Limit, NEW c \in others, OnePartAway(r, c)
    PROVE  OnePartAway(r, Closest(r, others)) /\ c \in Shown(r, others)
<1> DEFINE closest == Closest(r, others)
<1>1. c \in Candidates(r, others)
    BY OnePartIsClose DEF Candidates
<1>2. Shown(r, others) = Candidates(r, others)
    BY ShownAreAll
<1>3. closest \in Candidates(r, others) /\ ~Closer(r, c, closest)
    BY <1>1, <1>2, ClosestIsShown
<1>4. Differs(r, closest) # {}
    BY <1>3 DEF Candidates
<1>5. ~(Agreement(r, c) > Agreement(r, closest))
    BY <1>3 DEF Closer
<1> HIDE DEF closest
<1>6. Cardinality(Differs(r, closest)) = 1
  <2>1. Cardinality(Differs(r, c)) = 1
      BY DEF OnePartAway
  <2> QED BY <1>4, <1>5, <2>1, OnePartIsClose, ComparedIsFinite
<1> QED BY <1>1, <1>2, <1>6 DEF OnePartAway, closest

LEMMA CodesAreDeclared ==
    ASSUME NEW left, IsLeft(left), NEW r \in Singles(left)
    PROVE  Unexplained \notin Diagnosis(r, Others(r, left)) /\ IsFiniteSet(Diagnosis(r, Others(r, left)))
<1> DEFINE others == Others(r, left)
           rivals == {c \in Shown(r, others) : OnePartAway(r, c) /\ Reads(r, c) # Undeclared}
<1>1. Unexplained \notin ByAbsence[r.side] /\ IsFiniteSet(ByAbsence[r.side])
  <2>1. r.side \in Sides
      BY OtherSide DEF IsRecord, Sides
  <2> QED BY <2>1, CodesAreNamed
<1>2. ASSUME NEW c, OnePartAway(r, c) PROVE Reads(r, c) # Unexplained
  <2>1. Differs(r, c) # {}
      BY <1>2, OnePartIsClose
  <2>2. (CHOOSE p \in Differs(r, c) : TRUE) \in Differs(r, c) /\ Differs(r, c) \subseteq Compared
      BY <2>1 DEF Differs
  <2> QED BY <2>2, CodesAreNamed DEF Reads
<1>3. Unexplained \notin {Reads(r, c) : c \in rivals}
    BY <1>2
<1>4. IsFiniteSet({Reads(r, c) : c \in rivals})
  <2> DEFINE f == [c \in rivals |-> Reads(r, c)]
  <2>1. rivals \subseteq others
      BY DEF Shown, Candidates
  <2>2. IsFiniteSet(others)
      BY OtherSide DEF IsLeft
  <2>3. f \in Surjection(rivals, {Reads(r, c) : c \in rivals})
      BY DEF Surjection
  <2> HIDE DEF rivals, others, f
  <2>4. IsFiniteSet(rivals)
      BY <2>1, <2>2, FS_Subset
  <2> QED BY <2>3, <2>4, FS_Surjection
<1>5. Diagnosis(r, others) \in {ByAbsence[r.side], {}, {Reads(r, c) : c \in rivals}}
    BY DEF Diagnosis
<1> HIDE DEF rivals, others
<1> QED BY <1>1, <1>3, <1>4, <1>5, FS_EmptySet DEF others

\* A code other than E14 is the whole diagnosis.
LEMMA CodeIsDiagnosis ==
    ASSUME NEW left, IsLeft(left), NEW r \in Singles(left),
           Reading(r, Others(r, left)).derived \/ Reading(r, Others(r, left)).code # Unexplained
    PROVE  /\ Diagnosis(r, Others(r, left)) = {Reading(r, Others(r, left)).code}
           /\ Reading(r, Others(r, left)).code # Unexplained
<1> DEFINE others == Others(r, left)
           said == IF others = {} THEN {} ELSE Diagnosis(r, others)
<1>1. /\ Reading(r, others).derived = (Cardinality(said) = 1)
      /\ Reading(r, others).code = IF Cardinality(said) = 1 THEN CHOOSE c \in said : TRUE ELSE Unexplained
    BY DEF Reading
<1> HIDE DEF said
<1>2. Cardinality(said) = 1
    BY <1>1
<1>3. said # {}
    BY <1>2, FS_EmptySet
<1>4. said = Diagnosis(r, others)
    BY <1>3 DEF said
<1>5. IsFiniteSet(said)
    BY <1>4, CodesAreDeclared
<1>6. PICK x : said = {x}
    BY <1>2, <1>5, FS_Singleton
<1>7. Reading(r, others).code = x
    BY <1>1, <1>2, <1>6
<1> QED BY <1>4, <1>6, <1>7, CodesAreDeclared

\* Both rows of a pair say what the exception says, if it is derived.
LEMMA MembersAgree ==
    ASSUME NEW left, IsLeft(left), NEW e \in RaisedOf(left), e.derived, NEW r \in e.members
    PROVE  r \in Singles(left) /\ Diagnosis(r, Others(r, left)) = {e.code}
<1>1. PICK s : IsSingle(e, s, left)
    BY RaisedAre DEF IsMany
<1>2. /\ s \in Singles(left) /\ r \in Singles(left) /\ r \in {s} \cup Partner(s, left)
      /\ e = Exception({s} \cup Partner(s, left), Reading(s, Others(s, left)))
    BY <1>1 DEF IsSingle
<1>3. e.code = Reading(s, Others(s, left)).code /\ e.derived = Reading(s, Others(s, left)).derived
    BY <1>2 DEF Exception
<1>4. Diagnosis(s, Others(s, left)) = {e.code} /\ e.code # Unexplained
    BY <1>2, <1>3, CodeIsDiagnosis
<1>5. CASE r \in Partner(s, left)
  <2>1. Reading(r, Others(r, left)).code = e.code
      BY <1>2, <1>3, <1>5, PartnersArePairs
  <2> QED BY <1>2, <1>4, <2>1, CodeIsDiagnosis
<1> QED BY <1>2, <1>4, <1>5

LEMMA VerdictOf ==
    ASSUME NEW left, IsLeft(left), NEW e \in RaisedOf(left), e.derived, NEW r \in e.members,
           Cardinality(Candidates(r, Others(r, left))) <= Limit
    PROVE  LET near == {c \in Others(r, left) : OnePartAway(r, c)} IN
           IF near = {} THEN ByAbsence[r.side] = {e.code}
           ELSE \A c \in near : Reads(r, c) \in {e.code, Undeclared}
<1> DEFINE others == Others(r, left)
           near == {c \in others : OnePartAway(r, c)}
           closest == Closest(r, others)
<1>1. r \in Singles(left) /\ Diagnosis(r, others) = {e.code}
    BY MembersAgree
<1>2. PICK other \in Sides :
        /\ IsRecord(r, r.side) /\ IsFiniteSet(others) /\ \A c \in others : IsRecord(c, other)
  <2>1. CASE IsRecord(r, Anchors) /\ others = UNION left.groups
      BY <2>1 DEF IsLeft, IsRecord, Sides
  <2>2. CASE IsRecord(r, Groups) /\ others = left.anchors
      BY <2>2 DEF IsLeft, IsRecord, Sides
  <2> QED BY <1>1, <2>1, <2>2, OtherSide
<1>3. CASE near = {}
  <2>1. Candidates(r, others) # {} => ~OnePartAway(r, closest)
    <3>1. Candidates(r, others) # {} => closest \in others
        BY <1>2, ClosestIsShown
    <3> QED BY <1>3, <3>1
  <2>2. Diagnosis(r, others) = ByAbsence[r.side]
      BY <2>1 DEF Diagnosis
  <2> QED BY <1>1, <1>3, <2>2
<1>4. ASSUME NEW c \in near, Reads(r, c) # Undeclared PROVE Reads(r, c) = e.code
  <2>1. OnePartAway(r, closest) /\ c \in Shown(r, others)
      BY <1>2, ClosestIsOnePartAway
  <2>2. Candidates(r, others) # {}
      BY <2>1 DEF Shown
  <2>3. Reads(r, closest) # Undeclared
      BY <1>1, <2>1, <2>2 DEF Diagnosis
  <2>4. Reads(r, c) \in Diagnosis(r, others)
      BY <1>4, <2>1, <2>2, <2>3 DEF Diagnosis
  <2> QED BY <1>1, <2>4
<1> QED BY <1>3, <1>4
-----------------------------------------------------------------------------
LEMMA BreaksHold == BreaksSpec => []BreaksInv
BY BreaksBegin, BreaksSteps, PTL DEF BreaksSpec

LEMMA ClosedIsRaised ==
    ASSUME BreaksInv, closed # None
    PROVE  IsLeft(LeftOver(closed.files)) /\ closed.raised = RaisedOf(LeftOver(closed.files))
<1>1. PICK scene \in Scenes : specs = scene.specs /\ FromScene(closed.files, scene, MaxExports)
    BY DEF BreaksInv
<1>2. IsLeft(LeftOver(closed.files))
    BY <1>1, LeftIsLeft
<1>3. closed.raised = Raised(closed.files)
    BY DEF BreaksInv
<1>4. Raised(closed.files) = RaisedOf(LeftOver(closed.files))
    BY DEF Raised, RaisedOf
<1> QED BY <1>2, <1>3, <1>4

\* Every record that no strategy matched is raised in one exception and no other
\* (_disposition_pass).
THEOREM OneExceptionEach == BreaksSpec => []LeftoversRaisedOnce
<1>1. BreaksInv => LeftoversRaisedOnce
    BY ClosedIsRaised, LeftoversApart, LeftoversCovered DEF LeftoversRaisedOnce
<1> QED BY <1>1, BreaksHold, PTL

\* A derived code is what every counterpart as close as the closest one says, as long as
\* the list of candidates was not cut (nearmiss.compare, diagnose.diagnose).
THEOREM VerdictsAreDecisive == BreaksSpec => []VerdictIsDecisive
<1>1. BreaksInv => VerdictIsDecisive
    BY ClosedIsRaised, VerdictOf DEF VerdictIsDecisive
<1> QED BY <1>1, BreaksHold, PTL
-----------------------------------------------------------------------------
(* What a verified source accounts for. *)

\* What the sums of the model are: those of a function that has their terms.
LEMMA MovedIs ==
    ASSUME NEW doc, NEW S, IsFiniteSet(S), NEW f, \A i \in S : f[i] = doc.rows[i].worth /\ f[i] \in Int
    PROVE  Moved(doc, S) = SumFunctionOnSet(f, S)
<1> DEFINE P(g) == g = [s \in SUBSET S |-> IF s = {} THEN 0 ELSE doc.rows[Chosen(s)].worth + g[s \ {Chosen(s)}]]
<1>1. Moved(doc, S) = (CHOOSE g : P(g))[S]
    BY DEF Moved, MapThenSumSet, MapThenFoldSet, Chosen
<1>2. \A s \in SUBSET S : s # {} => doc.rows[Chosen(s)].worth = f[Chosen(s)]
    BY DEF Chosen
<1>3. ASSUME NEW g PROVE P(g) <=> IsSum(g, f, S)
    BY <1>2 DEF IsSum
<1>4. PICK g : IsSum(g, f, S)
    BY SumExists
<1>5. P(CHOOSE h : P(h))
    BY <1>3, <1>4
<1>6. IsSum(CHOOSE h : P(h), f, S)
    BY <1>3, <1>5
<1>7. PICK h : IsSum(h, f, S) /\ SumFunctionOnSet(f, S) = h[S]
    BY SumExists, SumIs
<1> HIDE DEF P
<1> QED BY <1>1, <1>6, <1>7, SumWithin

\* What was read of some rows.
Total(spec, doc, S) == MapThenSumSet(LAMBDA i : Amount(spec, doc, i), S)

LEMMA TotalIs ==
    ASSUME NEW spec, NEW doc, NEW S, IsFiniteSet(S), NEW f,
           \A i \in S : f[i] = Amount(spec, doc, i) /\ f[i] \in Int
    PROVE  Total(spec, doc, S) = SumFunctionOnSet(f, S)
<1> DEFINE P(g) == g = [s \in SUBSET S |-> IF s = {} THEN 0 ELSE Amount(spec, doc, Chosen(s)) + g[s \ {Chosen(s)}]]
<1>1. Total(spec, doc, S) = (CHOOSE g : P(g))[S]
    BY DEF Total, MapThenSumSet, MapThenFoldSet, Chosen
<1>2. \A s \in SUBSET S : s # {} => Amount(spec, doc, Chosen(s)) = f[Chosen(s)]
    BY DEF Chosen
<1>3. ASSUME NEW g PROVE P(g) <=> IsSum(g, f, S)
    BY <1>2 DEF IsSum
<1>4. PICK g : IsSum(g, f, S)
    BY SumExists
<1>5. P(CHOOSE h : P(h))
    BY <1>3, <1>4
<1>6. IsSum(CHOOSE h : P(h), f, S)
    BY <1>3, <1>5
<1>7. PICK h : IsSum(h, f, S) /\ SumFunctionOnSet(f, S) = h[S]
    BY SumExists, SumIs
<1> HIDE DEF P
<1> QED BY <1>1, <1>6, <1>7, SumWithin

\* A document as a scene or an export gives it: what it states is a number, and true.
IsDocument(doc) ==
    /\ Len(doc.rows) \in Nat /\ DOMAIN doc.rows = 1..Len(doc.rows)
    /\ \A i \in DOMAIN doc.rows :
        /\ doc.rows[i].worth \in Int /\ doc.rows[i].balance \in Int \cup {NoFigure}
        /\ doc.rows[i].cell \in Int \cup {Unread}
    /\ {doc.opening, doc.closing, doc.total} \subseteq Int \cup {NoFigure}
    /\ Truthful(doc)

HasVerb(spec) == spec.verb \in {"decimal", "decimal_minor", "sign_from_column"}
Worths(doc) == [i \in DOMAIN doc.rows |-> doc.rows[i].worth]
Amounts(spec, doc) == [i \in Kept(doc) |-> Amount(spec, doc, i)]

LEMMA RowsAreNumbers ==
    ASSUME NEW spec, HasVerb(spec), NEW doc, IsDocument(doc)
    PROVE  /\ IsFiniteSet(DOMAIN doc.rows) /\ Kept(doc) \subseteq DOMAIN doc.rows
           /\ Balances(doc) \subseteq DOMAIN doc.rows /\ DOMAIN doc.rows \subseteq Nat \ {0}
           /\ \A i \in DOMAIN doc.rows : Worths(doc)[i] \in Int
           /\ \A i \in Kept(doc) : Amounts(spec, doc)[i] \in Int
<1>1. IsFiniteSet(DOMAIN doc.rows) /\ DOMAIN doc.rows \subseteq Nat \ {0}
  <2>1. DOMAIN doc.rows = 1..Len(doc.rows) /\ Len(doc.rows) \in Nat
      BY DEF IsDocument
  <2>2. IsFiniteSet(1..Len(doc.rows))
      BY <2>1, FS_Interval
  <2> QED BY <2>1, <2>2
<1>2. Kept(doc) \subseteq DOMAIN doc.rows /\ Balances(doc) \subseteq DOMAIN doc.rows
    BY DEF Kept, Balances
<1>3. \A i \in DOMAIN doc.rows : Worths(doc)[i] \in Int
    BY DEF IsDocument, Worths
<1>4. ASSUME NEW i \in Kept(doc) PROVE Amounts(spec, doc)[i] \in Int
  <2> DEFINE row == doc.rows[i]
  <2>1. Amounts(spec, doc)[i] = Parsed(spec, row)
      BY DEF Amounts, Amount
  <2>2. row.cell \in Int
      BY <1>2 DEF IsDocument, Kept, Parses
  <2> HIDE DEF row
  <2> QED BY <2>1, <2>2 DEF HasVerb, Parsed, Magnitude
<1> QED BY <1>1, <1>2, <1>3, <1>4

LEMMA SumsOfRows ==
    ASSUME NEW spec, HasVerb(spec), NEW doc, IsDocument(doc)
    PROVE  /\ \A S \in SUBSET (DOMAIN doc.rows) : IsFiniteSet(S)
           /\ \A S \in SUBSET (DOMAIN doc.rows) :
                Moved(doc, S) = SumFunctionOnSet(Worths(doc), S) /\ Moved(doc, S) \in Int
           /\ \A S \in SUBSET Kept(doc) :
                Total(spec, doc, S) = SumFunctionOnSet(Amounts(spec, doc), S) /\ Total(spec, doc, S) \in Int
<1>1. ASSUME NEW S \in SUBSET (DOMAIN doc.rows)
      PROVE  Moved(doc, S) = SumFunctionOnSet(Worths(doc), S) /\ Moved(doc, S) \in Int /\ IsFiniteSet(S)
  <2>1. IsFiniteSet(S)
      BY RowsAreNumbers, FS_Subset
  <2>2. \A i \in S : Worths(doc)[i] = doc.rows[i].worth /\ Worths(doc)[i] \in Int
      BY RowsAreNumbers DEF Worths
  <2>3. Moved(doc, S) = SumFunctionOnSet(Worths(doc), S)
      BY <2>1, <2>2, MovedIs
  <2>4. SumFunctionOnSet(Worths(doc), S) \in Int
      BY <2>1, <2>2, SumSplits
  <2> QED BY <2>1, <2>3, <2>4
<1>2. ASSUME NEW S \in SUBSET Kept(doc)
      PROVE  Total(spec, doc, S) = SumFunctionOnSet(Amounts(spec, doc), S) /\ Total(spec, doc, S) \in Int
  <2>1. IsFiniteSet(S)
      BY RowsAreNumbers, FS_Subset
  <2>2. \A i \in S : Amounts(spec, doc)[i] = Amount(spec, doc, i) /\ Amounts(spec, doc)[i] \in Int
      BY RowsAreNumbers DEF Amounts
  <2>3. Total(spec, doc, S) = SumFunctionOnSet(Amounts(spec, doc), S)
      BY <2>1, <2>2, TotalIs
  <2>4. SumFunctionOnSet(Amounts(spec, doc), S) \in Int
      BY <2>1, <2>2, SumSplits
  <2> QED BY <2>3, <2>4
<1> QED BY <1>1, <1>2

\* The rows from one balance to the next are all seen or none is.
Follows(doc, p, n) ==
    /\ p \in Balances(doc) /\ n \in Balances(doc) /\ p < n
    /\ \A k \in Balances(doc) : ~(p < k /\ k < n)

LEMMA GapsAreWhole ==
    ASSUME NEW doc, Len(doc.rows) \in Nat, DOMAIN doc.rows = 1..Len(doc.rows), Chained(doc),
           NEW p, NEW n, Follows(doc, p, n)
    PROVE  LET gap == (p + 1)..n
               seen == DOMAIN doc.rows \ Unseen(doc)
           IN  \/ gap \cap seen = {}
               \/ gap \subseteq seen /\ gap \cap Kept(doc) = {n}
<1> DEFINE gap == (p + 1)..n
           B == Balances(doc)
           before(i) == {j \in B : j < i}
           next(i) == {j \in B : i <= j}
           hidden == n \in Lost(doc) \/ \E k \in Kept(doc) \ B : before(k) = {j \in B : j <= p}
<1>1. B \subseteq DOMAIN doc.rows /\ DOMAIN doc.rows \subseteq Nat /\ p \in B /\ n \in B
      /\ Kept(doc) \subseteq DOMAIN doc.rows /\ p < n /\ \A k \in B : ~(p < k /\ k < n)
    BY DEF Balances, Kept, Follows
<1>2. Unseen(doc) =
        {i \in DOMAIN doc.rows :
            \/ next(i) = {} \/ before(i) = {} \/ Min(next(i)) \in Lost(doc)
            \/ \E k \in Kept(doc) \ B : before(k) = before(i)}
    BY DEF Unseen
<1>3. gap \subseteq DOMAIN doc.rows /\ n \in gap /\ p \in Nat /\ n \in Nat
  <2>1. p \in DOMAIN doc.rows /\ n \in DOMAIN doc.rows
      BY <1>1
  <2> QED BY <1>1, <2>1
<1> HIDE DEF B
<1>4. ASSUME NEW i \in gap
      PROVE  /\ before(i) = {j \in B : j <= p} /\ before(i) # {}
             /\ next(i) # {} /\ Min(next(i)) = n
  <2>1. i \in Nat /\ p < i /\ i <= n
      BY <1>1, <1>3
  <2>2. before(i) = {j \in B : j <= p}
      BY <1>1, <1>3, <2>1
  <2>3. n \in next(i) /\ \A j \in next(i) : n <= j
      BY <1>1, <1>3, <2>1
  <2>4. next(i) \in SUBSET Nat
      BY <1>1
  <2>5. Min(next(i)) \in next(i) /\ Min(next(i)) <= n
    <3> HIDE DEF next
    <3> QED BY <2>3, <2>4, MinIsLeast
  <2>6. Min(next(i)) = n
    <3>1. Min(next(i)) \in Nat /\ n <= Min(next(i))
      <4> HIDE DEF next
      <4> QED BY <2>3, <2>4, <2>5
    <3> QED BY <1>3, <2>5, <3>1
  <2>7. p \in {j \in B : j <= p}
      BY <1>1, <1>3
  <2> QED BY <2>2, <2>3, <2>6, <2>7
<1>5. ASSUME NEW i \in gap PROVE i \in Unseen(doc) <=> hidden
  <2> HIDE DEF before, next
  <2> QED BY <1>2, <1>3, <1>4
<1>6. CASE hidden
    BY <1>5, <1>6
<1>7. CASE ~hidden
  <2>1. n \in Kept(doc)
      BY <1>1, <1>3, <1>7 DEF Lost
  <2>2. ASSUME NEW k \in gap, k \in Kept(doc) PROVE k = n
    <3>1. k \in B
        BY <1>4, <1>7, <2>2
    <3> QED BY <1>1, <1>3, <3>1
  <2>3. gap \cap Kept(doc) = {n}
      BY <1>3, <2>1, <2>2
  <2>4. gap \subseteq DOMAIN doc.rows \ Unseen(doc)
      BY <1>3, <1>5, <1>7
  <2> QED BY <2>3, <2>4
<1> QED BY <1>6, <1>7

LEMMA GapsAddUp ==
    ASSUME NEW spec, HasVerb(spec), NEW doc, IsDocument(doc), Chained(doc), ChainHolds(spec, doc),
           NEW p, NEW n, Follows(doc, p, n)
    PROVE  LET gap == (p + 1)..n
               seen == DOMAIN doc.rows \ Unseen(doc)
           IN  Total(spec, doc, Kept(doc) \cap seen \cap gap) = Moved(doc, seen \cap gap)
<1> DEFINE gap == (p + 1)..n
           seen == DOMAIN doc.rows \ Unseen(doc)
           K == Kept(doc)
<1>1. gap \cap seen = {} \/ (gap \subseteq seen /\ gap \cap K = {n})
    BY GapsAreWhole DEF IsDocument
<1>2. p \in Balances(doc) /\ n \in Balances(doc) /\ p < n /\ p \in DOMAIN doc.rows /\ n \in DOMAIN doc.rows
      /\ p \in Nat /\ n \in Nat /\ \A k \in Balances(doc) : ~(p < k /\ k < n)
    BY RowsAreNumbers DEF Follows
<1>3. seen \subseteq DOMAIN doc.rows
    OBVIOUS
<1> HIDE DEF seen
<1>4. CASE gap \cap seen = {}
  <2>1. K \cap seen \cap gap = {} /\ seen \cap gap = {}
      BY <1>4
  <2>2. Total(spec, doc, {}) = SumFunctionOnSet(Amounts(spec, doc), {})
        /\ Moved(doc, {}) = SumFunctionOnSet(Worths(doc), {})
      BY SumsOfRows
  <2>3. \A f : SumFunctionOnSet(f, {}) = 0
      BY FS_EmptySet, SumSplits
  <2> HIDE DEF gap, K
  <2> QED BY <2>1, <2>2, <2>3 DEF seen, gap, K
<1>5. CASE gap \subseteq seen /\ gap \cap K = {n}
  <2>1. K \cap seen \cap gap = {n} /\ seen \cap gap = gap /\ n \in K
      BY <1>5
  <2>2. doc.rows[n].balance = doc.rows[p].balance + Amount(spec, doc, n)
      BY <1>2, <2>1 DEF ChainHolds
  <2>3. doc.rows[n].balance = doc.rows[p].balance + Moved(doc, gap)
      BY <1>2 DEF IsDocument, Truthful, Balances
  <2>4. doc.rows[p].balance \in Int /\ doc.rows[n].balance \in Int
      BY <1>2 DEF IsDocument, Balances
  <2>5. Moved(doc, gap) \in Int
    <3>1. gap \in SUBSET (DOMAIN doc.rows)
        BY <1>3, <1>5
    <3> HIDE DEF gap
    <3> QED BY <3>1, SumsOfRows
  <2>6. Amount(spec, doc, n) = Amounts(spec, doc)[n] /\ Amounts(spec, doc)[n] \in Int
      BY <2>1, RowsAreNumbers DEF Amounts
  <2>7. Total(spec, doc, {n}) = Amount(spec, doc, n)
    <3>1. {n} \in SUBSET Kept(doc)
        BY <2>1
    <3>2. Total(spec, doc, {n}) = SumFunctionOnSet(Amounts(spec, doc), {n})
        BY <3>1, SumsOfRows
    <3>3. SumFunctionOnSet(Amounts(spec, doc), {n}) = Amounts(spec, doc)[n]
        BY <2>6, SumOfOne
    <3> QED BY <2>6, <3>2, <3>3
  <2> HIDE DEF gap, K
  <2>8. Amount(spec, doc, n) = Moved(doc, gap)
    <3>1. \A a, b, x, y \in Int : a = b + x /\ a = b + y => x = y
        OBVIOUS
    <3>2. \A x, y \in Int :
            (doc.rows[n].balance = doc.rows[p].balance + x /\ doc.rows[n].balance = doc.rows[p].balance + y) => x = y
        BY <2>4, <3>1
    <3> QED BY <2>2, <2>3, <2>5, <2>6, <3>2
  <2> QED BY <2>1, <2>7, <2>8 DEF seen, gap, K
<1> QED BY <1>1, <1>4, <1>5

\* Up to every balance, what was read of the rows that the chain sees is what they moved.
LEMMA ChainAddsUp ==
    ASSUME NEW spec, HasVerb(spec), NEW doc, IsDocument(doc), Chained(doc), ChainHolds(spec, doc),
           NEW m \in Balances(doc)
    PROVE  LET seen == DOMAIN doc.rows \ Unseen(doc)
           IN  Total(spec, doc, Kept(doc) \cap seen \cap (1..m)) = Moved(doc, seen \cap (1..m))
<1> DEFINE seen == DOMAIN doc.rows \ Unseen(doc)
           B == Balances(doc)
           K == Kept(doc)
           Good(n) == Total(spec, doc, K \cap seen \cap (1..n)) = Moved(doc, seen \cap (1..n))
           Bad == {n \in B : ~Good(n)}
<1>1. SUFFICES ASSUME Bad # {} PROVE FALSE
    OBVIOUS
<1>2. B \subseteq Nat \ {0} /\ B \subseteq DOMAIN doc.rows /\ seen \subseteq DOMAIN doc.rows /\ K \subseteq DOMAIN doc.rows
      /\ DOMAIN doc.rows \subseteq Nat
    BY RowsAreNumbers
<1>3. PICK n \in Bad : \A k \in Bad : n <= k
  <2>1. Bad \in SUBSET Nat
      BY <1>2
  <2> HIDE DEF Bad
  <2> QED BY <1>1, <2>1, LeastExists
<1>4. n \in B /\ ~Good(n) /\ n \in Nat
    BY <1>2, <1>3
<1>5. \A i \in seen : \E j \in B : j < i
    BY DEF Unseen
<1> DEFINE T == {j \in B : j < n}
<1>6. CASE T = {}
  <2>1. ASSUME NEW i \in seen, i \in 1..n PROVE FALSE
    <3>1. PICK j \in B : j < i
        BY <1>5
    <3>2. j < n
        BY <1>2, <1>4, <2>1, <3>1
    <3> QED BY <1>6, <3>1, <3>2
  <2>2. K \cap seen \cap (1..n) = {} /\ seen \cap (1..n) = {}
      BY <2>1
  <2>3. Total(spec, doc, {}) = SumFunctionOnSet(Amounts(spec, doc), {})
        /\ Moved(doc, {}) = SumFunctionOnSet(Worths(doc), {})
      BY SumsOfRows
  <2>4. \A f : SumFunctionOnSet(f, {}) = 0
      BY FS_EmptySet, SumSplits
  <2> HIDE DEF seen, K, B
  <2> QED BY <1>4, <2>2, <2>3, <2>4
<1>7. CASE T # {}
  <2>1. T \in SUBSET (0..n) /\ T \subseteq Nat
      BY <1>2, <1>4
  <2>2. PICK p \in T : \A k \in T : k <= p
    <3> HIDE DEF T
    <3> QED BY <1>4, <1>7, <2>1, GreatestExists
  <2>3. p \in B /\ p < n /\ p \in Nat
      BY <2>1
  <2>4. Follows(doc, p, n)
      BY <1>2, <1>4, <2>2, <2>3 DEF Follows
  <2>5. Good(p)
    <3>1. p \notin Bad
        BY <1>3, <1>4, <2>3
    <3> QED BY <2>3, <3>1
  <2> DEFINE gap == (p + 1)..n
  <2>6. Total(spec, doc, K \cap seen \cap gap) = Moved(doc, seen \cap gap)
      BY <2>4, GapsAddUp
  <2>7. 1..n = (1..p) \cup gap /\ (1..p) \cap gap = {}
      BY <1>4, <2>3
  <2> HIDE DEF gap, seen, K, B, Bad, T
  <2>8. ASSUME NEW S, S \subseteq seen PROVE S \in SUBSET (DOMAIN doc.rows) /\ IsFiniteSet(S)
      BY <1>2, <2>8, SumsOfRows
  <2>9. Moved(doc, seen \cap (1..n)) = Moved(doc, seen \cap (1..p)) + Moved(doc, seen \cap gap)
    <3> DEFINE X == seen \cap (1..p)
               Y == seen \cap gap
    <3>1. seen \cap (1..n) = X \cup Y /\ X \cap Y = {} /\ X \subseteq seen /\ Y \subseteq seen /\ X \cup Y \subseteq seen
        BY <2>7
    <3> HIDE DEF X, Y
    <3>2. SumFunctionOnSet(Worths(doc), X \cup Y) = SumFunctionOnSet(Worths(doc), X) + SumFunctionOnSet(Worths(doc), Y)
      <4>1. \A i \in X \cup Y : Worths(doc)[i] \in Int
          BY <1>2, <3>1, RowsAreNumbers
      <4> QED BY <2>8, <3>1, <4>1, SumUnion
    <3>3. \A S : S \subseteq seen => Moved(doc, S) = SumFunctionOnSet(Worths(doc), S)
        BY <2>8, SumsOfRows
    <3> QED BY <3>1, <3>2, <3>3 DEF X, Y
  <2>10. Total(spec, doc, K \cap seen \cap (1..n))
            = Total(spec, doc, K \cap seen \cap (1..p)) + Total(spec, doc, K \cap seen \cap gap)
    <3> DEFINE X == K \cap seen \cap (1..p)
               Y == K \cap seen \cap gap
    <3>1. K \cap seen \cap (1..n) = X \cup Y /\ X \cap Y = {} /\ X \subseteq K /\ Y \subseteq K /\ X \cup Y \subseteq K
          /\ X \subseteq seen /\ Y \subseteq seen
        BY <2>7
    <3> HIDE DEF X, Y
    <3>2. SumFunctionOnSet(Amounts(spec, doc), X \cup Y)
            = SumFunctionOnSet(Amounts(spec, doc), X) + SumFunctionOnSet(Amounts(spec, doc), Y)
      <4>1. \A i \in X \cup Y : Amounts(spec, doc)[i] \in Int
          BY <3>1, RowsAreNumbers DEF K
      <4> QED BY <2>8, <3>1, <4>1, SumUnion
    <3>3. \A S : S \subseteq K => Total(spec, doc, S) = SumFunctionOnSet(Amounts(spec, doc), S)
        BY SumsOfRows DEF K
    <3>4. Total(spec, doc, X \cup Y) = Total(spec, doc, X) + Total(spec, doc, Y)
        BY <3>1, <3>2, <3>3
    <3> QED BY <3>1, <3>4, Zenon DEF X, Y
  <2> QED BY <1>4, <2>5, <2>6, <2>9, <2>10
<1> QED BY <1>6, <1>7

\* A source that is verified accounts for what its rows moved.
LEMMA VerifiedAccounts ==
    ASSUME NEW spec, HasVerb(spec), NEW doc, IsDocument(doc), Strength(spec, doc) = "verified"
    PROVE  Total(spec, doc, Kept(doc) \ Unseen(doc)) = Moved(doc, DOMAIN doc.rows \ Unseen(doc))
<1>1. /\ ControlTotal(spec, doc) # "fail" /\ RollForward(spec, doc) # "fail"
      /\ ControlTotal(spec, doc) = "pass" \/ RollForward(spec, doc) = "pass"
    BY DEF Strength
<1>2. SumOfKept(spec, doc) = Total(spec, doc, Kept(doc))
    BY DEF SumOfKept, Total
<1> DEFINE K == Kept(doc)
           D == DOMAIN doc.rows
<1>3. K \subseteq D /\ Moved(doc, D) \in Int /\ Total(spec, doc, K) \in Int
    BY RowsAreNumbers, SumsOfRows
<1>4. CASE ~Chained(doc)
  <2>1. Unseen(doc) = {}
      BY <1>4 DEF Unseen
  <2>2. Total(spec, doc, K) = Moved(doc, D)
    <3>1. CASE ControlTotal(spec, doc) = "pass"
      <4>1. doc.total # NoFigure /\ doc.total = Total(spec, doc, K)
          BY <1>2, <3>1 DEF ControlTotal, Outcome
      <4>2. doc.total # NoFigure => doc.total = Moved(doc, D)
          BY DEF IsDocument, Truthful
      <4> QED BY <4>1, <4>2
    <3>2. CASE RollForward(spec, doc) = "pass"
      <4>1. doc.opening # NoFigure /\ doc.closing # NoFigure /\ doc.closing = doc.opening + Total(spec, doc, K)
          BY <1>2, <1>4, <3>2 DEF RollForward, Outcome
      <4>2. doc.closing = doc.opening + Moved(doc, D) /\ doc.closing \in Int /\ doc.opening \in Int
          BY <4>1 DEF IsDocument, Truthful
      <4>3. \A a, b, c, d \in Int : a = b + c /\ a = b + d => c = d
          OBVIOUS
      <4>4. Total(spec, doc, K) \in Int /\ Moved(doc, D) \in Int
          BY <1>3
      <4>5. \A x, y \in Int : doc.closing = doc.opening + x /\ doc.closing = doc.opening + y => x = y
          BY <4>2, <4>3
      <4>6. doc.closing = doc.opening + Total(spec, doc, K)
          BY <4>1
      <4>7. doc.closing = doc.opening + Moved(doc, D)
          BY <4>2
      <4> HIDE DEF K, D
      <4> QED BY <4>4, <4>5, <4>6, <4>7
    <3> QED BY <1>1, <3>1, <3>2
  <2>3. K \ {} = K /\ D \ {} = D
      OBVIOUS
  <2> HIDE DEF K, D
  <2> QED BY <2>1, <2>2, <2>3 DEF K, D
<1>5. CASE Chained(doc)
  <2>1. ChainHolds(spec, doc)
      BY <1>1, <1>5 DEF RollForward, Outcome
  <2> DEFINE B == Balances(doc)
             seen == D \ Unseen(doc)
  <2>2. B # {} /\ B \in SUBSET (0..Len(doc.rows)) /\ Len(doc.rows) \in Nat /\ B \subseteq Nat
    <3>1. B # {}
        BY <1>5, FS_EmptySet DEF Chained
    <3> QED BY <3>1, RowsAreNumbers DEF IsDocument
  <2>3. PICK m \in B : \A k \in B : k <= m
    <3> HIDE DEF B
    <3> QED BY <2>2, GreatestExists
  <2>4. Total(spec, doc, K \cap seen \cap (1..m)) = Moved(doc, seen \cap (1..m))
      BY <1>5, <2>1, ChainAddsUp
  <2>5. ASSUME NEW i \in seen PROVE i \in 1..m
    <3>1. PICK j \in B : i <= j
        BY <1>5 DEF Unseen
    <3>2. i \in Nat \ {0} /\ j \in Nat /\ m \in Nat /\ j <= m
        BY <2>2, <2>3, <3>1, RowsAreNumbers
    <3> QED BY <3>1, <3>2
  <2>6. seen \cap (1..m) = seen /\ K \cap seen \cap (1..m) = K \ Unseen(doc)
      BY <1>3, <2>5
  <2> HIDE DEF K, seen
  <2>7. Total(spec, doc, K \ Unseen(doc)) = Moved(doc, seen)
      BY <2>4, <2>6
  <2> QED BY <2>7 DEF K, seen
<1> QED BY <1>4, <1>5

LEMMA FilesAreDocuments ==
    ASSUME NEW scene \in Scenes, NEW fs, NEW n, FromScene(fs, scene, n), NEW side \in Sides,
           Truthful(fs[side])
    PROVE  IsDocument(fs[side])
<1> DEFINE doc == fs[side]
<1>1. doc.rows \in Seq(RowsOf(scene, side)) /\ \A f \in Fields : doc[f] = scene.files[side][f]
    BY DEF FromScene
<1>2. doc.opening = scene.files[side].opening /\ doc.closing = scene.files[side].closing
      /\ doc.total = scene.files[side].total
    BY <1>1 DEF Fields
<1>3. Len(doc.rows) \in Nat /\ DOMAIN doc.rows = 1..Len(doc.rows)
      /\ \A i \in DOMAIN doc.rows : doc.rows[i] \in RowsOf(scene, side)
    BY <1>1
<1>4. {doc.opening, doc.closing, doc.total} \subseteq Int \cup {NoFigure}
    BY <1>2, FiguresAreTrue
<1>5. \A row \in RowsOf(scene, side) :
        row.worth \in Int /\ row.balance \in Int \cup {NoFigure} /\ row.cell \in Int \cup {Unread}
    BY FiguresAreTrue, FilesAreRows
<1> QED BY <1>3, <1>4, <1>5 DEF IsDocument

\* The same rows in another order moved the same.
LEMMA ReorderedIsTruthful ==
    ASSUME NEW doc, IsDocument(doc), NEW p \in Bijection(DOMAIN doc.rows, DOMAIN doc.rows),
           \A i \in DOMAIN doc.rows : doc.rows[i].balance = NoFigure,
           NEW new, new.rows = [i \in DOMAIN doc.rows |-> doc.rows[p[i]]],
           new.opening = doc.opening, new.closing = doc.closing, new.total = doc.total
    PROVE  Truthful(new)
<1> DEFINE D == DOMAIN doc.rows
           f == [i \in D |-> new.rows[i].worth]
<1>0. p \in Bijection(D, D)
    OBVIOUS
<1>1. DOMAIN new.rows = D /\ \A i \in D : p[i] \in D /\ new.rows[i] = doc.rows[p[i]]
    BY DEF Bijection, Injection
<1>2. IsFiniteSet(D) /\ \A i \in D : doc.rows[i].worth \in Int /\ Worths(doc)[i] = doc.rows[i].worth
  <2>1. D = 1..Len(doc.rows) /\ Len(doc.rows) \in Nat
      BY DEF IsDocument
  <2>2. IsFiniteSet(1..Len(doc.rows))
      BY <2>1, FS_Interval
  <2> QED BY <2>1, <2>2 DEF IsDocument, Worths
<1>3. \A i \in D : f[i] = new.rows[i].worth /\ f[i] \in Int /\ Worths(doc)[p[i]] = f[i]
    BY <1>1, <1>2
<1> HIDE DEF f
<1> HIDE DEF D
<1>4. Moved(new, D) = SumFunctionOnSet(f, D)
  <2>1. \A i \in D : f[i] = new.rows[i].worth /\ f[i] \in Int
      BY <1>3
  <2>2. ASSUME NEW d, \A i \in D : f[i] = d.rows[i].worth /\ f[i] \in Int
        PROVE  Moved(d, D) = SumFunctionOnSet(f, D)
      BY <1>2, <2>2, MovedIs
  <2> QED BY <2>1, <2>2, Zenon
<1>5. Moved(doc, D) = SumFunctionOnSet(Worths(doc), D)
    BY <1>2, MovedIs
<1>6. SumFunctionOnSet(f, D) = SumFunctionOnSet(Worths(doc), D)
  <2>1. \A i \in D : f[i] \in Int /\ Worths(doc)[p[i]] = f[i]
      BY <1>3
  <2> QED BY <1>0, <1>2, <2>1, SumsAgree
<1>7. Moved(new, DOMAIN new.rows) = Moved(doc, D)
    BY <1>1, <1>4, <1>5, <1>6
<1>8. {k \in DOMAIN new.rows : new.rows[k].balance # NoFigure} = {}
    BY <1>1
<1>9. /\ NoFigure \notin {doc.opening, doc.closing} => doc.closing = doc.opening + Moved(doc, D)
      /\ doc.total # NoFigure => doc.total = Moved(doc, D)
    BY DEF IsDocument, Truthful, D
<1> QED BY <1>7, <1>8, <1>9 DEF Truthful

\* A row without a balance, in a file without totals, leaves every figure true.
LEMMA ExtendedIsTruthful ==
    ASSUME NEW doc, IsDocument(doc), StatesNothing(doc), NEW row, row.balance = NoFigure,
           NEW S, doc.rows \in Seq(S), row \in S,
           NEW new, new.rows = Append(doc.rows, row),
           new.opening = doc.opening, new.closing = doc.closing, new.total = doc.total
    PROVE  Truthful(new)
<1> DEFINE n == Len(doc.rows)
           D == DOMAIN doc.rows
           Stating(d) == {k \in DOMAIN d.rows : d.rows[k].balance # NoFigure}
<1>1. n \in Nat /\ D = 1..n /\ DOMAIN new.rows = 1..(n + 1)
      /\ new.rows[n + 1] = row /\ \A i \in D : new.rows[i] = doc.rows[i]
    OBVIOUS
<1>2. Stating(new) = Stating(doc)
  <2>1. \A i : i \in 1..(n + 1) <=> (i \in 1..n \/ i = n + 1)
      BY <1>1
  <2> HIDE DEF n
  <2> QED BY <1>1, <2>1
<1>3. ASSUME NEW i \in Stating(doc), NEW j \in Stating(doc), i < j
      PROVE  new.rows[j].balance = new.rows[i].balance + Moved(new, (i + 1)..j)
  <2> DEFINE gap == (i + 1)..j
  <2>1. i \in D /\ j \in D /\ i \in Nat /\ j \in Nat /\ j <= n
      BY <1>1
  <2>2. gap \subseteq D
      BY <1>1, <2>1
  <2>3. IsFiniteSet(gap)
      BY <2>1, FS_Interval
  <2>4. \A k \in gap : /\ Worths(doc)[k] = doc.rows[k].worth /\ Worths(doc)[k] = new.rows[k].worth
                       /\ Worths(doc)[k] \in Int
      BY <1>1, <2>2 DEF IsDocument, Worths
  <2>5. doc.rows[j].balance = doc.rows[i].balance + Moved(doc, gap)
      BY <1>3 DEF IsDocument, Truthful
  <2> HIDE DEF gap
  <2>6. Moved(doc, gap) = SumFunctionOnSet(Worths(doc), gap)
      BY <2>3, <2>4, MovedIs
  <2>7. Moved(new, gap) = SumFunctionOnSet(Worths(doc), gap)
      BY <2>3, <2>4, MovedIs
  <2>8. Moved(new, gap) = Moved(doc, gap)
      BY <2>6, <2>7
  <2> QED BY <1>1, <2>1, <2>5, <2>8 DEF gap
<1>4. new.opening = NoFigure /\ new.total = NoFigure
    BY DEF StatesNothing
<1>5. \A i, j \in Stating(new) : i < j => new.rows[j].balance = new.rows[i].balance + Moved(new, (i + 1)..j)
    BY <1>2, <1>3
<1> QED BY <1>4, <1>5 DEF Truthful

FiguresInv == \A side \in Sides : HasVerb(specs[side]) /\ IsDocument(files[side])

LEMMA FiguresBegin == BreaksInit => FiguresInv
<1> SUFFICES ASSUME BreaksInit, NEW side \in Sides PROVE HasVerb(specs[side]) /\ IsDocument(files[side])
    BY DEF FiguresInv
<1>1. PICK scene \in Scenes : specs = scene.specs /\ files = scene.files
    BY DEF BreaksInit
<1>2. PICK s \in Scenes : specs = s.specs /\ FromScene(files, s, exports)
    BY BreaksBegin DEF BreaksInv
<1>3. Truthful(files[side]) /\ HasVerb(specs[side])
    BY <1>1, FiguresAreTrue, FilesAreRows DEF HasVerb
<1> QED BY <1>2, <1>3, FilesAreDocuments

LEMMA FiguresSteps == BreaksInv /\ FiguresInv /\ [BreaksNext]_breaksVars => FiguresInv'
<1> SUFFICES ASSUME BreaksInv, FiguresInv, [BreaksNext]_breaksVars PROVE FiguresInv'
    OBVIOUS
<1>0. BreaksInv'
    BY BreaksSteps
<1>1. PICK scene \in Scenes : specs = scene.specs /\ FromScene(files, scene, exports)
    BY DEF BreaksInv
<1>2. ASSUME NEW s \in Sides, files'[s] = files[s], specs' = specs
      PROVE  HasVerb(specs'[s]) /\ IsDocument(files'[s])
    BY <1>2 DEF FiguresInv
<1>3. ASSUME NEW s \in Sides, Truthful(files'[s]), specs' = specs PROVE HasVerb(specs'[s]) /\ IsDocument(files'[s])
  <2>1. PICK t \in Scenes : FromScene(files', t, exports')
      BY <1>0 DEF BreaksInv, FromScene
  <2> QED BY <1>3, <2>1, FilesAreDocuments DEF FiguresInv
<1>4. CASE UNCHANGED breaksVars \/ Close
  <2>1. files' = files /\ specs' = specs
      BY <1>4 DEF breaksVars, Close
  <2>2. \A s \in Sides : HasVerb(specs'[s]) /\ IsDocument(files'[s])
      BY <1>2, <2>1
  <2> QED BY <2>2 DEF FiguresInv, IsDocument, Truthful, Moved, HasVerb, MapThenSumSet, MapThenFoldSet
<1>5. ASSUME NEW side \in Sides, NEW rows, files' = [files EXCEPT ![side].rows = rows], specs' = specs,
             Truthful([files[side] EXCEPT !.rows = rows])
      PROVE  FiguresInv'
  <2>1. DOMAIN files = Sides
      BY <1>1 DEF FromScene
  <2>2. files'[side] = [files[side] EXCEPT !.rows = rows]
      BY <1>5, <2>1
  <2>3. \A s \in Sides : s # side => files'[s] = files[s]
      BY <1>5, <2>1
  <2>4. \A s \in Sides : HasVerb(specs'[s]) /\ IsDocument(files'[s])
      BY <1>2, <1>3, <1>5, <2>2, <2>3
  <2> QED BY <2>4 DEF FiguresInv, IsDocument, Truthful, Moved, HasVerb, MapThenSumSet, MapThenFoldSet
<1>6. ASSUME NEW side \in Sides, NEW p \in Bijection(DOMAIN files[side].rows, DOMAIN files[side].rows),
             Reorder(side, p)
      PROVE  FiguresInv'
  <2> DEFINE doc == files[side]
             rows == [i \in DOMAIN doc.rows |-> doc.rows[p[i]]]
             new == [doc EXCEPT !.rows = rows]
  <2>1. files' = [files EXCEPT ![side].rows = rows] /\ specs' = specs
        /\ \A i \in DOMAIN doc.rows : doc.rows[i].balance = NoFigure
      BY <1>6 DEF Reorder
  <2>2. "rows" \in DOMAIN doc /\ IsDocument(doc)
      BY <1>1 DEF FromScene, FiguresInv
  <2>3. new.rows = rows /\ new.opening = doc.opening /\ new.closing = doc.closing /\ new.total = doc.total
      BY <1>1, <2>2 DEF FromScene, Fields
  <2>4. Truthful(new)
    <3> HIDE DEF new
    <3> QED BY <2>1, <2>2, <2>3, ReorderedIsTruthful
  <2> QED BY <1>5, <2>1, <2>4
<1>7. ASSUME NEW side \in Sides, NEW row \in Strangers, Extend(side, row)
      PROVE  FiguresInv'
  <2> DEFINE doc == files[side]
             rows == Append(doc.rows, row)
             new == [doc EXCEPT !.rows = rows]
             S == RowsOf(scene, side)
  <2>1. files' = [files EXCEPT ![side].rows = rows] /\ specs' = specs /\ StatesNothing(doc)
      BY <1>7 DEF Extend
  <2>2. "rows" \in DOMAIN doc /\ IsDocument(doc) /\ doc.rows \in Seq(S)
      BY <1>1 DEF FromScene, FiguresInv
  <2>3. new.rows = rows /\ new.opening = doc.opening /\ new.closing = doc.closing /\ new.total = doc.total
      BY <1>1, <2>2 DEF FromScene, Fields
  <2>4. row \in S /\ row.balance = NoFigure
      BY FiguresAreTrue DEF RowsOf
  <2>5. Truthful(new)
    <3> HIDE DEF new, S
    <3> QED BY <2>1, <2>2, <2>3, <2>4, ExtendedIsTruthful
  <2> QED BY <1>5, <2>1, <2>5
<1> QED BY <1>4, <1>6, <1>7 DEF BreaksNext

LEMMA FiguresHold == BreaksSpec => []FiguresInv
BY BreaksHold, FiguresBegin, FiguresSteps, PTL DEF BreaksSpec

\* A source that is verified accounts for all the money of its file, but where a running
\* balance cannot see (prove, _control_total, _roll_forward).
THEOREM VerifiedSourcesAddUp == BreaksSpec => []VerifiedMissesNothing
<1>1. FiguresInv => VerifiedMissesNothing
  <2> SUFFICES ASSUME FiguresInv, NEW side \in Sides, Intaken(files, side).strength = "verified"
               PROVE  Total(specs[side], files[side], Kept(files[side]) \ Unseen(files[side]))
                        = Moved(files[side], DOMAIN files[side].rows \ Unseen(files[side]))
      BY DEF VerifiedMissesNothing, Total
  <2>1. HasVerb(specs[side]) /\ IsDocument(files[side])
      BY DEF FiguresInv
  <2>2. Strength(specs[side], files[side]) = "verified"
      BY DEF Intaken, Ingest
  <2> QED BY <2>1, <2>2, VerifiedAccounts
<1> QED BY <1>1, FiguresHold, PTL
-----------------------------------------------------------------------------
(* One list of leftovers in another: what is said of a row is said of its image. *)

ImageOf(f, S) == {f[x] : x \in S}

LEMMA ImageSize ==
    ASSUME NEW S, IsFiniteSet(S), NEW f, \A x, y \in S : f[x] = f[y] => x = y
    PROVE  IsFiniteSet(ImageOf(f, S)) /\ Cardinality(ImageOf(f, S)) = Cardinality(S)
<1> DEFINE b == [x \in S |-> f[x]]
           T == ImageOf(f, S)
<1>1. b \in Bijection(S, T)
    BY DEF ImageOf, Bijection, Injection, Surjection, IsInjective
<1>2. ExistsBijection(S, T)
    BY <1>1 DEF ExistsBijection
<1> HIDE DEF T
<1> QED BY <1>2, FS_Bijection DEF T

LeftRows(left) == left.anchors \cup UNION left.groups

\* The same record but for its place in the file.
Like(r, t) ==
    /\ t.side = r.side /\ t.keys = r.keys /\ t.date = r.date
    /\ t.amount = r.amount /\ t.places = r.places /\ t.id.key = r.id.key

LEMMA AlikeDiffer ==
    ASSUME NEW r, NEW t, Like(r, t), NEW c, NEW d, Like(c, d)
    PROVE  /\ Differs(t, d) = Differs(r, c) /\ Agreement(t, d) = Agreement(r, c)
           /\ OnePartAway(t, d) = OnePartAway(r, c) /\ Reads(t, d) = Reads(r, c)
<1>1. ASSUME NEW p PROVE Value(t, p) = Value(r, p) /\ Value(d, p) = Value(c, p)
  <2>1. CASE p = "amount"
      BY <2>1 DEF Value, Like
  <2>2. CASE p = "date"
      BY <2>2 DEF Value, Like
  <2>3. CASE p # "amount" /\ p # "date"
      BY <2>3 DEF Value, Like
  <2> QED BY <2>1, <2>2, <2>3
<1>2. Differs(t, d) = Differs(r, c)
    BY <1>1 DEF Differs
<1> QED BY <1>2 DEF Agreement, OnePartAway, Reads

\* The rows of one list of leftovers among those of another: everything that is said of
\* a row is said of its image.
Carries(f, left, new) ==
    /\ f \in [LeftRows(left) -> LeftRows(new)]
    /\ \A r, s \in LeftRows(left) : f[r] = f[s] => r = s
    /\ \A r \in LeftRows(left) : Like(r, f[r])
    /\ \A r \in left.anchors : f[r] \in new.anchors
    /\ \A g \in left.groups : ImageOf(f, g) \in new.groups
    /\ \A r \in LeftRows(left) :
        /\ Others(r, left) = {} <=> Others(f[r], new) = {}
        /\ Candidates(f[r], Others(f[r], new)) = ImageOf(f, Candidates(r, Others(r, left)))
        /\ Shown(f[r], Others(f[r], new)) = ImageOf(f, Shown(r, Others(r, left)))
        /\ Candidates(r, Others(r, left)) # {} => Closest(f[r], Others(f[r], new)) = f[Closest(r, Others(r, left))]

LEMMA RowsOfLeft ==
    ASSUME NEW left, IsLeft(left)
    PROVE  /\ IsFiniteSet(LeftRows(left)) /\ Singles(left) \subseteq LeftRows(left)
           /\ \A r : Others(r, left) \subseteq LeftRows(left) /\ IsFiniteSet(Others(r, left))
           /\ \A r \in LeftRows(left) : r \in left.anchors <=> r.side = Anchors
           /\ \A r \in LeftRows(left) : \E side, other \in Sides :
                IsRecord(r, side) /\ \A c \in Others(r, left) : IsRecord(c, other)
           /\ \A g \in left.groups : IsFiniteSet(g) /\ g \subseteq LeftRows(left)
<1>1. IsFiniteSet(LeftRows(left))
    BY FS_Union DEF IsLeft, LeftRows
<1>2. \A r \in LeftRows(left) : r \in left.anchors <=> r.side = Anchors
    BY BreaksAssumption DEF IsLeft, LeftRows, IsRecord
<1>3. \A r \in LeftRows(left) : \E side, other \in Sides :
        IsRecord(r, side) /\ \A c \in Others(r, left) : IsRecord(c, other)
  <2> TAKE r \in LeftRows(left)
  <2>1. CASE r \in left.anchors
    <3>1. IsRecord(r, Anchors) /\ Others(r, left) = UNION left.groups
        BY <2>1 DEF IsLeft, IsRecord, Others
    <3> QED BY <3>1 DEF IsLeft, Sides
  <2>2. CASE r \in UNION left.groups
    <3>1. IsRecord(r, Groups) /\ Others(r, left) = left.anchors
        BY <2>2, BreaksAssumption DEF IsLeft, IsRecord, Others
    <3> QED BY <3>1 DEF IsLeft, Sides
  <2> QED BY <2>1, <2>2 DEF LeftRows
<1>4. \A r : Others(r, left) \subseteq LeftRows(left) /\ IsFiniteSet(Others(r, left))
    BY DEF IsLeft, Others, LeftRows
<1>5. Singles(left) \subseteq LeftRows(left)
    BY DEF Singles, LeftRows
<1>6. ASSUME NEW g \in left.groups PROVE IsFiniteSet(g) /\ g \subseteq LeftRows(left)
  <2>1. g \in SUBSET UNION left.groups
      OBVIOUS
  <2> QED BY <2>1, FS_Subset DEF IsLeft, LeftRows
<1> QED BY <1>1, <1>2, <1>3, <1>4, <1>5, <1>6

\* The closest candidate is one of the others.
LEMMA ClosestOfLeft ==
    ASSUME NEW left, IsLeft(left), NEW r \in LeftRows(left), Candidates(r, Others(r, left)) # {}
    PROVE  /\ Closest(r, Others(r, left)) \in Shown(r, Others(r, left))
           /\ Closest(r, Others(r, left)) \in LeftRows(left)
           /\ \A d \in Shown(r, Others(r, left)) : ~Closer(r, d, Closest(r, Others(r, left)))
<1>1. PICK side, other \in Sides : IsRecord(r, side) /\ \A c \in Others(r, left) : IsRecord(c, other)
    BY RowsOfLeft
<1>2. IsFiniteSet(Others(r, left)) /\ Others(r, left) \subseteq LeftRows(left)
    BY RowsOfLeft
<1> DEFINE others == Others(r, left)
<1> HIDE DEF others
<1>3. /\ Closest(r, others) \in Shown(r, others) /\ Closest(r, others) \in others
      /\ \A d \in Shown(r, others) : ~Closer(r, d, Closest(r, others))
    BY <1>1, <1>2, ClosestIsShown DEF others
<1> QED BY <1>2, <1>3 DEF others

LEMMA ReadingCarried ==
    ASSUME NEW left, IsLeft(left), NEW new, NEW f, Carries(f, left, new), NEW r \in LeftRows(left)
    PROVE  Reading(f[r], Others(f[r], new)) = Reading(r, Others(r, left))
<1> DEFINE o == Others(r, left)
           n == Others(f[r], new)
           rivals == {c \in Shown(r, o) : OnePartAway(r, c) /\ Reads(r, c) # Undeclared}
           rivals2 == {c \in Shown(f[r], n) : OnePartAway(f[r], c) /\ Reads(f[r], c) # Undeclared}
<1>1. /\ Like(r, f[r]) /\ (o = {} <=> n = {})
      /\ Candidates(f[r], n) = ImageOf(f, Candidates(r, o))
      /\ Shown(f[r], n) = ImageOf(f, Shown(r, o))
      /\ Candidates(r, o) # {} => Closest(f[r], n) = f[Closest(r, o)]
    BY DEF Carries
<1>2. o \subseteq LeftRows(left) /\ Shown(r, o) \subseteq o /\ Candidates(r, o) \subseteq o
    BY RowsOfLeft DEF Shown, Candidates
<1>3. ASSUME NEW c \in LeftRows(left)
      PROVE  OnePartAway(f[r], f[c]) = OnePartAway(r, c) /\ Reads(f[r], f[c]) = Reads(r, c)
  <2>1. Like(c, f[c])
      BY DEF Carries
  <2> QED BY <1>1, <2>1, AlikeDiffer
<1>4. {Reads(f[r], c) : c \in rivals2} = {Reads(r, c) : c \in rivals}
  <2> HIDE DEF o, n
  <2>1. rivals2 = ImageOf(f, rivals)
      BY <1>1, <1>2, <1>3 DEF ImageOf
  <2>2. rivals \subseteq LeftRows(left)
      BY <1>2
  <2> HIDE DEF rivals, rivals2
  <2> QED BY <1>3, <2>1, <2>2 DEF ImageOf
<1>5. Candidates(f[r], n) = {} <=> Candidates(r, o) = {}
    BY <1>1 DEF ImageOf
<1>6. Candidates(r, o) # {} => /\ OnePartAway(f[r], Closest(f[r], n)) = OnePartAway(r, Closest(r, o))
                               /\ Reads(f[r], Closest(f[r], n)) = Reads(r, Closest(r, o))
    BY <1>1, <1>3, ClosestOfLeft
<1>7. Diagnosis(r, o) =
        IF Candidates(r, o) = {} \/ ~OnePartAway(r, Closest(r, o)) THEN ByAbsence[r.side]
        ELSE IF Reads(r, Closest(r, o)) = Undeclared THEN {} ELSE {Reads(r, c) : c \in rivals}
    BY DEF Diagnosis
<1>8. Diagnosis(f[r], n) =
        IF Candidates(f[r], n) = {} \/ ~OnePartAway(f[r], Closest(f[r], n)) THEN ByAbsence[f[r].side]
        ELSE IF Reads(f[r], Closest(f[r], n)) = Undeclared THEN {} ELSE {Reads(f[r], c) : c \in rivals2}
    BY DEF Diagnosis
<1>9. f[r].side = r.side
    BY <1>1 DEF Like
<1> HIDE DEF o, n, rivals, rivals2
<1>10. Diagnosis(f[r], n) = Diagnosis(r, o)
    BY <1>4, <1>5, <1>6, <1>7, <1>8, <1>9
<1>11. Reading(f[r], n) = Reading(r, o)
  <2> DEFINE From(set) == [code |-> IF Cardinality(set) = 1 THEN CHOOSE c \in set : TRUE ELSE Unexplained,
                             derived |-> Cardinality(set) = 1,
                             ambiguous |-> IF Cardinality(set) = 1 THEN {} ELSE set]
             said(x, others) == IF others = {} THEN {} ELSE Diagnosis(x, others)
  <2>1. Reading(r, o) = From(said(r, o)) /\ Reading(f[r], n) = From(said(f[r], n))
      BY DEF Reading
  <2> HIDE DEF From
  <2>2. said(f[r], n) = said(r, o)
      BY <1>1, <1>10
  <2> HIDE DEF said
  <2> QED BY <2>1, <2>2
<1> QED BY <1>11 DEF o, n

LEMMA CounterpartCarried ==
    ASSUME NEW left, IsLeft(left), NEW new, NEW f, Carries(f, left, new), NEW r \in LeftRows(left)
    PROVE  Counterpart(f[r], new) = ImageOf(f, Counterpart(r, left)) /\ Counterpart(r, left) \subseteq LeftRows(left)
<1> DEFINE o == Others(r, left)
           n == Others(f[r], new)
<1>1. /\ Like(r, f[r])
      /\ Candidates(f[r], n) = ImageOf(f, Candidates(r, o))
      /\ Candidates(r, o) # {} => Closest(f[r], n) = f[Closest(r, o)]
    BY DEF Carries
<1>2. Candidates(f[r], n) = {} <=> Candidates(r, o) = {}
    BY <1>1 DEF ImageOf
<1>3. ASSUME Candidates(r, o) # {}
      PROVE  /\ OnePartAway(f[r], Closest(f[r], n)) = OnePartAway(r, Closest(r, o))
             /\ Closest(r, o) \in LeftRows(left)
  <2>1. Closest(r, o) \in LeftRows(left)
      BY <1>3, ClosestOfLeft
  <2>2. Like(Closest(r, o), f[Closest(r, o)])
      BY <2>1 DEF Carries
  <2> QED BY <1>1, <1>3, <2>1, <2>2, AlikeDiffer
<1>4. Counterpart(r, left) = IF Candidates(r, o) # {} /\ OnePartAway(r, Closest(r, o)) THEN {Closest(r, o)} ELSE {}
    BY DEF Counterpart
<1>5. Counterpart(f[r], new) =
        IF Candidates(f[r], n) # {} /\ OnePartAway(f[r], Closest(f[r], n)) THEN {Closest(f[r], n)} ELSE {}
    BY DEF Counterpart
<1> HIDE DEF o, n
<1> QED BY <1>1, <1>2, <1>3, <1>4, <1>5 DEF ImageOf

LEMMA SinglesCarried ==
    ASSUME NEW left, IsLeft(left), NEW new, IsLeft(new), NEW f, Carries(f, left, new), NEW r \in LeftRows(left)
    PROVE  f[r] \in Singles(new) <=> r \in Singles(left)
<1>1. ASSUME NEW g \in left.groups, r \in g
      PROVE  /\ ImageOf(f, g) \in new.groups /\ f[r] \in ImageOf(f, g)
             /\ Cardinality(ImageOf(f, g)) = Cardinality(g)
             /\ f[r] \notin new.anchors /\ r \notin left.anchors
  <2>1. IsFiniteSet(g) /\ g \subseteq LeftRows(left)
      BY RowsOfLeft
  <2>2. \A x, y \in g : f[x] = f[y] => x = y
      BY <2>1 DEF Carries
  <2>3. Cardinality(ImageOf(f, g)) = Cardinality(g)
      BY <2>1, <2>2, ImageSize
  <2>4. ImageOf(f, g) \in new.groups /\ f[r] \in ImageOf(f, g)
      BY <1>1 DEF Carries, ImageOf
  <2>5. f[r] \in UNION new.groups /\ r \in UNION left.groups
      BY <1>1, <2>4
  <2> QED BY <2>3, <2>4, <2>5, BreaksAssumption DEF IsLeft, IsRecord
<1>2. CASE r \in left.anchors
    BY <1>2 DEF Carries, Singles
<1>3. CASE r \notin left.anchors
  <2>1. PICK g \in left.groups : r \in g
      BY <1>3 DEF LeftRows
  <2>2. ASSUME f[r] \in Singles(new) PROVE Cardinality(g) = 1
    <3>1. PICK h \in new.groups : f[r] \in h /\ Cardinality(h) = 1
        BY <1>1, <2>1, <2>2 DEF Singles
    <3>2. h = ImageOf(f, g)
        BY <1>1, <2>1, <3>1 DEF IsLeft
    <3> QED BY <1>1, <2>1, <3>1, <3>2
  <2>3. ASSUME r \in Singles(left) PROVE Cardinality(g) = 1
    <3>1. PICK h \in left.groups : r \in h /\ Cardinality(h) = 1
        BY <1>3, <2>3 DEF Singles
    <3> QED BY <2>1, <3>1 DEF IsLeft
  <2>4. ASSUME Cardinality(g) = 1 PROVE f[r] \in Singles(new) /\ r \in Singles(left)
      BY <1>1, <2>1, <2>4 DEF Singles
  <2> QED BY <2>2, <2>3, <2>4
<1> QED BY <1>2, <1>3

LEMMA PartnerCarried ==
    ASSUME NEW left, IsLeft(left), NEW new, IsLeft(new), NEW f, Carries(f, left, new), NEW r \in LeftRows(left)
    PROVE  /\ Partner(f[r], new) = ImageOf(f, Partner(r, left)) /\ Partner(r, left) \subseteq LeftRows(left)
           /\ First(f[r], new) <=> First(r, left)
<1>1. ASSUME NEW s \in LeftRows(left)
      PROVE  OneBreak(f[r], f[s], new) <=> OneBreak(r, s, left)
  <2>1. ASSUME NEW x \in LeftRows(left), NEW y \in LeftRows(left)
        PROVE  f[y] \in Counterpart(f[x], new) <=> y \in Counterpart(x, left)
    <3>1. Counterpart(f[x], new) = ImageOf(f, Counterpart(x, left)) /\ Counterpart(x, left) \subseteq LeftRows(left)
        BY CounterpartCarried
    <3>2. \A z \in LeftRows(left) : f[z] = f[y] => z = y
        BY DEF Carries
    <3> QED BY <3>1, <3>2 DEF ImageOf
  <2>2. /\ Reading(f[r], Others(f[r], new)) = Reading(r, Others(r, left))
        /\ Reading(f[s], Others(f[s], new)) = Reading(s, Others(s, left))
      BY ReadingCarried
  <2> QED BY <2>1, <2>2 DEF OneBreak
<1>2. Partner(r, left) \subseteq LeftRows(left)
    BY RowsOfLeft DEF Partner
<1>3. ASSUME NEW t \in Partner(f[r], new) PROVE t \in ImageOf(f, Partner(r, left))
  <2>1. t \in Singles(new) /\ OneBreak(f[r], t, new)
      BY <1>3 DEF Partner
  <2>2. t \in ImageOf(f, Counterpart(r, left)) /\ Counterpart(r, left) \subseteq LeftRows(left)
      BY <2>1, CounterpartCarried DEF OneBreak
  <2>3. PICK s \in LeftRows(left) : t = f[s]
      BY <2>2 DEF ImageOf
  <2>4. s \in Singles(left) /\ OneBreak(r, s, left)
      BY <1>1, <2>1, <2>3, SinglesCarried
  <2> QED BY <2>3, <2>4 DEF Partner, ImageOf
<1>4. ASSUME NEW s \in Partner(r, left) PROVE f[s] \in Partner(f[r], new)
  <2>1. s \in LeftRows(left) /\ s \in Singles(left) /\ OneBreak(r, s, left)
      BY <1>2, <1>4 DEF Partner
  <2>2. f[s] \in Singles(new) /\ OneBreak(f[r], f[s], new)
      BY <1>1, <2>1, SinglesCarried
  <2> QED BY <2>2 DEF Partner
<1>5. Partner(f[r], new) = ImageOf(f, Partner(r, left))
    BY <1>3, <1>4 DEF ImageOf
<1>6. f[r].side = r.side
    BY DEF Carries, Like
<1>7. Partner(f[r], new) = {} <=> Partner(r, left) = {}
    BY <1>5 DEF ImageOf
<1> QED BY <1>2, <1>5, <1>6, <1>7 DEF First

LEMMA RaisedHolds ==
    ASSUME NEW left, IsLeft(left), NEW e \in RaisedOf(left)
    PROVE  e = Exception(e.members, e) /\ e.members \subseteq LeftRows(left) /\ e.members # {}
<1>1. e = Exception(e.members, e)
  <2>1. \A set, read : Exception(set, read) = Exception(Exception(set, read).members, Exception(set, read))
      BY DEF Exception
  <2>2. \E set, read : e = Exception(set, read)
    <3>1. ASSUME NEW r, IsSingle(e, r, left) PROVE \E set, read : e = Exception(set, read)
      <4>1. e = Exception({r} \cup Partner(r, left), Reading(r, Others(r, left)))
          BY <3>1 DEF IsSingle
      <4> QED BY <4>1
    <3>2. ASSUME NEW g, IsMany(e, g, left) PROVE \E set, read : e = Exception(set, read)
      <4>1. e = Exception(g, [code |-> Unexplained, derived |-> FALSE, ambiguous |-> {}])
          BY <3>2 DEF IsMany
      <4> QED BY <4>1
    <3> QED BY <3>1, <3>2, RaisedAre
  <2> QED BY <2>1, <2>2
<1>2. e.members \subseteq LeftRows(left) /\ e.members # {}
  <2>1. \A r : IsSingle(e, r, left) => e.members \subseteq LeftRows(left) /\ e.members # {}
      BY RowsOfLeft DEF IsSingle
  <2>2. ASSUME NEW g, IsMany(e, g, left) PROVE e.members \subseteq LeftRows(left) /\ e.members # {}
    <3>1. g \in left.groups /\ e.members = g
        BY <2>2 DEF IsMany
    <3>2. g \subseteq LeftRows(left) /\ g # {}
        BY <3>1, RowsOfLeft DEF IsLeft
    <3> QED BY <3>1, <3>2
  <2> QED BY <2>1, <2>2, RaisedAre
<1> QED BY <1>1, <1>2

\* Every exception of the one list is raised of the other, about the images of its rows.
LEMMA ExceptionsCarried ==
    ASSUME NEW left, IsLeft(left), NEW new, IsLeft(new), NEW f, Carries(f, left, new), NEW e \in RaisedOf(left)
    PROVE  Exception(ImageOf(f, e.members), e) \in RaisedOf(new)
<1>1. ASSUME NEW r, IsSingle(e, r, left)
      PROVE  Exception(ImageOf(f, e.members), e) \in RaisedOf(new)
  <2>1. /\ r \in Singles(left) /\ First(r, left) /\ r \in LeftRows(left)
        /\ e = Exception({r} \cup Partner(r, left), Reading(r, Others(r, left)))
      BY <1>1, RowsOfLeft DEF IsSingle
  <2>2. f[r] \in Singles(new) /\ First(f[r], new)
      BY <2>1, SinglesCarried, PartnerCarried
  <2>3. Exception({f[r]} \cup Partner(f[r], new), Reading(f[r], Others(f[r], new))) \in RaisedOf(new)
      BY <2>2 DEF RaisedOf
  <2>4. Partner(f[r], new) = ImageOf(f, Partner(r, left))
      BY <2>1, PartnerCarried
  <2>5. Reading(f[r], Others(f[r], new)) = Reading(r, Others(r, left))
      BY <2>1, ReadingCarried
  <2> DEFINE read == Reading(r, Others(r, left))
             set == {r} \cup Partner(r, left)
  <2>6. {f[r]} \cup Partner(f[r], new) = ImageOf(f, set)
      BY <2>4 DEF ImageOf
  <2>7. Exception(ImageOf(f, set), read) \in RaisedOf(new)
      BY <2>3, <2>5, <2>6
  <2>8. e = Exception(set, read)
      BY <2>1
  <2> HIDE DEF set, read
  <2>9. Exception(ImageOf(f, e.members), e) = Exception(ImageOf(f, set), read)
      BY <2>8 DEF Exception
  <2> QED BY <2>7, <2>9
<1>2. ASSUME NEW g, IsMany(e, g, left)
      PROVE  Exception(ImageOf(f, e.members), e) \in RaisedOf(new)
  <2> DEFINE read == [code |-> Unexplained, derived |-> FALSE, ambiguous |-> {}]
  <2>1. g \in left.groups /\ Cardinality(g) > 1 /\ e = Exception(g, read)
      BY <1>2 DEF IsMany
  <2>2. IsFiniteSet(g) /\ g \subseteq LeftRows(left)
      BY <2>1, RowsOfLeft
  <2>3. \A x, y \in g : f[x] = f[y] => x = y
      BY <2>2 DEF Carries
  <2>4. Cardinality(ImageOf(f, g)) = Cardinality(g) /\ ImageOf(f, g) \in new.groups
      BY <2>1, <2>2, <2>3, ImageSize DEF Carries
  <2>5. Exception(ImageOf(f, g), read) \in RaisedOf(new)
      BY <2>1, <2>4 DEF RaisedOf
  <2> HIDE DEF read
  <2>6. Exception(ImageOf(f, e.members), e) = Exception(ImageOf(f, g), read)
      BY <2>1 DEF Exception
  <2> QED BY <2>5, <2>6
<1> QED BY <1>1, <1>2, RaisedAre
-----------------------------------------------------------------------------
(* What is left over, by its pairings. *)

Anchored(fs) == {a \in Intaken(fs, Anchors).records : InScope(a, fs)}
Grouped(fs) == Intaken(fs, Groups).records
Paired(records, p) == {r \in records : Pairing(r) = p}
ClaimedOf(fs, p) == Claims(Paired(Anchored(fs), p), Paired(Grouped(fs), p))

LEMMA LeftOverIs ==
    ASSUME NEW fs
    PROVE  /\ LeftOver(fs).anchors = {a \in Anchored(fs) : a \notin ClaimedOf(fs, Pairing(a))}
           /\ \A g : g \in LeftOver(fs).groups <=>
                \E r \in Grouped(fs) : g = Paired(Grouped(fs), Pairing(r)) /\ ClaimedOf(fs, Pairing(r)) = {}
           /\ \A r : r \in UNION LeftOver(fs).groups <=> r \in Grouped(fs) /\ ClaimedOf(fs, Pairing(r)) = {}
<1>1. LeftOver(fs).anchors = {a \in Anchored(fs) : a \notin ClaimedOf(fs, Pairing(a))}
    BY DEF LeftOver, Anchored, Grouped, Paired, ClaimedOf
<1>2. LeftOver(fs).groups =
        {Paired(Grouped(fs), p) : p \in {q \in {Pairing(r) : r \in Grouped(fs)} : ClaimedOf(fs, q) = {}}}
    BY DEF LeftOver, Anchored, Grouped, Paired, ClaimedOf
<1>3. \A g : g \in LeftOver(fs).groups <=>
        \E r \in Grouped(fs) : g = Paired(Grouped(fs), Pairing(r)) /\ ClaimedOf(fs, Pairing(r)) = {}
    BY <1>2
<1>4. ASSUME NEW r PROVE r \in UNION LeftOver(fs).groups <=> r \in Grouped(fs) /\ ClaimedOf(fs, Pairing(r)) = {}
  <2>1. ASSUME r \in UNION LeftOver(fs).groups PROVE r \in Grouped(fs) /\ ClaimedOf(fs, Pairing(r)) = {}
    <3>1. PICK s \in Grouped(fs) : r \in Paired(Grouped(fs), Pairing(s)) /\ ClaimedOf(fs, Pairing(s)) = {}
        BY <1>3, <2>1
    <3> QED BY <3>1 DEF Paired
  <2>2. ASSUME r \in Grouped(fs), ClaimedOf(fs, Pairing(r)) = {} PROVE r \in UNION LeftOver(fs).groups
    <3>1. r \in Paired(Grouped(fs), Pairing(r))
        BY <2>2 DEF Paired
    <3>2. Paired(Grouped(fs), Pairing(r)) \in LeftOver(fs).groups
        BY <1>3, <2>2
    <3> QED BY <3>1, <3>2
  <2> QED BY <2>1, <2>2
<1> QED BY <1>1, <1>3, <1>4

(* Late rows. *)

LEMMA LateRowsJoinNothing ==
    ASSUME NEW scene \in Scenes, specs = scene.specs,
           NEW fs, FromScene(fs, scene, MaxExports), NEW gs, FromScene(gs, scene, MaxExports),
           NEW side \in Sides, NEW other \in Sides, other # side, fs[other] = gs[other],
           Intaken(fs, side).records \subseteq Intaken(gs, side).records,
           \A r \in Intaken(fs, side).records : InScope(r, fs) = InScope(r, gs),
           \A r \in Intaken(gs, side).records \ Intaken(fs, side).records :
                Stranger(r, Intaken(fs, side).records \cup Intaken(fs, other).records),
           NEW known \in LeftRows(LeftOver(fs)), known.side = side
    PROVE  RaisedOf(LeftOver(fs)) \subseteq RaisedOf(LeftOver(gs))
<1> DEFINE late == Intaken(gs, side).records \ Intaken(fs, side).records
           left == LeftOver(fs)
           new == LeftOver(gs)
<1>1. IsLeft(left) /\ IsLeft(new)
    BY LeftIsLeft
<1>2. /\ \A s \in Sides : \A r \in Intaken(fs, s).records : IsRecord(r, s)
      /\ \A s \in Sides : \A r \in Intaken(gs, s).records : IsRecord(r, s)
    BY RecordsAreTyped
<1>3. Intaken(fs, other).records = Intaken(gs, other).records
    BY DEF Intaken
<1>4. \A r \in Intaken(fs, other).records : InScope(r, fs) = InScope(r, gs)
    BY <1>2 DEF InScope, IsRecord
<1>5. \A s \in Sides : s = side \/ s = other
    BY DEF Sides
<1> HIDE DEF left, new
<1>6. /\ Anchored(fs) \subseteq Anchored(gs) /\ Anchored(gs) \ Anchored(fs) \subseteq late
      /\ Grouped(fs) \subseteq Grouped(gs) /\ Grouped(gs) \ Grouped(fs) \subseteq late
  <2>1. ASSUME NEW s \in Sides
        PROVE  /\ Intaken(fs, s).records \subseteq Intaken(gs, s).records
               /\ Intaken(gs, s).records \ Intaken(fs, s).records \subseteq late
               /\ \A r \in Intaken(fs, s).records : InScope(r, fs) = InScope(r, gs)
      BY <1>3, <1>4, <1>5
  <2>2. Anchors \in Sides /\ Groups \in Sides
      BY DEF Sides
  <2> HIDE DEF late
  <2> QED BY <2>1, <2>2 DEF Anchored, Grouped
<1>7. ASSUME NEW x \in late, NEW c \in Anchored(fs) \cup Grouped(fs)
      PROVE  Differs(c, x) = Compared /\ Pairing(x) # Pairing(c) /\ x.side = side
  <2>1. c \in Intaken(fs, side).records \cup Intaken(fs, other).records
    <3>1. c \in Intaken(fs, Anchors).records \/ c \in Intaken(fs, Groups).records
        BY DEF Anchored, Grouped
    <3> QED BY <1>5, <3>1 DEF Sides
  <2>2. Differs(x, c) = Compared
      BY <2>1 DEF Stranger
  <2>3. Differs(c, x) = Differs(x, c)
      BY DEF Differs
  <2>4. x.date # c.date
    <3>1. "date" \in Compared /\ "date" # "amount"
        BY DEF Compared
    <3> QED BY <2>2, <3>1 DEF Differs, Value
  <2>5. x.side = side
      BY <1>2 DEF IsRecord
  <2> QED BY <2>2, <2>3, <2>4, <2>5 DEF Pairing
<1> HIDE DEF late
<1>8. ASSUME NEW c \in Anchored(fs) \cup Grouped(fs)
      PROVE  /\ Paired(Anchored(gs), Pairing(c)) = Paired(Anchored(fs), Pairing(c))
             /\ Paired(Grouped(gs), Pairing(c)) = Paired(Grouped(fs), Pairing(c))
             /\ ClaimedOf(gs, Pairing(c)) = ClaimedOf(fs, Pairing(c))
  <2>1. /\ Paired(Anchored(gs), Pairing(c)) = Paired(Anchored(fs), Pairing(c))
        /\ Paired(Grouped(gs), Pairing(c)) = Paired(Grouped(fs), Pairing(c))
      BY <1>6, <1>7 DEF Paired
  <2> QED BY <2>1 DEF ClaimedOf
<1>9. left.anchors \subseteq new.anchors /\ new.anchors \ left.anchors \subseteq late
      /\ left.anchors \subseteq Anchored(fs)
    BY <1>6, <1>8, LeftOverIs DEF left, new
<1>10. left.groups \subseteq new.groups
  <2>1. ASSUME NEW g \in left.groups PROVE g \in new.groups
    <3>1. PICK r \in Grouped(fs) : g = Paired(Grouped(fs), Pairing(r)) /\ ClaimedOf(fs, Pairing(r)) = {}
        BY <2>1, LeftOverIs DEF left
    <3>2. r \in Grouped(gs) /\ g = Paired(Grouped(gs), Pairing(r)) /\ ClaimedOf(gs, Pairing(r)) = {}
        BY <1>6, <1>8, <3>1
    <3> QED BY <3>2, LeftOverIs DEF new
  <2> QED BY <2>1
<1>11. UNION left.groups \subseteq UNION new.groups /\ UNION left.groups \subseteq Grouped(fs)
       /\ (UNION new.groups) \ (UNION left.groups) \subseteq late
  <2>1. ASSUME NEW r \in UNION new.groups, r \notin late PROVE r \in UNION left.groups
    <3>1. r \in Grouped(gs) /\ ClaimedOf(gs, Pairing(r)) = {}
        BY LeftOverIs DEF new
    <3>2. r \in Grouped(fs) /\ ClaimedOf(fs, Pairing(r)) = {}
        BY <1>6, <1>8, <2>1, <3>1
    <3> QED BY <3>2, LeftOverIs DEF left
  <2>2. UNION left.groups \subseteq Grouped(fs)
      BY LeftOverIs DEF left
  <2> QED BY <1>10, <2>1, <2>2
<1> DEFINE f == [r \in LeftRows(left) |-> r]
<1>12. ASSUME NEW r \in LeftRows(left)
       PROVE  /\ Others(r, left) \subseteq Others(r, new)
              /\ Others(r, new) \ Others(r, left) \subseteq late
              /\ Others(r, left) = {} <=> Others(r, new) = {}
              /\ r \in Anchored(fs) \cup Grouped(fs)
  <2>1. /\ Others(r, left) \subseteq Others(r, new)
        /\ Others(r, new) \ Others(r, left) \subseteq late
        /\ r \in Anchored(fs) \cup Grouped(fs)
      BY <1>9, <1>11 DEF Others, LeftRows
  <2>2. known \in LeftRows(left) /\ known.side = side
      BY DEF left
  <2>3. r.side \in Sides
      BY <1>1, RowsOfLeft DEF IsRecord
  <2>4. CASE r.side = side
    <3>1. \A x \in Others(r, new) : x.side # side
        BY <1>1, <2>3, <2>4, BreaksAssumption DEF Others, IsLeft, IsRecord, Sides
    <3>2. \A x \in late : x.side = side
        BY <1>7, <2>1
    <3> QED BY <2>1, <3>1, <3>2
  <2>5. CASE r.side # side
    <3>1. known \in Others(r, left)
      <4>1. CASE side = Anchors
          BY <1>1, <2>2, <2>5, <4>1, RowsOfLeft DEF Others
      <4>2. CASE side = Groups
        <5>1. r.side = Anchors /\ known \notin left.anchors
            BY <1>1, <2>2, <2>3, <2>5, <4>2, RowsOfLeft, BreaksAssumption DEF Sides
        <5> QED BY <2>2, <5>1 DEF Others, LeftRows
      <4> QED BY <4>1, <4>2 DEF Sides
    <3> QED BY <2>1, <3>1
  <2> QED BY <2>1, <2>4, <2>5
<1>13. ASSUME NEW r \in LeftRows(left) PROVE Candidates(r, Others(r, new)) = Candidates(r, Others(r, left))
  <2>1. \A x \in late : Differs(r, x) = Compared
      BY <1>7, <1>12
  <2> QED BY <1>12, <2>1 DEF Candidates
<1>14. Carries(f, left, new)
  <2>1. LeftRows(left) \subseteq LeftRows(new)
      BY <1>9, <1>11 DEF LeftRows
  <2>2. \A S : S \subseteq LeftRows(left) => ImageOf(f, S) = S
      BY DEF ImageOf
  <2>3. \A r \in LeftRows(left) : f[r] = r
      OBVIOUS
  <2> HIDE DEF f
  <2>4. f \in [LeftRows(left) -> LeftRows(new)]
      BY <2>1 DEF f
  <2>5. \A r \in left.anchors : f[r] \in new.anchors
      BY <1>9, <2>3 DEF LeftRows
  <2>6. \A g \in left.groups : ImageOf(f, g) \in new.groups
    <3>1. \A g \in left.groups : g \subseteq LeftRows(left)
        BY <1>1, RowsOfLeft
    <3> QED BY <1>10, <2>2, <3>1
  <2>7. ASSUME NEW r \in LeftRows(left)
        PROVE  /\ Others(r, left) = {} <=> Others(f[r], new) = {}
               /\ Candidates(f[r], Others(f[r], new)) = ImageOf(f, Candidates(r, Others(r, left)))
               /\ Shown(f[r], Others(f[r], new)) = ImageOf(f, Shown(r, Others(r, left)))
               /\ Candidates(r, Others(r, left)) # {} => Closest(f[r], Others(f[r], new)) = f[Closest(r, Others(r, left))]
    <3>1. Shown(r, Others(r, new)) = Shown(r, Others(r, left))
        BY <1>13 DEF Shown
    <3>2. Closest(r, Others(r, new)) = Closest(r, Others(r, left))
        BY <3>1 DEF Closest
    <3>3. Candidates(r, Others(r, left)) \subseteq LeftRows(left) /\ Shown(r, Others(r, left)) \subseteq LeftRows(left)
        BY <1>1, RowsOfLeft DEF Candidates, Shown
    <3>4. ImageOf(f, Candidates(r, Others(r, left))) = Candidates(r, Others(r, left))
          /\ ImageOf(f, Shown(r, Others(r, left))) = Shown(r, Others(r, left))
        BY <2>2, <3>3
    <3>5. Candidates(r, Others(r, left)) # {} => Closest(r, Others(r, left)) \in LeftRows(left)
        BY <1>1, ClosestOfLeft
    <3> QED BY <1>12, <1>13, <2>3, <3>1, <3>2, <3>4, <3>5
  <2>8. \A r \in LeftRows(left) : Like(r, f[r])
      BY <2>3 DEF Like
  <2> QED BY <2>3, <2>4, <2>5, <2>6, <2>7, <2>8 DEF Carries
<1>15. ASSUME NEW e \in RaisedOf(left) PROVE e \in RaisedOf(new)
  <2>1. /\ Exception(ImageOf(f, e.members), e) \in RaisedOf(new)
        /\ e = Exception(e.members, e) /\ e.members \subseteq LeftRows(left)
    <3> HIDE DEF f
    <3> QED BY <1>1, <1>14, ExceptionsCarried, RaisedHolds
  <2>2. ImageOf(f, e.members) = e.members
      BY <2>1 DEF ImageOf
  <2> QED BY <2>1, <2>2
<1> QED BY <1>15 DEF left, new
-----------------------------------------------------------------------------
(* Two lists in which the classes are as large: the first of a class for the first. *)

Below(K, i) == {j \in K : j < i}

\* Of finitely many numbers the rank of one, how many come before it, grows with it,
\* and every rank is taken: two sets of one size correspond in their order.
LEMMA RankGrows ==
    ASSUME NEW K \in SUBSET Nat, IsFiniteSet(K), NEW i \in K, NEW j \in K
    PROVE  /\ Cardinality(Below(K, i)) \in Nat
           /\ i < j <=> Cardinality(Below(K, i)) < Cardinality(Below(K, j))
<1>1. ASSUME NEW x \in K
      PROVE  IsFiniteSet(Below(K, x)) /\ Cardinality(Below(K, x)) \in Nat
  <2>1. Below(K, x) \in SUBSET K
      BY DEF Below
  <2> QED BY <2>1, FS_Subset, FS_CardinalityType
<1>2. ASSUME NEW x \in K, NEW y \in K, x < y
      PROVE  Cardinality(Below(K, x)) < Cardinality(Below(K, y))
  <2>1. Below(K, x) \in SUBSET Below(K, y) /\ x \in Below(K, y) /\ x \notin Below(K, x)
    <3>1. ~(x < x) /\ \A z \in K : z < x => z < y
      <4>1. x \in Nat /\ y \in Nat /\ \A z \in K : z \in Nat
          OBVIOUS
      <4> QED BY <1>2, <4>1
    <3>2. Below(K, x) \subseteq Below(K, y)
        BY <3>1 DEF Below
    <3> QED BY <1>2, <3>1, <3>2 DEF Below
  <2>2. Cardinality(Below(K, x)) <= Cardinality(Below(K, y)) /\ Cardinality(Below(K, x)) # Cardinality(Below(K, y))
      BY <1>1, <2>1, FS_Subset
  <2> QED BY <1>1, <2>2
<1>3. i \in Nat /\ j \in Nat
    OBVIOUS
<1>4. CASE i < j
    BY <1>1, <1>2, <1>4
<1>5. CASE i = j
    BY <1>1, <1>3, <1>5
<1>6. CASE j < i
  <2>1. Cardinality(Below(K, j)) < Cardinality(Below(K, i))
      BY <1>2, <1>6
  <2> QED BY <1>1, <1>3, <1>6, <2>1
<1> QED BY <1>3, <1>4, <1>5, <1>6

LEMMA RanksAreAll ==
    ASSUME NEW K \in SUBSET Nat, IsFiniteSet(K)
    PROVE  /\ \A i \in K : Cardinality(Below(K, i)) \in 0..(Cardinality(K) - 1)
           /\ \A n \in 0..(Cardinality(K) - 1) : \E i \in K : Cardinality(Below(K, i)) = n
<1> DEFINE T == 0..(Cardinality(K) - 1)
           f == [i \in K |-> Cardinality(Below(K, i))]
<1>1. Cardinality(K) \in Nat
    BY FS_CardinalityType
<1>2. ASSUME NEW i \in K PROVE Cardinality(Below(K, i)) \in T
  <2>1. Below(K, i) \in SUBSET K /\ i \notin Below(K, i)
      BY DEF Below
  <2>2. Cardinality(Below(K, i)) <= Cardinality(K) /\ Cardinality(Below(K, i)) # Cardinality(K)
      BY <2>1, FS_Subset
  <2>3. Cardinality(Below(K, i)) \in Nat
      BY RankGrows
  <2> QED BY <1>1, <2>2, <2>3
<1>3. f \in Injection(K, T)
  <2>1. f \in [K -> T]
      BY <1>2
  <2>2. \A i, j \in K : f[i] = f[j] => i = j
    <3>1. ASSUME NEW i \in K, NEW j \in K, f[i] = f[j] PROVE i = j
      <4>1. /\ Cardinality(Below(K, i)) \in Nat
            /\ i < j <=> Cardinality(Below(K, i)) < Cardinality(Below(K, j))
            /\ j < i <=> Cardinality(Below(K, j)) < Cardinality(Below(K, i))
          BY RankGrows
      <4>2. Cardinality(Below(K, i)) = Cardinality(Below(K, j)) /\ i \in Nat /\ j \in Nat
          BY <3>1
      <4> QED BY <4>1, <4>2
    <3> QED BY <3>1
  <2> HIDE DEF f
  <2> QED BY <2>1, <2>2 DEF Injection, IsInjective
<1>4. IsFiniteSet(T) /\ Cardinality(T) = Cardinality(K)
  <2>1. IsFiniteSet(T) /\ Cardinality(T) = IF 0 > Cardinality(K) - 1 THEN 0 ELSE Cardinality(K) - 1 - 0 + 1
      BY <1>1, FS_Interval
  <2> QED BY <1>1, <2>1
<1>5. f \in Surjection(K, T)
  <2> HIDE DEF f, T
  <2> QED BY <1>3, <1>4, FS_Injection
<1>6. \A n \in T : \E i \in K : f[i] = n
    BY <1>5 DEF Surjection
<1> QED BY <1>2, <1>6

KeepsOrder(m, K) == \A i, j \in K : i < j <=> m[i] < m[j]

LEMMA OrderCarried ==
    ASSUME NEW K \in SUBSET Nat, IsFiniteSet(K), NEW L \in SUBSET Nat, IsFiniteSet(L),
           Cardinality(K) = Cardinality(L)
    PROVE  \E m \in Bijection(K, L) : KeepsOrder(m, K)
<1> DEFINE rank(S, i) == Cardinality(Below(S, i))
           m == [i \in K |-> CHOOSE l \in L : rank(L, l) = rank(K, i)]
<1>1. ASSUME NEW i \in K PROVE m[i] \in L /\ rank(L, m[i]) = rank(K, i)
  <2>1. rank(K, i) \in 0..(Cardinality(L) - 1)
      BY RanksAreAll
  <2>2. \E l \in L : rank(L, l) = rank(K, i)
      BY <2>1, RanksAreAll
  <2> QED BY <2>2
<1>2. \A i, j \in K : rank(K, i) \in Nat /\ (i < j <=> rank(K, i) < rank(K, j))
    BY RankGrows
<1>3. \A i, j \in L : rank(L, i) \in Nat /\ (i < j <=> rank(L, i) < rank(L, j))
    BY RankGrows
<1> HIDE DEF rank
<1>4. m \in [K -> L]
    BY <1>1
<1> HIDE DEF m
<1>5. KeepsOrder(m, K)
    BY <1>1, <1>2, <1>3 DEF KeepsOrder
<1>6. ASSUME NEW i \in K, NEW j \in K, m[i] = m[j] PROVE i = j
  <2>1. ~(i < j) /\ ~(j < i) /\ i \in Nat /\ j \in Nat
      BY <1>1, <1>5, <1>6 DEF KeepsOrder
  <2> QED BY <2>1
<1>7. ASSUME NEW l \in L PROVE \E i \in K : m[i] = l
  <2>1. rank(L, l) \in 0..(Cardinality(K) - 1)
      BY RanksAreAll DEF rank
  <2>2. PICK i \in K : rank(K, i) = rank(L, l)
      BY <2>1, RanksAreAll DEF rank
  <2>3. rank(L, m[i]) = rank(L, l) /\ m[i] \in L
      BY <1>1, <2>2
  <2>4. m[i] \in Nat /\ l \in Nat /\ ~(m[i] < l) /\ ~(l < m[i])
    <3>1. rank(L, m[i]) \in Nat /\ (m[i] < l <=> rank(L, m[i]) < rank(L, l)) /\ (l < m[i] <=> rank(L, l) < rank(L, m[i]))
        BY <1>3, <2>3
    <3>2. ~(rank(L, m[i]) < rank(L, l)) /\ ~(rank(L, l) < rank(L, m[i]))
        BY <2>3, <3>1
    <3> QED BY <2>3, <3>1, <3>2
  <2>5. m[i] = l
      BY <2>4
  <2> QED BY <2>5
<1>8. m \in Bijection(K, L)
    BY <1>4, <1>6, <1>7 DEF Bijection, Injection, Surjection, IsInjective
<1> QED BY <1>5, <1>8

ClassOf(K, key, k) == {i \in K : key[i] = k}

KeepsClasses(m, K, key, to) ==
    \A i, j \in K : to[m[i]] = key[i] /\ (key[i] = key[j] => (i < j <=> m[i] < m[j]))

\* The same class by class, where each class is as large on either side.
LEMMA ClassesCarried ==
    ASSUME NEW K \in SUBSET Nat, IsFiniteSet(K), NEW L \in SUBSET Nat, IsFiniteSet(L), NEW key, NEW to,
           \A k : Cardinality(ClassOf(K, key, k)) = Cardinality(ClassOf(L, to, k))
    PROVE  \E m \in Bijection(K, L) : KeepsClasses(m, K, key, to)
<1> DEFINE In(k) == ClassOf(K, key, k)
           Out(k) == ClassOf(L, to, k)
           via(k) == CHOOSE m \in Bijection(In(k), Out(k)) : KeepsOrder(m, In(k))
           m == [i \in K |-> via(key[i])[i]]
<1>1. ASSUME NEW k PROVE via(k) \in Bijection(In(k), Out(k)) /\ KeepsOrder(via(k), In(k))
  <2>1. /\ In(k) \in SUBSET Nat /\ IsFiniteSet(In(k)) /\ Out(k) \in SUBSET Nat /\ IsFiniteSet(Out(k))
        /\ Cardinality(In(k)) = Cardinality(Out(k))
    <3>1. In(k) \in SUBSET K /\ Out(k) \in SUBSET L
        BY DEF ClassOf
    <3> QED BY <3>1, FS_Subset
  <2> HIDE DEF In, Out
  <2> QED BY <2>1, OrderCarried
<1>2. ASSUME NEW k
      PROVE  /\ via(k) \in [In(k) -> Out(k)]
             /\ \A i, j \in In(k) : via(k)[i] = via(k)[j] => i = j
             /\ \A l \in Out(k) : \E i \in In(k) : via(k)[i] = l
             /\ \A i, j \in In(k) : i < j <=> via(k)[i] < via(k)[j]
  <2> HIDE DEF via, In, Out
  <2> QED BY <1>1 DEF Bijection, Injection, Surjection, IsInjective, KeepsOrder
<1> HIDE DEF via
<1>3. ASSUME NEW i \in K PROVE m[i] \in L /\ to[m[i]] = key[i] /\ m[i] = via(key[i])[i] /\ i \in In(key[i])
  <2>1. i \in In(key[i])
      BY DEF ClassOf
  <2>2. via(key[i])[i] \in Out(key[i])
      BY <1>2, <2>1
  <2> QED BY <2>1, <2>2 DEF ClassOf
<1>4. m \in [K -> L]
    BY <1>3
<1> HIDE DEF m
<1>5. ASSUME NEW i \in K, NEW j \in K, key[i] = key[j] PROVE i < j <=> m[i] < m[j]
  <2>1. j \in In(key[i]) /\ m[j] = via(key[i])[j]
      BY <1>3, <1>5
  <2> QED BY <1>2, <1>3, <2>1
<1>6. ASSUME NEW i \in K, NEW j \in K, m[i] = m[j] PROVE i = j
  <2>1. key[i] = key[j]
      BY <1>3, <1>6
  <2>2. j \in In(key[i]) /\ m[j] = via(key[i])[j]
      BY <1>3, <2>1
  <2> QED BY <1>2, <1>3, <1>6, <2>2
<1>7. ASSUME NEW l \in L PROVE \E i \in K : m[i] = l
  <2>1. l \in Out(to[l])
      BY DEF ClassOf
  <2>2. PICK i \in In(to[l]) : via(to[l])[i] = l
      BY <1>2, <2>1
  <2>3. i \in K /\ key[i] = to[l]
      BY DEF ClassOf
  <2>4. m[i] = l
      BY <1>3, <2>2, <2>3
  <2> QED BY <2>3, <2>4
<1>8. m \in Bijection(K, L)
    BY <1>4, <1>6, <1>7 DEF Bijection, Injection, Surjection, IsInjective
<1>9. KeepsClasses(m, K, key, to)
    BY <1>3, <1>5 DEF KeepsClasses
<1> QED BY <1>8, <1>9
-----------------------------------------------------------------------------
(* The records of one side and their rows. *)

KeysOf(spec, doc) == [i \in Kept(doc) |-> NaturalKey(spec, doc.rows[i])]

LEMMA RecordOfRow ==
    ASSUME NEW side, NEW spec, spec.natural # <<>>, NEW doc, NEW i \in Kept(doc), NEW r, r = RecordOf(side, spec, doc, i)
    PROVE  /\ r.row = i /\ r.side = side /\ r.id.key = KeysOf(spec, doc)[i]
           /\ r.id.occurrence = Cardinality(Below(ClassOf(Kept(doc), KeysOf(spec, doc), KeysOf(spec, doc)[i]), i))
<1> DEFINE same == {j \in Kept(doc) : j < i /\ NaturalKey(spec, doc.rows[j]) = NaturalKey(spec, doc.rows[i])}
<1>1. Identity(side, spec, doc, i) = [key |-> NaturalKey(spec, doc.rows[i]), occurrence |-> Cardinality(same)]
    BY DEF Identity
<1>2. same = Below(ClassOf(Kept(doc), KeysOf(spec, doc), KeysOf(spec, doc)[i]), i)
    BY DEF Below, ClassOf, KeysOf
<1>3. r.row = i /\ r.side = side /\ r.id = Identity(side, spec, doc, i)
    BY DEF RecordOf
<1>4. KeysOf(spec, doc)[i] = NaturalKey(spec, doc.rows[i])
    BY DEF KeysOf
<1> HIDE DEF same
<1> QED BY <1>1, <1>2, <1>3, <1>4

LEMMA RecordsOfRows ==
    ASSUME NEW scene \in Scenes, specs = scene.specs, NEW fs, FromScene(fs, scene, MaxExports),
           NEW side \in Sides, specs[side].natural # <<>>
    PROVE  LET doc == fs[side]
               spec == specs[side]
           IN  /\ IsFiniteSet(Kept(doc)) /\ Kept(doc) \in SUBSET Nat /\ Kept(doc) \subseteq DOMAIN doc.rows
               /\ \A r \in Intaken(fs, side).records :
                    Usable(spec, doc) /\ r.row \in Kept(doc) /\ r = RecordOf(side, spec, doc, r.row)
               /\ Usable(spec, doc) => \A i \in Kept(doc) : RecordOf(side, spec, doc, i) \in Intaken(fs, side).records
<1> DEFINE doc == fs[side]
           spec == specs[side]
           n == Len(doc.rows)
<1>1. doc.rows \in Seq(RowsOf(scene, side))
    BY DEF FromScene
<1>2. DOMAIN doc.rows = 1..n /\ n \in Nat
    BY <1>1
<1>3. Kept(doc) \subseteq DOMAIN doc.rows
    BY DEF Kept
<1>4. IsFiniteSet(Kept(doc)) /\ Kept(doc) \in SUBSET Nat
  <2> HIDE DEF n
  <2>1. IsFiniteSet(1..n) /\ 1..n \subseteq Nat
      BY <1>2, FS_Interval
  <2> QED BY <1>2, <1>3, <2>1, FS_Subset
<1>5. Intaken(fs, side).records = IF Usable(spec, doc) THEN {RecordOf(side, spec, doc, i) : i \in Kept(doc)} ELSE {}
    BY DEF Intaken, Ingest
<1>6. \A r \in Intaken(fs, side).records :
        Usable(spec, doc) /\ r.row \in Kept(doc) /\ r = RecordOf(side, spec, doc, r.row)
  <2> HIDE DEF doc, spec
  <2>1. \A i \in Kept(doc) : RecordOf(side, spec, doc, i).row = i
      BY DEF RecordOf
  <2> QED BY <1>5, <2>1
<1>7. Usable(spec, doc) => \A i \in Kept(doc) : RecordOf(side, spec, doc, i) \in Intaken(fs, side).records
  <2> HIDE DEF doc, spec
  <2> QED BY <1>5
<1> QED BY <1>3, <1>4, <1>6, <1>7

\* The ids of a file are in an order, that of its rows within one key.
LEMMA IdsAreOrdered ==
    ASSUME NEW scene \in Scenes, specs = scene.specs, NEW fs, FromScene(fs, scene, MaxExports),
           NEW side \in Sides, specs[side].natural # <<>>,
           NEW r \in Intaken(fs, side).records, NEW s \in Intaken(fs, side).records
    PROVE  /\ r.row \in Nat /\ s.row \in Nat /\ (r.row = s.row => r = s)
           /\ IdBefore(r, s) <=> \/ Digest(r.id.key) < Digest(s.id.key)
                                 \/ r.id.key = s.id.key /\ r.row < s.row
           /\ r # s => IdBefore(r, s) \/ IdBefore(s, r)
<1> DEFINE doc == fs[side]
           spec == specs[side]
           K == Kept(doc)
           keys == KeysOf(spec, doc)
           Same(x) == ClassOf(K, keys, keys[x])
<1>1. /\ IsFiniteSet(K) /\ K \in SUBSET Nat /\ K \subseteq DOMAIN doc.rows
      /\ r.row \in K /\ s.row \in K /\ Usable(spec, doc)
      /\ r = RecordOf(side, spec, doc, r.row) /\ s = RecordOf(side, spec, doc, s.row)
    BY RecordsOfRows
<1>2. /\ r.id.key = keys[r.row] /\ s.id.key = keys[s.row]
      /\ r.id.occurrence = Cardinality(Below(Same(r.row), r.row))
      /\ s.id.occurrence = Cardinality(Below(Same(s.row), s.row))
  <2> HIDE DEF Same
  <2>1. ASSUME NEW i \in K, NEW t, t = RecordOf(side, spec, doc, i)
        PROVE  t.id.key = keys[i] /\ t.id.occurrence = Cardinality(Below(Same(i), i))
      BY <2>1, RecordOfRow DEF Same
  <2> HIDE DEF K, keys
  <2> QED BY <1>1, <2>1
<1>3. r.row = s.row => r = s
    BY <1>1
<1>4. ASSUME r.id.key = s.id.key
      PROVE  /\ r.row < s.row <=> r.id.occurrence < s.id.occurrence
             /\ s.row < r.row <=> s.id.occurrence < r.id.occurrence
  <2> DEFINE C == Same(r.row)
  <2>1. C = Same(s.row) /\ r.row \in C /\ s.row \in C
      BY <1>1, <1>2, <1>4 DEF ClassOf
  <2>2. C \in SUBSET Nat /\ IsFiniteSet(C)
    <3>1. C \in SUBSET K
        BY DEF ClassOf
    <3> QED BY <1>1, <3>1, FS_Subset
  <2> HIDE DEF C
  <2>3. /\ r.id.occurrence = Cardinality(Below(C, r.row))
        /\ s.id.occurrence = Cardinality(Below(C, s.row))
      BY <1>2, <2>1 DEF C
  <2> QED BY <2>1, <2>2, <2>3, RankGrows
<1>5. /\ Digest(r.id.key) = Digest(s.id.key) => r.id.key = s.id.key
      /\ Digest(r.id.key) \in Int /\ Digest(s.id.key) \in Int
  <2>1. doc.rows \in Seq(RowsOf(scene, side))
      BY DEF FromScene
  <2>2. ASSUME NEW i \in K
        PROVE  keys[i] \in {NaturalKey(scene.specs[side], row) : row \in {x \in RowsOf(scene, side) : Parses(x)}}
    <3>1. doc.rows[i] \in RowsOf(scene, side) /\ Parses(doc.rows[i])
        BY <2>1 DEF Kept
    <3>2. keys[i] = NaturalKey(scene.specs[side], doc.rows[i])
        BY DEF KeysOf
    <3> QED BY <3>1, <3>2
  <2>3. Readable(scene.specs[side])
      BY <1>1 DEF Usable
  <2>4. Digest(r.id.key) = Digest(s.id.key) => r.id.key = s.id.key
      BY <1>1, <1>2, <2>2, <2>3, HashesDiffer
  <2>5. Digest(r.id.key) \in Int /\ Digest(s.id.key) \in Int
      BY RecordsAreTyped DEF IsRecord
  <2> QED BY <2>4, <2>5
<1>6. r.row \in Nat /\ s.row \in Nat
    BY <1>1
<1>7. IdBefore(r, s) <=> \/ Digest(r.id.key) < Digest(s.id.key)
                         \/ r.id.key = s.id.key /\ r.row < s.row
    BY <1>4 DEF IdBefore
<1>8. ASSUME r # s PROVE IdBefore(r, s) \/ IdBefore(s, r)
  <2>1. CASE r.id.key = s.id.key
    <3>1. r.row < s.row \/ s.row < r.row
        BY <1>3, <1>6, <1>8
    <3> QED BY <1>4, <2>1, <3>1 DEF IdBefore
  <2>2. CASE r.id.key # s.id.key
    <3>1. Digest(r.id.key) < Digest(s.id.key) \/ Digest(s.id.key) < Digest(r.id.key)
        BY <1>5, <2>2
    <3> QED BY <3>1 DEF IdBefore
  <2> QED BY <2>1, <2>2
<1> QED BY <1>3, <1>6, <1>7, <1>8

(* One side, its rows in another order. *)

Scoped(fs, side) == {r \in Intaken(fs, side).records : InScope(r, fs)}
Final(doc, side) == {i \in Kept(doc) : side = Groups \/ doc.rows[i].filed # Unfiled}
AlikeOn(fs, side) ==
    \A r, s \in Intaken(fs, side).records :
        r.id.key = s.id.key => Pairing(r) = Pairing(s) /\ r.amount = s.amount /\ r.places = s.places

\* The rows of one list of records for those of another, and those of one key in their order.
Follow(m, A, B) ==
    /\ m \in Bijection(A, B)
    /\ \A r, s \in A : Like(r, m[r]) /\ (r.id.key = s.id.key => (r.row < s.row <=> m[r].row < m[s].row))

LEMMA ScopedAre ==
    ASSUME NEW scene \in Scenes, specs = scene.specs, NEW fs, FromScene(fs, scene, MaxExports),
           NEW side \in Sides, specs[side].natural # <<>>
    PROVE  /\ \A r \in Scoped(fs, side) :
                Usable(specs[side], fs[side]) /\ r.row \in Final(fs[side], side) /\ r = RecordOf(side, specs[side], fs[side], r.row)
           /\ Usable(specs[side], fs[side]) =>
                \A i \in Final(fs[side], side) : RecordOf(side, specs[side], fs[side], i) \in Scoped(fs, side)
<1> DEFINE doc == fs[side]
           spec == specs[side]
<1>1. /\ \A r \in Intaken(fs, side).records :
            Usable(spec, doc) /\ r.row \in Kept(doc) /\ r = RecordOf(side, spec, doc, r.row)
      /\ Usable(spec, doc) => \A i \in Kept(doc) : RecordOf(side, spec, doc, i) \in Intaken(fs, side).records
    BY RecordsOfRows
<1>2. ASSUME NEW i, NEW r, r = RecordOf(side, spec, doc, i)
      PROVE  r.row = i /\ r.side = side
    BY <1>2 DEF RecordOf
<1>3. ASSUME NEW r, r.side = side, r.row \in Kept(doc) PROVE InScope(r, fs) <=> r.row \in Final(doc, side)
    BY <1>3 DEF InScope, Final
<1> HIDE DEF spec
<1>4. \A r \in Scoped(fs, side) : Usable(spec, doc) /\ r.row \in Final(doc, side) /\ r = RecordOf(side, spec, doc, r.row)
    BY <1>1, <1>2, <1>3 DEF Scoped
<1>5. ASSUME Usable(spec, doc), NEW i \in Final(doc, side) PROVE RecordOf(side, spec, doc, i) \in Scoped(fs, side)
  <2>1. i \in Kept(doc)
      BY DEF Final
  <2> QED BY <1>1, <1>2, <1>3, <1>5, <2>1 DEF Scoped
<1> QED BY <1>4, <1>5 DEF spec

\* The n-th row of a key in one order goes to the n-th of that key in the other; the row
\* it was before the move had the same key, so that it says the same.
LEMMA SideCorresponds ==
    ASSUME NEW scene \in Scenes, specs = scene.specs,
           NEW fs, FromScene(fs, scene, MaxExports), NEW gs, FromScene(gs, scene, MaxExports),
           NEW side \in Sides, specs[side].natural # <<>>, SameRows(fs[side], gs[side]), AlikeOn(fs, side)
    PROVE  \E m : Follow(m, Scoped(fs, side), Scoped(gs, side))
<1> DEFINE old == fs[side]
           new == gs[side]
           spec == specs[side]
           I == Final(old, side)
           J == Final(new, side)
           key == KeysOf(spec, old)
           to == KeysOf(spec, new)
<1>1. PICK p \in Bijection(DOMAIN old.rows, DOMAIN old.rows) : new.rows = [i \in DOMAIN old.rows |-> old.rows[p[i]]]
    BY DEF SameRows
<1>2. /\ p \in [DOMAIN old.rows -> DOMAIN old.rows]
      /\ \A i, j \in DOMAIN old.rows : p[i] = p[j] => i = j
      /\ \A i \in DOMAIN old.rows : \E j \in DOMAIN old.rows : p[j] = i
    BY DEF Bijection, Injection, Surjection, IsInjective
<1>3. /\ IsFiniteSet(Kept(old)) /\ Kept(old) \in SUBSET Nat /\ Kept(old) \subseteq DOMAIN old.rows
      /\ IsFiniteSet(Kept(new)) /\ Kept(new) \in SUBSET Nat /\ Kept(new) \subseteq DOMAIN new.rows
    BY RecordsOfRows
<1>4. DOMAIN new.rows = DOMAIN old.rows /\ \A j \in DOMAIN old.rows : new.rows[j] = old.rows[p[j]]
    BY <1>1
<1>5. /\ \A j \in DOMAIN old.rows : j \in Kept(new) <=> p[j] \in Kept(old)
      /\ \A j \in DOMAIN old.rows : j \in J <=> p[j] \in I
    BY <1>2, <1>4 DEF Kept, Final
<1>6. \A j \in Kept(new) : to[j] = key[p[j]]
    BY <1>3, <1>4, <1>5 DEF KeysOf
<1>7. I \subseteq Kept(old) /\ J \subseteq Kept(new)
    BY DEF Final
<1>8. I \in SUBSET Nat /\ IsFiniteSet(I) /\ J \in SUBSET Nat /\ IsFiniteSet(J)
    BY <1>3, <1>7, FS_Subset
<1>9. ASSUME NEW k PROVE Cardinality(ClassOf(I, key, k)) = Cardinality(ClassOf(J, to, k))
  <2> DEFINE S == ClassOf(J, to, k)
  <2>1. S \subseteq J
      BY DEF ClassOf
  <2>2. IsFiniteSet(S) /\ \A x, y \in S : p[x] = p[y] => x = y
    <3>1. S \subseteq DOMAIN old.rows
        BY <1>3, <1>4, <1>7, <2>1
    <3> QED BY <1>2, <1>8, <2>1, <3>1, FS_Subset
  <2>3. ImageOf(p, S) = ClassOf(I, key, k)
    <3>1. ASSUME NEW j \in S PROVE p[j] \in ClassOf(I, key, k)
      <4>1. j \in J /\ to[j] = k /\ j \in Kept(new) /\ j \in DOMAIN old.rows
          BY <1>3, <1>4, <1>7 DEF ClassOf
      <4>2. p[j] \in I /\ key[p[j]] = k
          BY <1>5, <1>6, <4>1
      <4> QED BY <4>2 DEF ClassOf
    <3>2. ASSUME NEW i \in ClassOf(I, key, k) PROVE \E j \in S : p[j] = i
      <4>1. i \in I /\ key[i] = k /\ i \in DOMAIN old.rows
          BY <1>3, <1>7 DEF ClassOf
      <4>2. PICK j \in DOMAIN old.rows : p[j] = i
          BY <1>2, <4>1
      <4>3. j \in J /\ j \in Kept(new)
          BY <1>5, <1>7, <4>1, <4>2
      <4>4. to[j] = k
          BY <1>6, <4>1, <4>2, <4>3
      <4> QED BY <4>2, <4>3, <4>4 DEF ClassOf
    <3> HIDE DEF S
    <3> QED BY <3>1, <3>2 DEF ImageOf
  <2> HIDE DEF S
  <2>4. Cardinality(ImageOf(p, S)) = Cardinality(S)
      BY <2>2, ImageSize
  <2> QED BY <2>3, <2>4 DEF S
<1>10. \E n \in Bijection(I, J) : KeepsClasses(n, I, key, to)
  <2> HIDE DEF I, J, key, to
  <2>1. \A k : Cardinality(ClassOf(I, key, k)) = Cardinality(ClassOf(J, to, k))
      BY <1>9
  <2> QED BY <1>8, <2>1, ClassesCarried
<1>11. PICK n \in Bijection(I, J) : \A i, j \in I : to[n[i]] = key[i] /\ (key[i] = key[j] => (i < j <=> n[i] < n[j]))
    BY <1>10 DEF KeepsClasses
<1>12. n \in [I -> J] /\ (\A i, j \in I : n[i] = n[j] => i = j) /\ \A j \in J : \E i \in I : n[i] = j
    BY DEF Bijection, Injection, Surjection, IsInjective
<1>13. Usable(spec, old) <=> Usable(spec, new)
  <2>1. old.readable = scene.files[side].readable /\ new.readable = scene.files[side].readable
      BY DEF FromScene, Fields
  <2> QED BY <2>1 DEF Usable
<1> DEFINE A == Scoped(fs, side)
           B == Scoped(gs, side)
           Old(i) == RecordOf(side, spec, old, i)
           New(j) == RecordOf(side, spec, new, j)
           m == [r \in A |-> New(n[r.row])]
<1>14. /\ \A r \in A : Usable(spec, old) /\ r.row \in I /\ r = Old(r.row)
       /\ \A t \in B : Usable(spec, old) /\ t.row \in J /\ t = New(t.row)
       /\ Usable(spec, old) => (\A i \in I : Old(i) \in A) /\ (\A j \in J : New(j) \in B)
  <2>1. /\ \A r \in A : Usable(spec, old) /\ r.row \in I /\ r = Old(r.row)
        /\ Usable(spec, old) => \A i \in I : Old(i) \in A
      BY ScopedAre
  <2>2. /\ \A t \in B : Usable(spec, new) /\ t.row \in J /\ t = New(t.row)
        /\ Usable(spec, new) => \A j \in J : New(j) \in B
      BY ScopedAre
  <2> HIDE DEF A, B, I, J, Old, New, spec, old, new
  <2> QED BY <1>13, <2>1, <2>2
<1>15. ASSUME NEW i \in I PROVE Old(i).row = i /\ Old(i).id.key = key[i]
    BY <1>7, RecordOfRow
<1>16. ASSUME NEW j \in J PROVE New(j).row = j /\ New(j).id.key = to[j]
    BY <1>7, RecordOfRow
<1>17. ASSUME Usable(spec, old), NEW i \in I PROVE Like(Old(i), New(n[i]))
  <2> DEFINE j == n[i]
             r == Old(i)
             s == Old(p[j])
             t == New(j)
  <2>1. j \in J /\ j \in Kept(new) /\ j \in DOMAIN old.rows /\ p[j] \in I /\ to[j] = key[i] /\ to[j] = key[p[j]]
      BY <1>3, <1>4, <1>5, <1>6, <1>7, <1>11, <1>12
  <2>2. r \in Intaken(fs, side).records /\ s \in Intaken(fs, side).records
      BY <1>14, <1>17, <2>1 DEF Scoped
  <2>3. r.id.key = s.id.key /\ t.id.key = r.id.key
      BY <1>15, <1>16, <2>1
  <2>4. Pairing(r) = Pairing(s) /\ r.amount = s.amount /\ r.places = s.places
      BY <2>2, <2>3 DEF AlikeOn
  <2>5. r.keys = s.keys /\ r.date = s.date
      BY <2>4 DEF Pairing
  <2>6. new.rows[j] = old.rows[p[j]]
      BY <1>4, <2>1
  <2>7. t.side = r.side /\ t.keys = s.keys /\ t.date = s.date /\ t.amount = s.amount /\ t.places = s.places
      BY <2>6 DEF RecordOf
  <2> QED BY <2>3, <2>4, <2>5, <2>7 DEF Like
<1> HIDE DEF A, B, I, J, Old, New, key, to, old, new, spec
<1>18. \A r \in A : m[r] = New(n[r.row]) /\ n[r.row] \in J /\ m[r] \in B /\ m[r].row = n[r.row] /\ Like(r, m[r])
  <2> TAKE r \in A
  <2>1. r.row \in I /\ r = Old(r.row) /\ Usable(spec, old)
      BY <1>14
  <2>2. n[r.row] \in J
      BY <1>12, <2>1
  <2>3. Like(Old(r.row), New(n[r.row]))
      BY <1>17, <2>1
  <2> QED BY <1>14, <1>16, <2>1, <2>2, <2>3
<1>19. m \in [A -> B]
    BY <1>18
<1> HIDE DEF m
<1>20. ASSUME NEW r \in A, NEW s \in A, m[r] = m[s] PROVE r = s
  <2>1. n[r.row] = n[s.row]
      BY <1>18, <1>20
  <2>2. r.row \in I /\ s.row \in I /\ r = Old(r.row) /\ s = Old(s.row)
      BY <1>14
  <2>3. r.row = s.row
      BY <1>12, <2>1, <2>2
  <2> QED BY <2>2, <2>3
<1>21. ASSUME NEW t \in B PROVE \E r \in A : m[r] = t
  <2>1. Usable(spec, old) /\ t.row \in J /\ t = New(t.row)
      BY <1>14
  <2>2. PICK i \in I : n[i] = t.row
      BY <1>12, <2>1
  <2>3. Old(i) \in A /\ Old(i).row = i
      BY <1>14, <1>15, <2>1
  <2>4. m[Old(i)] = t
      BY <1>18, <2>1, <2>2, <2>3
  <2> QED BY <2>3, <2>4
<1>22. ASSUME NEW r \in A, NEW s \in A, r.id.key = s.id.key PROVE r.row < s.row <=> m[r].row < m[s].row
  <2>1. r.row \in I /\ s.row \in I /\ r = Old(r.row) /\ s = Old(s.row)
      BY <1>14
  <2>2. key[r.row] = key[s.row]
      BY <1>15, <1>22, <2>1
  <2> QED BY <1>11, <1>18, <2>1, <2>2
<1>23. m \in Bijection(A, B)
    BY <1>19, <1>20, <1>21 DEF Bijection, Injection, Surjection, IsInjective
<1>24. Follow(m, A, B)
    BY <1>18, <1>22, <1>23 DEF Follow
<1> QED BY <1>24 DEF A, B
-----------------------------------------------------------------------------
(* Both sides, and what the strategies claim. *)

\* th takes the records of one reading to those of another.
Twins(th, fs, gs) ==
    LET A == Anchored(fs)
        G == Grouped(fs)
    IN  /\ Anchored(gs) = ImageOf(th, A) /\ Grouped(gs) = ImageOf(th, G)
        /\ \A r, s \in A \cup G : th[r] = th[s] => r = s
        /\ \A r \in A \cup G : Like(r, th[r])
        /\ \A r, s \in A \cup G :
             r.side = s.side /\ r.id.key = s.id.key => (r.row < s.row <=> th[r].row < th[s].row)

LEMMA FollowIs ==
    ASSUME NEW m, NEW A, NEW B, Follow(m, A, B)
    PROVE  /\ B = ImageOf(m, A)
           /\ \A r, s \in A : m[r] = m[s] => r = s
           /\ \A r \in A : Like(r, m[r])
           /\ \A r, s \in A : r.id.key = s.id.key => (r.row < s.row <=> m[r].row < m[s].row)
<1>1. m \in [A -> B] /\ (\A r, s \in A : m[r] = m[s] => r = s) /\ \A t \in B : \E r \in A : m[r] = t
    BY DEF Follow, Bijection, Injection, Surjection, IsInjective
<1>2. B = ImageOf(m, A)
    BY <1>1 DEF ImageOf
<1> QED BY <1>1, <1>2 DEF Follow

LEMMA TwinsExist ==
    ASSUME NEW scene \in Scenes, specs = scene.specs,
           NEW fs, FromScene(fs, scene, MaxExports), NEW gs, FromScene(gs, scene, MaxExports),
           \A side \in Sides :
              specs[side].natural # <<>> /\ SameRows(fs[side], gs[side]) /\ AlikeOn(fs, side)
    PROVE  \E th : Twins(th, fs, gs)
<1>1. Anchors \in Sides /\ Groups \in Sides
    BY DEF Sides
<1>2. PICK ma : Follow(ma, Scoped(fs, Anchors), Scoped(gs, Anchors))
    BY <1>1, SideCorresponds
<1>3. PICK mg : Follow(mg, Scoped(fs, Groups), Scoped(gs, Groups))
    BY <1>1, SideCorresponds
<1> DEFINE A == Anchored(fs)
           G == Grouped(fs)
           th == [r \in A \cup G |-> IF r.side = Anchors THEN ma[r] ELSE mg[r]]
<1>4. /\ \A r \in Intaken(fs, Anchors).records : r.side = Anchors
      /\ \A r \in Intaken(fs, Groups).records : r.side = Groups
      /\ \A r \in Intaken(gs, Groups).records : r.side = Groups
    BY <1>1, RecordsAreTyped DEF IsRecord
<1>5. /\ A = Scoped(fs, Anchors) /\ Anchored(gs) = Scoped(gs, Anchors)
      /\ G = Scoped(fs, Groups) /\ Grouped(gs) = Scoped(gs, Groups)
    BY <1>4 DEF Anchored, Grouped, Scoped, InScope
<1>6. /\ \A r \in A : r.side = Anchors /\ th[r] = ma[r]
      /\ \A r \in G : r.side = Groups /\ r.side # Anchors /\ th[r] = mg[r]
    BY <1>4, BreaksAssumption DEF Anchored, Grouped
<1>7. /\ Anchored(gs) = ImageOf(ma, A)
      /\ \A r, s \in A : ma[r] = ma[s] => r = s
      /\ \A r \in A : Like(r, ma[r])
      /\ \A r, s \in A : r.id.key = s.id.key => (r.row < s.row <=> ma[r].row < ma[s].row)
  <2>1. Follow(ma, A, Anchored(gs))
      BY <1>2, <1>5
  <2> HIDE DEF A
  <2> QED BY <2>1, FollowIs
<1>8. /\ Grouped(gs) = ImageOf(mg, G)
      /\ \A r, s \in G : mg[r] = mg[s] => r = s
      /\ \A r \in G : Like(r, mg[r])
      /\ \A r, s \in G : r.id.key = s.id.key => (r.row < s.row <=> mg[r].row < mg[s].row)
  <2>1. Follow(mg, G, Grouped(gs))
      BY <1>3, <1>5
  <2> HIDE DEF G
  <2> QED BY <2>1, FollowIs
<1> HIDE DEF A, G, th
<1>9. Anchored(gs) = ImageOf(th, A) /\ Grouped(gs) = ImageOf(th, G)
    BY <1>6, <1>7, <1>8 DEF ImageOf
<1>10. \A r \in A \cup G : Like(r, th[r])
    BY <1>6, <1>7, <1>8
<1>11. ASSUME NEW r \in A \cup G, NEW s \in A \cup G, th[r] = th[s] PROVE r = s
  <2>1. r.side = s.side
      BY <1>10, <1>11 DEF Like
  <2> QED BY <1>6, <1>7, <1>8, <1>11, <2>1
<1>12. ASSUME NEW r \in A \cup G, NEW s \in A \cup G, r.side = s.side, r.id.key = s.id.key
       PROVE  r.row < s.row <=> th[r].row < th[s].row
    BY <1>6, <1>7, <1>8, <1>12
<1> QED BY <1>9, <1>10, <1>11, <1>12 DEF Twins, A, G

\* The total of a group is the sum of its amounts.
LEMMA GroupTotal ==
    ASSUME NEW S, IsFiniteSet(S), NEW f, \A g \in S : f[g] = g.amount /\ f[g] \in Int
    PROVE  MapThenSumSet(LAMBDA g : g.amount, S) = SumFunctionOnSet(f, S)
<1> DEFINE P(h) == h = [s \in SUBSET S |-> IF s = {} THEN 0 ELSE Chosen(s).amount + h[s \ {Chosen(s)}]]
<1>1. MapThenSumSet(LAMBDA g : g.amount, S) = (CHOOSE h : P(h))[S]
    BY DEF MapThenSumSet, MapThenFoldSet, Chosen
<1>2. \A s \in SUBSET S : s # {} => Chosen(s).amount = f[Chosen(s)]
    BY DEF Chosen
<1>3. ASSUME NEW h PROVE P(h) <=> IsSum(h, f, S)
    BY <1>2 DEF IsSum
<1>4. PICK h : IsSum(h, f, S)
    BY SumExists
<1>5. P(CHOOSE k : P(k))
    BY <1>3, <1>4
<1>6. IsSum(CHOOSE k : P(k), f, S)
    BY <1>3, <1>5
<1>7. PICK k : IsSum(k, f, S) /\ SumFunctionOnSet(f, S) = k[S]
    BY SumExists, SumIs
<1> HIDE DEF P
<1> QED BY <1>1, <1>6, <1>7, SumWithin

LEMMA TotalCarried ==
    ASSUME NEW S, IsFiniteSet(S), NEW th, \A r, s \in S : th[r] = th[s] => r = s,
           \A r \in S : r.amount \in Int /\ th[r].amount = r.amount
    PROVE  MapThenSumSet(LAMBDA g : g.amount, ImageOf(th, S)) = MapThenSumSet(LAMBDA g : g.amount, S)
<1> DEFINE T == ImageOf(th, S)
           b == [r \in S |-> th[r]]
           f == [r \in S |-> r.amount]
           h == [r \in T |-> r.amount]
<1>1. IsFiniteSet(T)
    BY ImageSize
<1>2. b \in Bijection(S, T)
    BY DEF ImageOf, Bijection, Injection, Surjection, IsInjective
<1>3. \A r \in S : f[r] = r.amount /\ f[r] \in Int
    OBVIOUS
<1>4. \A t \in T : h[t] = t.amount /\ h[t] \in Int
    BY DEF ImageOf
<1>5. \A r \in S : f[r] \in Int /\ h[b[r]] = f[r]
    BY DEF ImageOf
<1> HIDE DEF T, b, f, h
<1>6. SumFunctionOnSet(f, S) = SumFunctionOnSet(h, T)
    BY <1>2, <1>5, SumsAgree
<1>7. MapThenSumSet(LAMBDA g : g.amount, S) = SumFunctionOnSet(f, S)
    BY <1>3, GroupTotal
<1>8. MapThenSumSet(LAMBDA g : g.amount, T) = SumFunctionOnSet(h, T)
    BY <1>1, <1>4, GroupTotal
<1> QED BY <1>6, <1>7, <1>8 DEF T

Contend(fs, p) == Contenders(Paired(Anchored(fs), p), Paired(Grouped(fs), p))

LEMMA EmptyImage == \A f, S : ImageOf(f, S) = {} <=> S = {}
BY DEF ImageOf

LEMMA BothTyped ==
    ASSUME NEW scene \in Scenes, specs = scene.specs, NEW fs, FromScene(fs, scene, MaxExports)
    PROVE  /\ IsFiniteSet(Anchored(fs)) /\ \A r \in Anchored(fs) : IsRecord(r, Anchors)
           /\ IsFiniteSet(Grouped(fs)) /\ \A r \in Grouped(fs) : IsRecord(r, Groups)
<1>1. Anchors \in Sides /\ Groups \in Sides
    BY DEF Sides
<1>2. /\ IsFiniteSet(Intaken(fs, Anchors).records) /\ \A r \in Intaken(fs, Anchors).records : IsRecord(r, Anchors)
      /\ IsFiniteSet(Grouped(fs)) /\ \A r \in Grouped(fs) : IsRecord(r, Groups)
    BY <1>1, RecordsAreTyped DEF Grouped
<1>3. Anchored(fs) \in SUBSET Intaken(fs, Anchors).records
    BY DEF Anchored
<1> QED BY <1>2, <1>3, FS_Subset

LEMMA PairedCarried ==
    ASSUME NEW th, NEW fs, NEW gs, Twins(th, fs, gs), NEW p
    PROVE  /\ Paired(Anchored(gs), p) = ImageOf(th, Paired(Anchored(fs), p))
           /\ Paired(Grouped(gs), p) = ImageOf(th, Paired(Grouped(fs), p))
<1>1. \A r \in Anchored(fs) \cup Grouped(fs) : Pairing(th[r]) = Pairing(r)
    BY DEF Twins, Like, Pairing
<1>2. ASSUME NEW S, \A r \in S : Pairing(th[r]) = Pairing(r)
      PROVE  Paired(ImageOf(th, S), p) = ImageOf(th, Paired(S, p))
    BY <1>2 DEF Paired, ImageOf
<1>3. Anchored(gs) = ImageOf(th, Anchored(fs)) /\ Grouped(gs) = ImageOf(th, Grouped(fs))
    BY DEF Twins
<1> QED BY <1>1, <1>2, <1>3

LEMMA TiesCarried ==
    ASSUME NEW scene \in Scenes, specs = scene.specs, NEW fs, FromScene(fs, scene, MaxExports),
           NEW th, NEW gs, Twins(th, fs, gs), NEW a \in Anchored(fs), NEW p, NEW budget
    PROVE  Ties(th[a], Paired(Grouped(gs), p), budget) <=> Ties(a, Paired(Grouped(fs), p), budget)
<1> DEFINE S == Paired(Grouped(fs), p)
<1>1. S \in SUBSET Grouped(fs)
    BY DEF Paired
<1>2. IsFiniteSet(S) /\ \A r \in S : IsRecord(r, Groups)
    BY <1>1, BothTyped, FS_Subset
<1>3. Paired(Grouped(gs), p) = ImageOf(th, S)
    BY PairedCarried
<1> HIDE DEF S
<1>4. \A r, s \in S : th[r] = th[s] => r = s
    BY <1>1 DEF Twins
<1>5. \A r \in S : r.amount \in Int /\ th[r].amount = r.amount
    BY <1>1, <1>2 DEF Twins, Like, IsRecord
<1>6. MapThenSumSet(LAMBDA g : g.amount, ImageOf(th, S)) = MapThenSumSet(LAMBDA g : g.amount, S)
    BY <1>2, <1>4, <1>5, TotalCarried
<1>7. th[a].amount = a.amount
    BY DEF Twins, Like
<1>8. ImageOf(th, S) = {} <=> S = {}
    BY DEF ImageOf
<1>9. Ties(th[a], ImageOf(th, S), budget) <=> Ties(a, S, budget)
    BY <1>6, <1>7, <1>8 DEF Ties
<1> QED BY <1>3, <1>9 DEF S

LEMMA ContendersCarried ==
    ASSUME NEW scene \in Scenes, specs = scene.specs, NEW fs, FromScene(fs, scene, MaxExports),
           NEW th, NEW gs, Twins(th, fs, gs), NEW p
    PROVE  Contend(gs, p) = ImageOf(th, Contend(fs, p)) /\ Contend(fs, p) \subseteq Paired(Anchored(fs), p)
<1> DEFINE A == Paired(Anchored(fs), p)
           G == Paired(Grouped(fs), p)
           A2 == Paired(Anchored(gs), p)
           G2 == Paired(Grouped(gs), p)
           in(budget) == {a \in A : Ties(a, G, budget)}
           out(budget) == {a \in A2 : Ties(a, G2, budget)}
<1>1. A2 = ImageOf(th, A) /\ A \subseteq Anchored(fs)
    BY PairedCarried DEF Paired
<1>2. \A budget : \A a \in A : Ties(th[a], G2, budget) <=> Ties(a, G, budget)
    BY <1>1, TiesCarried
<1>3. Contend(fs, p) = (IF in(0) # {} THEN in(0) ELSE in(Tolerance)) /\ Contend(gs, p) = (IF out(0) # {} THEN out(0) ELSE out(Tolerance))
    BY DEF Contend, Contenders
<1> HIDE DEF A, G, A2, G2
<1>4. ASSUME NEW budget PROVE out(budget) = ImageOf(th, in(budget))
    BY <1>1, <1>2 DEF ImageOf
<1>5. out(0) = {} <=> in(0) = {}
  <2>1. out(0) = ImageOf(th, in(0))
      BY <1>4
  <2> QED BY <2>1, EmptyImage
<1>6. in(0) \subseteq A /\ in(Tolerance) \subseteq A
    OBVIOUS
<1> HIDE DEF in, out
<1>7. Contend(gs, p) = ImageOf(th, Contend(fs, p)) /\ Contend(fs, p) \subseteq A
    BY <1>3, <1>4, <1>5, <1>6
<1> QED BY <1>7 DEF A

\* Where all who contend for a group have one key, the first of them is the first again.
LEMMA ClaimsCarried ==
    ASSUME NEW scene \in Scenes, specs = scene.specs, \A side \in Sides : specs[side].natural # <<>>,
           NEW fs, FromScene(fs, scene, MaxExports), NEW gs, FromScene(gs, scene, MaxExports),
           NEW th, Twins(th, fs, gs), NEW p, \A a, b \in Contend(fs, p) : a.id.key = b.id.key
    PROVE  ClaimedOf(gs, p) = ImageOf(th, ClaimedOf(fs, p))
<1> DEFINE C == Contend(fs, p)
           D == Contend(gs, p)
<1>1. D = ImageOf(th, C) /\ C \subseteq Anchored(fs)
    BY ContendersCarried DEF Paired
<1>2. ClaimedOf(fs, p) = {a \in C : \A b \in C : a.row <= b.row} /\ ClaimedOf(gs, p) = {a \in D : \A b \in D : a.row <= b.row}
    BY DEF ClaimedOf, Claims, Contend
<1> HIDE DEF C, D
<1>3. \A a \in C : a.row \in Nat /\ th[a].row \in Nat
  <2> TAKE a \in C
  <2>1. Anchors \in Sides
      BY DEF Sides
  <2>2. a \in Intaken(fs, Anchors).records /\ th[a] \in Intaken(gs, Anchors).records
    <3>1. th[a] \in Anchored(gs)
        BY <1>1 DEF Twins, ImageOf
    <3> QED BY <1>1, <3>1 DEF Anchored
  <2> QED BY <2>1, <2>2, IdsAreOrdered
<1>4. ASSUME NEW a \in C, NEW b \in C PROVE b.row < a.row <=> th[b].row < th[a].row
  <2>1. a.id.key = b.id.key
      BY DEF C
  <2>2. a.side = b.side
      BY <1>1, BothTyped DEF IsRecord
  <2> QED BY <1>1, <2>1, <2>2 DEF Twins
<1>5. ASSUME NEW a \in C, NEW b \in C PROVE a.row <= b.row <=> th[a].row <= th[b].row
  <2>1. a.row \in Nat /\ b.row \in Nat /\ th[a].row \in Nat /\ th[b].row \in Nat
      BY <1>3
  <2>2. b.row < a.row <=> th[b].row < th[a].row
      BY <1>4
  <2> QED BY <2>1, <2>2
<1> QED BY <1>1, <1>2, <1>5 DEF ImageOf

\* What is left over corresponds.
LEMMA LeftCarried ==
    ASSUME NEW th, NEW fs, NEW gs, Twins(th, fs, gs),
           \A p : ClaimedOf(gs, p) = ImageOf(th, ClaimedOf(fs, p)) /\ ClaimedOf(fs, p) \subseteq Anchored(fs)
    PROVE  /\ LeftRows(LeftOver(fs)) \subseteq Anchored(fs) \cup Grouped(fs)
           /\ LeftOver(fs).anchors \subseteq Anchored(fs) /\ UNION LeftOver(fs).groups \subseteq Grouped(fs)
           /\ LeftOver(gs).anchors = ImageOf(th, LeftOver(fs).anchors)
           /\ \A g \in LeftOver(fs).groups : ImageOf(th, g) \in LeftOver(gs).groups
           /\ UNION LeftOver(gs).groups = ImageOf(th, UNION LeftOver(fs).groups)
<1> DEFINE left == LeftOver(fs)
           new == LeftOver(gs)
           A == Anchored(fs)
           G == Grouped(fs)
<1>1. /\ left.anchors = {a \in A : a \notin ClaimedOf(fs, Pairing(a))}
      /\ \A g : g \in left.groups <=> \E r \in G : g = Paired(G, Pairing(r)) /\ ClaimedOf(fs, Pairing(r)) = {}
      /\ \A r : r \in UNION left.groups <=> r \in G /\ ClaimedOf(fs, Pairing(r)) = {}
    BY LeftOverIs
<1>2. /\ new.anchors = {a \in Anchored(gs) : a \notin ClaimedOf(gs, Pairing(a))}
      /\ \A g : g \in new.groups <=>
            \E r \in Grouped(gs) : g = Paired(Grouped(gs), Pairing(r)) /\ ClaimedOf(gs, Pairing(r)) = {}
      /\ \A r : r \in UNION new.groups <=> r \in Grouped(gs) /\ ClaimedOf(gs, Pairing(r)) = {}
    BY LeftOverIs
<1>3. /\ Anchored(gs) = ImageOf(th, A) /\ Grouped(gs) = ImageOf(th, G)
      /\ \A r, s \in A \cup G : th[r] = th[s] => r = s
      /\ \A r \in A \cup G : Pairing(th[r]) = Pairing(r)
    BY DEF Twins, Like, Pairing
<1>4. \A p : Paired(Grouped(gs), p) = ImageOf(th, Paired(G, p))
    BY PairedCarried
<1>5. \A p : ClaimedOf(gs, p) = {} <=> ClaimedOf(fs, p) = {}
  <2> TAKE p
  <2> QED BY EmptyImage
<1> HIDE DEF left, new, A, G
<1>6. ASSUME NEW a \in A PROVE th[a] \in ClaimedOf(gs, Pairing(a)) <=> a \in ClaimedOf(fs, Pairing(a))
  <2>1. /\ ClaimedOf(gs, Pairing(a)) = ImageOf(th, ClaimedOf(fs, Pairing(a)))
        /\ ClaimedOf(fs, Pairing(a)) \subseteq A
      BY DEF A
  <2> QED BY <1>3, <2>1 DEF ImageOf
<1>7. new.anchors = ImageOf(th, left.anchors)
    BY <1>1, <1>2, <1>3, <1>6 DEF ImageOf
<1>8. ASSUME NEW g \in left.groups PROVE ImageOf(th, g) \in new.groups
  <2>1. PICK r \in G : g = Paired(G, Pairing(r)) /\ ClaimedOf(fs, Pairing(r)) = {}
      BY <1>1
  <2>2. th[r] \in Grouped(gs) /\ Pairing(th[r]) = Pairing(r)
      BY <1>3 DEF ImageOf
  <2>3. ImageOf(th, g) = Paired(Grouped(gs), Pairing(th[r])) /\ ClaimedOf(gs, Pairing(th[r])) = {}
      BY <1>4, <1>5, <2>1, <2>2
  <2> QED BY <1>2, <2>2, <2>3
<1>9. UNION new.groups = ImageOf(th, UNION left.groups)
  <2> DEFINE U == UNION left.groups
             V == UNION new.groups
  <2>1. \A r : r \in U <=> r \in G /\ ClaimedOf(fs, Pairing(r)) = {}
      BY <1>1
  <2>2. \A r : r \in V <=> r \in ImageOf(th, G) /\ ClaimedOf(fs, Pairing(r)) = {}
      BY <1>2, <1>3, <1>5
  <2> HIDE DEF U, V
  <2>3. V = ImageOf(th, U)
      BY <1>3, <2>1, <2>2 DEF ImageOf
  <2> QED BY <2>3 DEF U, V
<1>10. left.anchors \subseteq A /\ UNION left.groups \subseteq G
    BY <1>1
<1> QED BY <1>7, <1>8, <1>9, <1>10 DEF left, new, A, G, LeftRows

LEMMA TwinsOfSide ==
    ASSUME NEW scene \in Scenes, specs = scene.specs, NEW fs, FromScene(fs, scene, MaxExports),
           NEW gs, NEW th, Twins(th, fs, gs),
           NEW c \in Anchored(fs) \cup Grouped(fs), NEW d \in Anchored(fs) \cup Grouped(fs), c.side = d.side
    PROVE  \E side \in Sides :
              /\ IsRecord(c, side) /\ IsRecord(d, side)
              /\ {c, d} \subseteq Intaken(fs, side).records /\ {th[c], th[d]} \subseteq Intaken(gs, side).records
<1>1. /\ \A r \in Anchored(fs) : IsRecord(r, Anchors)
      /\ \A r \in Grouped(fs) : IsRecord(r, Groups)
    BY BothTyped
<1>2. \A r \in Anchored(fs) : th[r] \in Anchored(gs)
    BY DEF Twins, ImageOf
<1>3. \A r \in Grouped(fs) : th[r] \in Grouped(gs)
    BY DEF Twins, ImageOf
<1>4. CASE c \in Anchored(fs)
  <2>1. d \in Anchored(fs)
      BY <1>1, <1>4, BreaksAssumption DEF IsRecord
  <2>2. th[c] \in Anchored(gs) /\ th[d] \in Anchored(gs)
      BY <1>2, <1>4, <2>1
  <2>3. {c, d} \subseteq Intaken(fs, Anchors).records /\ {th[c], th[d]} \subseteq Intaken(gs, Anchors).records
      BY <1>4, <2>1, <2>2 DEF Anchored
  <2> QED BY <1>1, <1>4, <2>1, <2>3 DEF Sides
<1>5. CASE c \in Grouped(fs)
  <2>1. d \in Grouped(fs)
      BY <1>1, <1>5, BreaksAssumption DEF IsRecord
  <2>2. th[c] \in Grouped(gs) /\ th[d] \in Grouped(gs)
      BY <1>3, <1>5, <2>1
  <2>3. {c, d} \subseteq Intaken(fs, Groups).records /\ {th[c], th[d]} \subseteq Intaken(gs, Groups).records
      BY <1>5, <2>1, <2>2 DEF Grouped
  <2> QED BY <1>1, <1>5, <2>1, <2>3 DEF Sides
<1> QED BY <1>4, <1>5

\* The order of two candidates is the same, and there is one.
LEMMA CloserCarried ==
    ASSUME NEW scene \in Scenes, specs = scene.specs, \A side \in Sides : specs[side].natural # <<>>,
           NEW fs, FromScene(fs, scene, MaxExports), NEW gs, FromScene(gs, scene, MaxExports),
           NEW th, Twins(th, fs, gs), NEW r \in Anchored(fs) \cup Grouped(fs),
           NEW c \in Anchored(fs) \cup Grouped(fs), NEW d \in Anchored(fs) \cup Grouped(fs), c.side = d.side
    PROVE  /\ Closer(th[r], th[c], th[d]) <=> Closer(r, c, d)
           /\ c # d => Closer(r, c, d) \/ Closer(r, d, c)
<1>1. PICK side \in Sides :
              /\ IsRecord(c, side) /\ IsRecord(d, side)
              /\ {c, d} \subseteq Intaken(fs, side).records /\ {th[c], th[d]} \subseteq Intaken(gs, side).records
    BY TwinsOfSide
<1>2. Like(r, th[r]) /\ Like(c, th[c]) /\ Like(d, th[d])
    BY DEF Twins
<1>3. /\ IdBefore(c, d) <=> \/ Digest(c.id.key) < Digest(d.id.key)
                            \/ c.id.key = d.id.key /\ c.row < d.row
      /\ c # d => IdBefore(c, d) \/ IdBefore(d, c)
    BY <1>1, IdsAreOrdered
<1>4. IdBefore(th[c], th[d]) <=> \/ Digest(th[c].id.key) < Digest(th[d].id.key)
                                 \/ th[c].id.key = th[d].id.key /\ th[c].row < th[d].row
    BY <1>1, IdsAreOrdered
<1>5. c.id.key = d.id.key => (c.row < d.row <=> th[c].row < th[d].row)
    BY DEF Twins
<1>6. th[c].id.key = c.id.key /\ th[d].id.key = d.id.key
    BY <1>2 DEF Like
<1>7. IdBefore(th[c], th[d]) <=> IdBefore(c, d)
  <2> DEFINE x == th[c]
             y == th[d]
  <2> HIDE DEF x, y
  <2>1. x.id.key = c.id.key /\ y.id.key = d.id.key
      BY <1>6 DEF x, y
  <2>2. IdBefore(x, y) <=> Digest(x.id.key) < Digest(y.id.key) \/ (x.id.key = y.id.key /\ x.row < y.row)
      BY <1>4 DEF x, y
  <2>3. c.id.key = d.id.key => (c.row < d.row <=> x.row < y.row)
      BY <1>5 DEF x, y
  <2>4. Digest(x.id.key) = Digest(c.id.key) /\ Digest(y.id.key) = Digest(d.id.key)
      BY <2>1
  <2>5. IdBefore(x, y) <=> IdBefore(c, d)
      BY <1>3, <2>1, <2>2, <2>3, <2>4
  <2> QED BY <2>5 DEF x, y
<1>8. Agreement(th[r], th[c]) = Agreement(r, c) /\ Agreement(th[r], th[d]) = Agreement(r, d)
    BY <1>2, AlikeDiffer
<1> DEFINE delta(z, x) == Magnitude(z.amount - x.amount)
<1>9. delta(th[r], th[c]) = delta(r, c) /\ delta(th[r], th[d]) = delta(r, d)
    BY <1>2 DEF Like
<1>10. \A z, x, y : Closer(z, x, y) <=>
        \/ Agreement(z, x) > Agreement(z, y)
        \/ /\ Agreement(z, x) = Agreement(z, y)
           /\ delta(z, x) < delta(z, y) \/ (delta(z, x) = delta(z, y) /\ IdBefore(x, y))
    BY DEF Closer
<1>11. delta(r, c) \in Int /\ delta(r, d) \in Int
  <2>1. PICK own \in Sides : IsRecord(r, own)
      BY TwinsOfSide
  <2>2. r.amount \in Int /\ c.amount \in Int /\ d.amount \in Int
      BY <1>1, <2>1 DEF IsRecord
  <2>3. \A x, y \in Int : Magnitude(x - y) \in Int
      BY DEF Magnitude
  <2> QED BY <2>2, <2>3
<1> HIDE DEF delta
<1>12. Closer(th[r], th[c], th[d]) <=> Closer(r, c, d)
    BY <1>7, <1>8, <1>9, <1>10
<1>13. ASSUME c # d PROVE Closer(r, c, d) \/ Closer(r, d, c)
  <2>1. Agreement(r, c) \in Nat /\ Agreement(r, d) \in Nat
      BY AgreementIsNumber
  <2>2. IdBefore(c, d) \/ IdBefore(d, c)
      BY <1>3, <1>13
  <2> QED BY <1>10, <1>11, <2>1, <2>2
<1> QED BY <1>12, <1>13

\* The candidates of a row, those shown and the closest: their images are those of its image.
LEMMA CandidatesCarried ==
    ASSUME NEW scene \in Scenes, specs = scene.specs, \A side \in Sides : specs[side].natural # <<>>,
           NEW fs, FromScene(fs, scene, MaxExports), NEW gs, FromScene(gs, scene, MaxExports),
           NEW th, Twins(th, fs, gs), NEW r \in Anchored(fs) \cup Grouped(fs),
           NEW others, IsFiniteSet(others), others \in SUBSET (Anchored(fs) \cup Grouped(fs)),
           \A c, d \in others : c.side = d.side
    PROVE  /\ Candidates(th[r], ImageOf(th, others)) = ImageOf(th, Candidates(r, others))
           /\ Shown(th[r], ImageOf(th, others)) = ImageOf(th, Shown(r, others))
<1> DEFINE C == Candidates(r, others)
           D == Candidates(th[r], ImageOf(th, others))
           before(c) == {d \in C : Closer(r, d, c)}
           ahead(t) == {u \in D : Closer(th[r], u, t)}
<1>1. C \subseteq others /\ IsFiniteSet(C)
  <2>1. C \in SUBSET others
      BY DEF Candidates
  <2> QED BY <2>1, FS_Subset
<1>2. D = ImageOf(th, C)
  <2>1. \A c \in others : Differs(th[r], th[c]) = Differs(r, c)
    <3> TAKE c \in others
    <3>1. Like(r, th[r]) /\ Like(c, th[c])
        BY DEF Twins
    <3> QED BY <3>1, AlikeDiffer
  <2> QED BY <2>1 DEF Candidates, ImageOf
<1>3. \A c, d \in others : th[c] = th[d] => c = d
    BY DEF Twins
<1>4. \A c, d \in others : Closer(th[r], th[d], th[c]) <=> Closer(r, d, c)
    BY CloserCarried
<1>5. Shown(r, others) = {c \in C : Cardinality(before(c)) < Limit} /\ Shown(th[r], ImageOf(th, others)) = {t \in D : Cardinality(ahead(t)) < Limit}
    BY DEF Shown
<1> HIDE DEF C, D
<1>6. ASSUME NEW c \in C PROVE Cardinality(ahead(th[c])) = Cardinality(before(c))
  <2>1. ahead(th[c]) = ImageOf(th, before(c))
      BY <1>1, <1>2, <1>4 DEF ImageOf
  <2>2. before(c) \in SUBSET C
      OBVIOUS
  <2>3. IsFiniteSet(before(c)) /\ \A x, y \in before(c) : th[x] = th[y] => x = y
      BY <1>1, <1>3, <2>2, FS_Subset
  <2> HIDE DEF before, ahead
  <2> QED BY <2>1, <2>3, ImageSize
<1> HIDE DEF before, ahead
<1>7. Shown(th[r], ImageOf(th, others)) = ImageOf(th, Shown(r, others))
    BY <1>2, <1>5, <1>6 DEF ImageOf
<1> QED BY <1>2, <1>7 DEF C, D

LEMMA ReorderCarries ==
    ASSUME NEW scene \in Scenes, specs = scene.specs, \A side \in Sides : specs[side].natural # <<>>,
           NEW fs, FromScene(fs, scene, MaxExports), NEW gs, FromScene(gs, scene, MaxExports),
           NEW th, Twins(th, fs, gs),
           \A p : ClaimedOf(gs, p) = ImageOf(th, ClaimedOf(fs, p)) /\ ClaimedOf(fs, p) \subseteq Anchored(fs)
    PROVE  \E f : /\ Carries(f, LeftOver(fs), LeftOver(gs))
                  /\ LeftRows(LeftOver(gs)) = ImageOf(f, LeftRows(LeftOver(fs)))
<1> DEFINE left == LeftOver(fs)
           new == LeftOver(gs)
           L == LeftRows(left)
           f == [r \in L |-> th[r]]
<1>1. /\ L \subseteq Anchored(fs) \cup Grouped(fs)
      /\ left.anchors \subseteq Anchored(fs) /\ UNION left.groups \subseteq Grouped(fs)
      /\ new.anchors = ImageOf(th, left.anchors)
      /\ \A g \in left.groups : ImageOf(th, g) \in new.groups
      /\ UNION new.groups = ImageOf(th, UNION left.groups)
    BY LeftCarried
<1>2. IsLeft(left) /\ IsLeft(new)
    BY LeftIsLeft
<1> HIDE DEF left, new
<1>3. L = left.anchors \cup UNION left.groups /\ LeftRows(new) = new.anchors \cup UNION new.groups
    BY DEF LeftRows
<1> HIDE DEF L
<1>4. LeftRows(new) = ImageOf(th, L)
    BY <1>1, <1>3 DEF ImageOf
<1>5. \A S : S \subseteq L => ImageOf(f, S) = ImageOf(th, S)
    BY DEF ImageOf
<1>6. \A r \in L : f[r] = th[r] /\ Like(r, f[r])
    BY <1>1 DEF Twins
<1>7. f \in [L -> LeftRows(new)]
    BY <1>4 DEF ImageOf
<1> HIDE DEF f
<1>8. \A r, s \in L : f[r] = f[s] => r = s
    BY <1>1, <1>6 DEF Twins
<1>9. ASSUME NEW r \in L
      PROVE  /\ Others(f[r], new) = ImageOf(th, Others(r, left))
             /\ Others(r, left) \subseteq L /\ IsFiniteSet(Others(r, left))
             /\ \A c, d \in Others(r, left) : c.side = d.side
  <2>1. f[r].side = r.side
      BY <1>6 DEF Like
  <2>2. Others(f[r], new) = ImageOf(th, Others(r, left))
      BY <1>1, <2>1 DEF Others
  <2>3. Others(r, left) \subseteq L /\ IsFiniteSet(Others(r, left))
      BY <1>2, RowsOfLeft DEF L
  <2>4. PICK side, other \in Sides : IsRecord(r, side) /\ \A c \in Others(r, left) : IsRecord(c, other)
      BY <1>2, RowsOfLeft DEF L
  <2>5. \A c, d \in Others(r, left) : c.side = d.side
      BY <2>4 DEF IsRecord
  <2> QED BY <2>2, <2>3, <2>5
<1>10. ASSUME NEW r \in L
       PROVE  /\ Others(r, left) = {} <=> Others(f[r], new) = {}
              /\ Candidates(f[r], Others(f[r], new)) = ImageOf(f, Candidates(r, Others(r, left)))
              /\ Shown(f[r], Others(f[r], new)) = ImageOf(f, Shown(r, Others(r, left)))
              /\ Candidates(r, Others(r, left)) # {} => Closest(f[r], Others(f[r], new)) = f[Closest(r, Others(r, left))]
  <2> DEFINE o == Others(r, left)
             n == Others(f[r], new)
  <2>1. /\ n = ImageOf(th, o) /\ o \subseteq L /\ IsFiniteSet(o)
        /\ \A c, d \in o : c.side = d.side
      BY <1>9
  <2>2. f[r] = th[r] /\ r \in Anchored(fs) \cup Grouped(fs)
      BY <1>1, <1>6
  <2>3. o \in SUBSET (Anchored(fs) \cup Grouped(fs))
      BY <1>1, <2>1
  <2>4. Candidates(r, o) \subseteq o /\ Shown(r, o) \subseteq o
      BY DEF Candidates, Shown
  <2> HIDE DEF o, n
  <2>5. /\ Candidates(th[r], ImageOf(th, o)) = ImageOf(th, Candidates(r, o))
        /\ Shown(th[r], ImageOf(th, o)) = ImageOf(th, Shown(r, o))
      BY <2>1, <2>2, <2>3, CandidatesCarried
  <2>6. Candidates(f[r], n) = ImageOf(f, Candidates(r, o)) /\ Shown(f[r], n) = ImageOf(f, Shown(r, o))
    <3>1. ImageOf(f, Candidates(r, o)) = ImageOf(th, Candidates(r, o)) /\ ImageOf(f, Shown(r, o)) = ImageOf(th, Shown(r, o))
        BY <1>5, <2>1, <2>4
    <3> QED BY <2>1, <2>2, <2>5, <3>1
  <2>7. o = {} <=> n = {}
      BY <2>1, EmptyImage
  <2>8. ASSUME Candidates(r, o) # {} PROVE Closest(f[r], n) = f[Closest(r, o)]
    <3>1. /\ Closest(r, o) \in Shown(r, o)
          /\ \A d \in Shown(r, o) : ~Closer(r, d, Closest(r, o))
        BY <1>2, <2>8, ClosestOfLeft DEF o, L
    <3>2. f[r] \in LeftRows(new) /\ Candidates(f[r], n) # {}
        BY <1>7, <2>6, <2>8, EmptyImage
    <3>3. /\ Closest(f[r], n) \in Shown(f[r], n)
          /\ \A d \in Shown(f[r], n) : ~Closer(f[r], d, Closest(f[r], n))
        BY <1>2, <3>2, ClosestOfLeft DEF n
    <3>4. PICK c \in Shown(r, o) : Closest(f[r], n) = th[c]
        BY <2>1, <2>2, <2>5, <3>3 DEF ImageOf
    <3> DEFINE c0 == Closest(r, o)
    <3>5. c0 \in Shown(r, o) /\ \A d \in Shown(r, o) : ~Closer(r, d, c0)
        BY <3>1
    <3> HIDE DEF c0
    <3>6. c \in o /\ c0 \in o /\ c0 \in L
        BY <2>1, <2>4, <3>5
    <3>7. c.side = c0.side /\ c \in Anchored(fs) \cup Grouped(fs) /\ c0 \in Anchored(fs) \cup Grouped(fs)
        BY <2>1, <2>3, <3>6
    <3>8. th[c0] \in Shown(f[r], n)
        BY <2>1, <2>2, <2>5, <3>5 DEF ImageOf
    <3>9. ~Closer(th[r], th[c0], th[c])
        BY <2>2, <3>3, <3>4, <3>8
    <3>10. ~Closer(r, c0, c)
        BY <2>2, <3>7, <3>9, CloserCarried
    <3>11. ~Closer(r, c, c0)
        BY <3>5
    <3>12. c = c0
        BY <2>2, <3>7, <3>10, <3>11, CloserCarried
    <3> QED BY <1>6, <3>4, <3>6, <3>12 DEF c0
  <2> QED BY <2>6, <2>7, <2>8 DEF o, n
<1>11. \A r \in left.anchors : f[r] \in new.anchors
    BY <1>1, <1>3, <1>6 DEF ImageOf
<1>12. \A g \in left.groups : ImageOf(f, g) \in new.groups
  <2> TAKE g \in left.groups
  <2>1. g \subseteq L
      BY <1>3
  <2> QED BY <1>1, <1>5, <2>1
<1>13. Carries(f, left, new)
    BY <1>6, <1>7, <1>8, <1>10, <1>11, <1>12 DEF Carries, L
<1>14. LeftRows(new) = ImageOf(f, L)
    BY <1>4, <1>5
<1> QED BY <1>13, <1>14 DEF left, new, L
-----------------------------------------------------------------------------
(* The names of the breaks. *)

NameOf(e) == [print |-> Fingerprint(e), derived |-> e.derived]

\* The image of an exception has its name.
LEMMA NameCarried ==
    ASSUME NEW left, IsLeft(left), NEW new, NEW f, Carries(f, left, new), NEW e \in RaisedOf(left)
    PROVE  NameOf(Exception(ImageOf(f, e.members), e)) = NameOf(e)
<1> DEFINE M == e.members
           N == ImageOf(f, M)
           x == Exception(N, e)
           with(S, k) == {r \in S : r.id.key = k}
<1>1. M \subseteq LeftRows(left) /\ IsFiniteSet(M)
  <2>1. M \in SUBSET LeftRows(left)
      BY RaisedHolds
  <2> QED BY <2>1, RowsOfLeft, FS_Subset
<1>2. x.members = N /\ x.code = e.code /\ x.derived = e.derived
    BY DEF Exception
<1> HIDE DEF M, x
<1>3. \A r \in M : f[r].id.key = r.id.key
    BY <1>1 DEF Carries, Like
<1>4. \A r, s \in M : f[r] = f[s] => r = s
    BY <1>1 DEF Carries
<1>5. {t.id.key : t \in N} = {r.id.key : r \in M}
    BY <1>3 DEF ImageOf
<1>6. ASSUME NEW k PROVE Cardinality(with(N, k)) = Cardinality(with(M, k))
  <2> DEFINE S == with(M, k)
  <2>1. with(N, k) = ImageOf(f, S)
      BY <1>3 DEF ImageOf
  <2>2. S \in SUBSET M
      OBVIOUS
  <2> HIDE DEF S
  <2>3. IsFiniteSet(S) /\ \A r, s \in S : f[r] = f[s] => r = s
      BY <1>1, <1>4, <2>2, FS_Subset
  <2>4. Cardinality(ImageOf(f, S)) = Cardinality(S)
      BY <2>3, ImageSize
  <2> QED BY <2>1, <2>4 DEF S
<1> HIDE DEF N
<1>7. [k \in {t.id.key : t \in N} |-> Cardinality(with(N, k))] = [k \in {r.id.key : r \in M} |-> Cardinality(with(M, k))]
  <2> HIDE DEF with
  <2> QED BY <1>5, <1>6
<1>8. Fingerprint(x) = [code |-> e.code, keys |-> [k \in {t.id.key : t \in N} |-> Cardinality(with(N, k))]]
    BY <1>2 DEF Fingerprint
<1>9. Fingerprint(e) = [code |-> e.code, keys |-> [k \in {r.id.key : r \in M} |-> Cardinality(with(M, k))]]
    BY DEF Fingerprint, M
<1>10. NameOf(x) = NameOf(e)
    BY <1>2, <1>7, <1>8, <1>9 DEF NameOf
<1> QED BY <1>10 DEF x, N, M

LEMMA RaisedAreFinite ==
    ASSUME NEW left, IsLeft(left)
    PROVE  IsFiniteSet(RaisedOf(left))
<1> DEFINE R == RaisedOf(left)
           T == SUBSET LeftRows(left)
           b == [e \in R |-> e.members]
<1>1. IsFiniteSet(T)
    BY RowsOfLeft, FS_SUBSET
<1>2. \A e \in R : e.members \in T /\ e.members # {}
    BY RaisedHolds
<1>3. \A d, e \in R : d # e => d.members \cap e.members = {}
    BY LeftoversApart
<1> HIDE DEF R, T
<1>4. b \in Injection(R, T)
    BY <1>2, <1>3 DEF Injection, IsInjective
<1>5. IsFiniteSet(R)
    BY <1>1, <1>4, FS_Injection
<1> QED BY <1>5 DEF R

LEMMA NamesCarried ==
    ASSUME NEW left, IsLeft(left), NEW new, IsLeft(new), NEW f, Carries(f, left, new),
           LeftRows(new) = ImageOf(f, LeftRows(left))
    PROVE  Names(RaisedOf(left)) = Names(RaisedOf(new))
<1> DEFINE R == RaisedOf(left)
           Q == RaisedOf(new)
           h == [e \in R |-> Exception(ImageOf(f, e.members), e)]
           named(S, n) == {e \in S : NameOf(e) = n}
<1>1. \A e \in R : h[e] \in Q /\ h[e].members = ImageOf(f, e.members) /\ NameOf(h[e]) = NameOf(e)
  <2> TAKE e \in R
  <2>1. Exception(ImageOf(f, e.members), e) \in Q
      BY ExceptionsCarried
  <2>2. NameOf(Exception(ImageOf(f, e.members), e)) = NameOf(e)
      BY NameCarried
  <2> QED BY <2>1, <2>2 DEF Exception
<1>2. /\ \A e \in R : e.members \subseteq LeftRows(left) /\ e.members # {}
      /\ \A e \in Q : e.members \subseteq LeftRows(new) /\ e.members # {}
    BY RaisedHolds
<1>3. /\ \A d, e \in R : d # e => d.members \cap e.members = {}
      /\ \A d, e \in Q : d # e => d.members \cap e.members = {}
    BY LeftoversApart
<1>4. UNION {e.members : e \in R} = LeftRows(left)
    BY LeftoversCovered DEF LeftRows
<1>5. IsFiniteSet(R)
    BY RaisedAreFinite
<1>6. \A r, s \in LeftRows(left) : f[r] = f[s] => r = s
    BY DEF Carries
<1> HIDE DEF R, Q, h
<1>7. ASSUME NEW d \in R, NEW e \in R, h[d] = h[e] PROVE d = e
  <2>1. PICK r \in d.members : TRUE
      BY <1>2
  <2>2. f[r] \in ImageOf(f, e.members)
      BY <1>1, <1>7, <2>1 DEF ImageOf
  <2>3. PICK s \in e.members : f[r] = f[s]
      BY <2>2 DEF ImageOf
  <2>4. r = s
      BY <1>2, <1>6, <2>3
  <2> QED BY <1>3, <2>1, <2>3, <2>4
<1>8. ASSUME NEW q \in Q PROVE \E e \in R : h[e] = q
  <2>1. PICK t \in q.members : TRUE
      BY <1>2
  <2>2. t \in ImageOf(f, LeftRows(left))
      BY <1>2, <2>1
  <2>3. PICK r \in LeftRows(left) : t = f[r]
      BY <2>2 DEF ImageOf
  <2>4. PICK e \in R : r \in e.members
      BY <1>4, <2>3
  <2>5. t \in h[e].members /\ h[e] \in Q
      BY <1>1, <2>3, <2>4 DEF ImageOf
  <2> QED BY <1>3, <2>1, <2>5
<1>9. {NameOf(e) : e \in R} = {NameOf(q) : q \in Q}
    BY <1>1, <1>8
<1>10. ASSUME NEW n PROVE Cardinality(named(R, n)) = Cardinality(named(Q, n))
  <2> DEFINE S == named(R, n)
  <2>1. named(Q, n) = ImageOf(h, S)
      BY <1>1, <1>8 DEF ImageOf
  <2>2. S \in SUBSET R
      OBVIOUS
  <2> HIDE DEF S
  <2>3. IsFiniteSet(S) /\ \A d, e \in S : h[d] = h[e] => d = e
      BY <1>5, <1>7, <2>2, FS_Subset
  <2>4. Cardinality(ImageOf(h, S)) = Cardinality(S)
      BY <2>3, ImageSize
  <2> QED BY <2>1, <2>4 DEF S
<1>11. [n \in {NameOf(e) : e \in R} |-> Cardinality(named(R, n))] = [n \in {NameOf(q) : q \in Q} |-> Cardinality(named(Q, n))]
  <2> HIDE DEF named
  <2> QED BY <1>9, <1>10
<1>12. \A S : Names(S) = [n \in {NameOf(e) : e \in S} |-> Cardinality(named(S, n))]
    BY DEF Names, NameOf
<1>13. Names(R) = Names(Q)
    BY <1>11, <1>12
<1> QED BY <1>13 DEF R, Q

LEMMA ReorderNames ==
    ASSUME NEW scene \in Scenes, specs = scene.specs,
           NEW fs, FromScene(fs, scene, MaxExports), NEW gs, FromScene(gs, scene, MaxExports),
           \A s \in Sides : specs[s].natural # <<>> /\ SameRows(fs[s], gs[s]),
           AlikeByKey(fs), Uncontested(fs)
    PROVE  Names(RaisedOf(LeftOver(fs))) = Names(RaisedOf(LeftOver(gs)))
<1>1. \A side \in Sides : AlikeOn(fs, side)
    BY DEF AlikeByKey, AlikeOn
<1>2. PICK th : Twins(th, fs, gs)
    BY <1>1, TwinsExist
<1>3. ASSUME NEW p, NEW a \in Contend(fs, p), NEW b \in Contend(fs, p) PROVE a.id.key = b.id.key
  <2>1. a \in Paired(Anchored(fs), p) /\ b \in Paired(Anchored(fs), p)
      BY <1>2, ContendersCarried
  <2>2. a \in Anchored(fs) /\ b \in Anchored(fs) /\ Pairing(a) = p
      BY <2>1 DEF Paired
  <2>3. /\ {a, b} \subseteq Contenders(Paired(Anchored(fs), Pairing(a)), Paired(Grouped(fs), Pairing(a)))
           => a.id.key = b.id.key
      BY <2>2 DEF Uncontested, Anchored, Grouped, Paired
  <2> QED BY <2>2, <2>3 DEF Contend
<1>4. ASSUME NEW p
      PROVE  ClaimedOf(gs, p) = ImageOf(th, ClaimedOf(fs, p)) /\ ClaimedOf(fs, p) \subseteq Anchored(fs)
  <2>1. ClaimedOf(gs, p) = ImageOf(th, ClaimedOf(fs, p))
      BY <1>2, <1>3, ClaimsCarried
  <2>2. Contend(fs, p) \subseteq Paired(Anchored(fs), p)
      BY <1>2, ContendersCarried
  <2>3. ClaimedOf(fs, p) \subseteq Contend(fs, p)
      BY DEF ClaimedOf, Claims, Contend
  <2> QED BY <2>1, <2>2, <2>3 DEF Paired
<1>5. PICK f : /\ Carries(f, LeftOver(fs), LeftOver(gs))
               /\ LeftRows(LeftOver(gs)) = ImageOf(f, LeftRows(LeftOver(fs)))
    BY <1>2, <1>4, ReorderCarries
<1> QED BY <1>5, LeftIsLeft, NamesCarried

\* What a second close may call the breaks.
LEMMA CloseKeepsNames ==
    ASSUME BreaksInv, Close, closed # None
    PROVE  /\ Reexported /\ AlikeByKey(closed.files) /\ Uncontested(closed.files)
                => Names(closed.raised) = Names(closed'.raised)
           /\ (\E s \in Sides : LateStranger(s)) => closed.raised \subseteq closed'.raised
<1>1. PICK scene \in Scenes :
        /\ specs = scene.specs /\ FromScene(files, scene, exports)
        /\ FromScene(closed.files, scene, MaxExports)
    BY DEF BreaksInv
<1>2. FromScene(files, scene, MaxExports)
    BY <1>1, MoreExports, BreaksAssumption DEF BreaksInv
<1> DEFINE fs == closed.files
           gs == files
<1>3. closed.raised = RaisedOf(LeftOver(fs))
    BY ClosedIsRaised
<1>4. closed'.files = gs /\ closed'.raised = RaisedOf(LeftOver(gs))
    BY DEF Close, Raised, RaisedOf
<1>5. IsLeft(LeftOver(fs))
    BY <1>1, LeftIsLeft
<1> HIDE DEF fs, gs
<1>6. ASSUME Reexported, AlikeByKey(fs), Uncontested(fs) PROVE Names(closed.raised) = Names(closed'.raised)
  <2>1. \A s \in Sides : specs[s].natural # <<>> /\ SameRows(fs[s], gs[s])
      BY <1>4, <1>6 DEF Reexported, fs
  <2>2. FromScene(fs, scene, MaxExports) /\ FromScene(gs, scene, MaxExports)
      BY <1>1, <1>2 DEF fs, gs
  <2> QED BY <1>1, <1>3, <1>4, <1>6, <2>1, <2>2, ReorderNames
<1>7. ASSUME NEW side \in Sides, LateStranger(side) PROVE closed.raised \subseteq closed'.raised
  <2> DEFINE other == CHOOSE s \in Sides : s # side
             before == Intaken(fs, side).records
             late == Intaken(gs, side).records \ before
  <2>1. other \in Sides /\ other # side
    <3>1. \E s \in Sides : s # side
        BY BreaksAssumption DEF Sides
    <3> QED BY <3>1
  <2>2. /\ fs[other] = gs[other]
        /\ before \subseteq Intaken(gs, side).records
        /\ \A r \in before : InScope(r, fs) = InScope(r, gs)
        /\ \A r \in late : Stranger(r, before \cup Intaken(fs, other).records)
        /\ \E e \in closed.raised : \E r \in e.members : r.side = side
    <3>1. LateStranger(side)
        BY <1>7
    <3> QED BY <1>4, <3>1 DEF LateStranger, fs
  <2> HIDE DEF other
  <2>3. PICK e \in closed.raised : \E r \in e.members : r.side = side
      BY <2>2
  <2>4. PICK known \in LeftRows(LeftOver(fs)) : known.side = side
    <3>1. e.members \subseteq LeftRows(LeftOver(fs))
        BY <1>3, <1>5, <2>3, RaisedHolds
    <3> QED BY <2>3, <3>1
  <2>5. FromScene(fs, scene, MaxExports) /\ FromScene(gs, scene, MaxExports)
      BY <1>1, <1>2 DEF fs, gs
  <2>6. RaisedOf(LeftOver(fs)) \subseteq RaisedOf(LeftOver(gs))
      BY <1>1, <2>1, <2>2, <2>4, <2>5, LateRowsJoinNothing
  <2> QED BY <1>3, <1>4, <2>6
<1> QED BY <1>6, <1>7 DEF fs

\* The same rows in another order are the same breaks under the same names, where the
\* order of a file says nothing; and a row that agrees with nothing renames no break
\* (_assign_identity, nearmiss.compare, fingerprint.of).
THEOREM NamesAreKept == BreaksSpec => BreaksKeepTheirNames
<1> DEFINE Keeping ==
             /\ Reexported /\ AlikeByKey(closed.files) /\ Uncontested(closed.files)
                    => Names(closed.raised) = Names(closed'.raised)
             /\ closed # None /\ closed' # closed /\ (\E s \in Sides : LateStranger(s))
                    => closed.raised \subseteq closed'.raised
<1>1. ASSUME BreaksInv, [BreaksNext]_breaksVars PROVE [Keeping]_breaksVars
  <2>1. CASE closed # None /\ Close
      BY <1>1, <2>1, CloseKeepsNames
  <2>2. ASSUME closed' = closed \/ closed = None PROVE Keeping
      BY <2>2 DEF Reexported
  <2>3. ASSUME NEW side \in Sides, NEW p, Reorder(side, p) PROVE closed' = closed
      BY <2>3 DEF Reorder
  <2>4. ASSUME NEW side \in Sides, NEW row, Extend(side, row) PROVE closed' = closed
      BY <2>4 DEF Extend
  <2>5. CASE UNCHANGED breaksVars
      BY <2>2, <2>5 DEF breaksVars
  <2> QED BY <1>1, <2>1, <2>2, <2>3, <2>4, <2>5 DEF BreaksNext
<1>2. BreaksInv /\ [BreaksNext]_breaksVars => [Keeping]_breaksVars
    BY <1>1
<1>3. BreaksKeepTheirNames <=> [][Keeping]_breaksVars
    BY DEF BreaksKeepTheirNames
<1> HIDE DEF Keeping
<1> QED BY <1>2, <1>3, BreaksHold, PTL DEF BreaksSpec
-----------------------------------------------------------------------------
(* Triage: the calls to the model. *)

Answers == [exc : Subjects, code : Codes \cup {NoCode}, ok : BOOLEAN, by : People \cup {Nobody}]
Events == [exc : Subjects, kind : {"proposed", "refused"}]
Askers == {"none", "batch", "page", "rule", "spec"}

Typed ==
    /\ run \in [asker : Askers, list : Seq(Subjects), out : Seq(Answers), attempts : Nat]
    /\ posts \in [Subjects -> Nat] /\ replies \in [Subjects -> Nat]
    /\ journal \in Seq(Events) /\ written \in Seq(Events)
    /\ results \in Seq(Answers)

\* The list that is asked about, and the part of it that is answered.
Asking ==
    /\ Len(run.out) <= Len(run.list)
    /\ \A i \in DOMAIN run.out : run.out[i].exc = run.list[i] /\ run.out[i].by = Nobody
    /\ \A i, j \in DOMAIN run.list : run.list[i] = run.list[j] => i = j
    /\ run.asker = "batch" => run.list = Batch
    /\ run.asker \in {"batch", "page"} => run.list \in Seq(Exceptions)
    /\ Authoring => run.out = <<>> /\ Len(run.list) = 1 /\ run.list[1] \notin Exceptions
    /\ run.asker = "none" => run.list = <<>>

Counted ==
    /\ \A e \in Subjects : posts[e] <= Retries /\ replies[e] < 2
    /\ run.attempts < Retries
    /\ More => posts[Current] = run.attempts /\ replies[Current] = 0
    /\ \A i \in DOMAIN run.list : i > Len(run.out) + 1 =>
          posts[run.list[i]] = 0 /\ replies[run.list[i]] = 0
    /\ run.asker # "none" => \A e \in Resolutions \cup Exports : replies[e] = 0

Says(event, answer) == (event.kind = "proposed") = answer.ok

Journaled ==
    /\ \A i \in DOMAIN journal : journal[i].exc = Batch[i]
    /\ run.asker = "batch" =>
         /\ results = <<>> /\ Len(journal) = Len(run.out)
         /\ \A i \in DOMAIN run.out : Says(journal[i], run.out[i])
    /\ results # <<>> => Len(journal) = Len(results)
    /\ \A i \in DOMAIN results : Says(journal[i], results[i])

Authored ==
    /\ Authoring => written = <<>>
    /\ \A e \in Resolutions \cup Exports : replies[e] = 1 => Len(written) = 1 /\ written[1].exc = e
    /\ \A i \in DOMAIN written :
         written[i].kind = "proposed" => \E o \in offers : o.of = written[i].exc
    /\ \A o \in offers : NeedsFirstUseApproval(o)

Judged ==
    /\ \A i \in DOMAIN run.out : run.out[i].ok => run.out[i].exc \notin Derived
    /\ \A i \in DOMAIN results :
         /\ results[i].ok => results[i].exc \notin Derived
         /\ Taken(results[i]) =>
              results[i].ok /\ [exc |-> results[i].exc, code |-> results[i].code] \in granted

Unmoved ==
    /\ \A e \in Derived :
         codes[e] = Label[e] /\ posts[e] = 0 /\ \A a \in accepted : a.exc # e
    /\ \A e \in Exceptions : codes[e] # Label[e] => [exc |-> e, code |-> codes[e]] \in granted

IInv == Typed /\ Asking /\ Counted /\ Journaled /\ Authored /\ Judged /\ Unmoved
-----------------------------------------------------------------------------
LEMMA Facts ==
    /\ Derived \subseteq Exceptions /\ Exceptions \subseteq Subjects
    /\ Resolutions \subseteq Subjects /\ Exports \subseteq Subjects
    /\ \A e \in Exceptions : e \notin Resolutions \cup Exports
    /\ Retries \in Nat \ {0} /\ Batch \in Seq(Exceptions) /\ Batch \in Seq(Subjects)
    /\ \A e \in Exceptions : Label[e] \in Codes
    /\ Model # "human"
BY TriageAssumption DEF Subjects

LEMMA AppendFacts ==
    ASSUME NEW S, NEW s \in Seq(S), NEW x \in S
    PROVE  /\ Append(s, x) \in Seq(S) /\ Len(Append(s, x)) = Len(s) + 1 /\ Len(s) \in Nat
           /\ DOMAIN s = 1..Len(s) /\ DOMAIN Append(s, x) = 1..(Len(s) + 1)
           /\ Append(s, x)[Len(s) + 1] = x
           /\ \A i \in 1..Len(s) : Append(s, x)[i] = s[i]
OBVIOUS

LEMMA Begins == Init => IInv
<1> SUFFICES ASSUME Init PROVE IInv
    OBVIOUS
<1> USE Facts DEF Init, Idle
<1>1. run = Idle /\ \A e \in Subjects : posts[e] = 0 /\ replies[e] = 0
    OBVIOUS
<1>2. Typed
    BY <1>1 DEF Typed, Askers
<1>3. Asking /\ Counted
    BY <1>1 DEF Asking, Counted, More, Authoring
<1>4. Journaled /\ Authored /\ Judged /\ Unmoved
    BY <1>1 DEF Journaled, Authored, Judged, Unmoved, Authoring
<1> QED BY <1>2, <1>3, <1>4 DEF IInv

\* A call begins: nothing is sent, answered or written down yet.
LEMMA Starts ==
    ASSUME IInv, NEW asker \in Askers \ {"none"}, NEW list \in Seq(Subjects), Start(asker, list),
           \A i, j \in DOMAIN list : list[i] = list[j] => i = j,
           asker \in {"batch", "page"} => list \in Seq(Exceptions),
           asker \in {"rule", "spec"} => Len(list) = 1 /\ list[1] \notin Exceptions,
           UNCHANGED <<codes, granted, offers, review>>,
           IF asker = "batch" THEN list = Batch /\ journal' = <<>> /\ results' = <<>>
                              ELSE UNCHANGED <<journal, results>>,
           IF asker \in {"rule", "spec"} THEN written' = <<>> ELSE UNCHANGED written
    PROVE  IInv'
<1> USE Facts DEF IInv, Start
<1>1. /\ run' = [asker |-> asker, list |-> list, out |-> <<>>, attempts |-> 0]
      /\ \A e \in Subjects : posts'[e] = 0 /\ replies'[e] = 0
      /\ posts' \in [Subjects -> Nat] /\ replies' \in [Subjects -> Nat]
    OBVIOUS
<1>2. Typed'
  <2>1. /\ journal' \in Seq(Events) /\ written' \in Seq(Events)
        /\ results' \in Seq(Answers)
    <3>1. /\ journal' = <<>> \/ journal' = journal
          /\ results' = <<>> \/ results' = results
          /\ written' = <<>> \/ written' = written
        OBVIOUS
    <3>2. journal \in Seq(Events) /\ written \in Seq(Events) /\ results \in Seq(Answers)
        BY DEF Typed
    <3>3. \A S : <<>> \in Seq(S)
        OBVIOUS
    <3> QED BY ONLY <3>1, <3>2, <3>3
  <2>2. run' \in [asker : Askers, list : Seq(Subjects), out : Seq(Answers), attempts : Nat]
      BY <1>1
  <2> QED BY <1>1, <2>1, <2>2 DEF Typed
<1>3. Asking'
    BY <1>1 DEF Asking, Authoring
<1>4. Counted'
    BY <1>1 DEF Counted, More, Current
<1>5. Journaled'
    BY <1>1 DEF Journaled, Says
<1>6. Authored'
  <2>1. \A e \in Resolutions \cup Exports : replies'[e] # 1
      BY <1>1
  <2>2. offers' = offers /\ (written' = <<>> \/ written' = written)
      OBVIOUS
  <2>3. Authoring' => written' = <<>>
      BY <1>1 DEF Authoring
  <2> QED BY <2>1, <2>2, <2>3 DEF Authored, NeedsFirstUseApproval
<1>7. Judged' /\ Unmoved'
    BY <1>1 DEF Judged, Unmoved, review, Taken
<1> QED BY <1>2, <1>3, <1>4, <1>5, <1>6, <1>7

\* Nothing is running, and nobody's answers or codes change.
LEMMA Rests ==
    ASSUME IInv, run' = Idle, UNCHANGED <<runs, batch, authoring, review>>,
           \A e \in Subjects : posts'[e] <= Retries /\ (e \in Derived => posts'[e] = 0),
           posts' \in [Subjects -> Nat], UNCHANGED replies
    PROVE  IInv'
<1> USE Facts DEF IInv, Idle, batch, authoring, review
<1>1. Typed'
    BY DEF Typed, Askers
<1>2. Asking' /\ Counted'
    BY DEF Asking, Counted, More, Authoring
<1>3. Journaled'
    BY DEF Journaled, Says
<1>4. Authored'
    BY DEF Authored, Authoring, NeedsFirstUseApproval
<1>5. Judged' /\ Unmoved'
    BY DEF Judged, Unmoved, Taken
<1> QED BY <1>1, <1>2, <1>3, <1>4, <1>5

\* The request in hand.
LEMMA InHand ==
    ASSUME IInv, More
    PROVE  /\ Len(run.out) + 1 \in DOMAIN run.list /\ Current = run.list[Len(run.out) + 1]
           /\ Current \in Subjects /\ run.asker \in Askers \ {"none"}
           /\ posts[Current] = run.attempts /\ replies[Current] = 0
           /\ Len(run.out) \in Nat /\ Len(run.list) \in Nat
           /\ run.asker \in {"batch", "page"} => Current \in Exceptions
<1>1. run.list \in Seq(Subjects) /\ run.out \in Seq(Answers) /\ run.asker \in Askers
    BY DEF IInv, Typed
<1>2. Len(run.out) \in Nat /\ Len(run.list) \in Nat /\ Len(run.out) + 1 \in 1..Len(run.list)
    BY <1>1 DEF More
<1>3. DOMAIN run.list = 1..Len(run.list)
    BY <1>1
<1>4. Current = run.list[Len(run.out) + 1] /\ run.asker \in Askers \ {"none"}
    BY <1>1 DEF Current, More
<1>5. Current \in Subjects
    BY <1>1, <1>2, <1>3, <1>4
<1>6. posts[Current] = run.attempts /\ replies[Current] = 0
    BY DEF IInv, Counted
<1>7. run.asker \in {"batch", "page"} => Current \in Exceptions
    BY <1>2, <1>4 DEF IInv, Asking
<1> QED BY <1>2, <1>3, <1>4, <1>5, <1>6, <1>7

\* A request is sent: for the exception in hand, which is not a derived one.
LEMMA Posts ==
    ASSUME IInv, Post
    PROVE  /\ posts' \in [Subjects -> Nat]
           /\ posts' = [posts EXCEPT ![Current] = run.attempts + 1]
           /\ run.attempts + 1 <= Retries /\ Current \notin Derived
           /\ \A e \in Subjects : posts'[e] <= Retries /\ (e \in Derived => posts'[e] = 0)
<1>1. posts' = [posts EXCEPT ![Current] = run.attempts + 1]
    BY InHand DEF Post
<1>2. run.attempts \in Nat /\ run.attempts + 1 <= Retries /\ Current \notin Derived
    BY Facts DEF Post, Reclassifiable, IInv, Typed
<1>3. posts' \in [Subjects -> Nat]
  <2>1. posts \in [Subjects -> Nat] /\ run.attempts + 1 \in Nat
      BY <1>2 DEF IInv, Typed
  <2> QED BY <1>1, <2>1
<1>4. \A e \in Subjects : posts'[e] <= Retries
    BY <1>1, <1>2 DEF IInv, Typed, Counted
<1>5. \A e \in Subjects : e \in Derived => posts'[e] = 0
    BY <1>1, <1>2 DEF IInv, Typed, Unmoved
<1> QED BY <1>1, <1>2, <1>3, <1>4, <1>5

LEMMA Retried == ASSUME IInv, Transient PROVE IInv'
<1> USE Facts DEF IInv, Transient, batch, authoring, review
<1>0. More
    BY DEF Post
<1>1. run' = [run EXCEPT !.attempts = @ + 1] /\ UNCHANGED <<replies, batch, authoring, review>>
    OBVIOUS
<1>2. Typed'
  <2>1. run' \in [asker : Askers, list : Seq(Subjects), out : Seq(Answers), attempts : Nat]
    <3>1. run \in [asker : Askers, list : Seq(Subjects), out : Seq(Answers), attempts : Nat]
        BY DEF Typed
    <3> QED BY ONLY <1>1, <3>1
  <2> QED BY <1>1, <2>1, Posts DEF Typed
<1>3. Asking' /\ Current' = Current
    BY <1>1 DEF Asking, Authoring, Typed, Current
<1>4. \A i \in DOMAIN run.list : i > Len(run.out) + 1 => run.list[i] # Current
    BY <1>0, InHand DEF Asking
<1>5. Counted'
  <2>1. posts'[Current] = run'.attempts /\ replies'[Current] = 0 /\ run'.attempts < Retries
      BY <1>0, <1>1, InHand, Posts DEF Typed
  <2>2. \A i \in DOMAIN run'.list : i > Len(run'.out) + 1 =>
            posts'[run'.list[i]] = 0 /\ replies'[run'.list[i]] = 0
    <3>1. run'.list = run.list /\ run'.out = run.out /\ run.list \in Seq(Subjects)
        BY <1>1 DEF Typed
    <3>2. TAKE i \in DOMAIN run'.list
    <3>3. HAVE i > Len(run'.out) + 1
    <3>4. run.list[i] \in Subjects /\ run.list[i] # Current
        BY ONLY <1>4, <3>1, <3>2, <3>3
    <3>5. posts[run.list[i]] = 0 /\ replies[run.list[i]] = 0
        BY <3>1, <3>2, <3>3 DEF Counted
    <3>6. posts \in [Subjects -> Nat] /\ posts' = [posts EXCEPT ![Current] = run.attempts + 1]
        BY Posts DEF Typed
    <3>7. replies' = replies
        BY <1>1
    <3> QED BY ONLY <3>1, <3>4, <3>5, <3>6, <3>7
  <2>3. run'.asker # "none" => \A e \in Resolutions \cup Exports : replies'[e] = 0
      BY <1>1 DEF Typed, Counted
  <2> QED BY <1>1, <1>3, <2>1, <2>2, <2>3, Posts DEF Counted
<1>6. Journaled'
    BY <1>1 DEF Journaled, Typed, Says
<1>7. Authored'
    BY <1>1 DEF Authored, Authoring, NeedsFirstUseApproval, Typed
<1>8. Judged' /\ Unmoved'
    BY <1>1, Posts DEF Judged, Unmoved, Typed, Taken
<1> QED BY <1>2, <1>3, <1>5, <1>6, <1>7, <1>8

\* The exception in hand is answered, in a list of exceptions, and the next is taken up.
LEMMA Advances ==
    ASSUME IInv, More, ~Authoring, NEW code \in Codes \cup {NoCode}, NEW ok \in BOOLEAN,
           NEW kind \in {"proposed", "refused"}, (kind = "proposed") = ok,
           Answer(code, ok), Log(Event(Current, kind)), ok => Current \notin Derived,
           posts' \in [Subjects -> Nat], replies' \in [Subjects -> Nat],
           \A e \in Subjects : posts'[e] <= Retries /\ (e \in Derived => posts'[e] = 0),
           \A e \in Subjects : e # Current => posts'[e] = posts[e] /\ replies'[e] = replies[e],
           replies'[Current] < 2,
           UNCHANGED <<results, codes, granted, authoring, review>>
    PROVE  IInv'
<1> USE Facts DEF IInv, authoring, review
<1> DEFINE n == Len(run.out)
           a == [exc |-> Current, code |-> code, ok |-> ok, by |-> Nobody]
<1>0. /\ run.list \in Seq(Subjects) /\ run.out \in Seq(Answers) /\ run.attempts \in Nat
      /\ run \in [asker : Askers, list : Seq(Subjects), out : Seq(Answers), attempts : Nat]
    BY DEF Typed
<1>1. /\ n \in Nat /\ n + 1 \in DOMAIN run.list /\ Current = run.list[n + 1]
      /\ run.asker \in {"batch", "page"} /\ Current \in Exceptions
    BY InHand DEF Askers, Authoring
<1>2. a \in Answers
    BY <1>1 DEF Answers
<1>3. run' = [run EXCEPT !.out = Append(run.out, a), !.attempts = 0]
    BY DEF Answer
<1> HIDE DEF a
<1>4. /\ run'.asker = run.asker /\ run'.list = run.list /\ run'.attempts = 0
      /\ run'.out = Append(run.out, a) /\ run'.out \in Seq(Answers)
      /\ run' \in [asker : Askers, list : Seq(Subjects), out : Seq(Answers), attempts : Nat]
  <2>1. Append(run.out, a) \in Seq(Answers) /\ 0 \in Nat
      BY ONLY <1>0, <1>2, AppendFacts
  <2> QED BY ONLY <1>0, <1>3, <2>1
<1>5. /\ Len(run'.out) = n + 1 /\ DOMAIN run'.out = 1..(n + 1) /\ DOMAIN run.out = 1..n
      /\ run'.out[n + 1] = a /\ \A i \in 1..n : run'.out[i] = run.out[i]
    BY ONLY <1>0, <1>2, <1>4, AppendFacts
<1>20. \A i \in 1..(n + 1) : i = n + 1 \/ i \in 1..n
    BY <1>1
<1>21. DOMAIN run.list = 1..Len(run.list) /\ Len(run.list) \in Nat
    BY <1>0
<1>6. a.exc = Current /\ a.ok = ok /\ a.by = Nobody
    BY DEF a
<1>7. Typed'
  <2>1. Event(Current, kind) \in Events
      BY <1>1 DEF Event, Events
  <2>2. journal' \in Seq(Events)
    <3>1. journal \in Seq(Events)
        BY DEF Typed
    <3>2. journal' = Append(journal, Event(Current, kind)) \/ journal' = journal
        BY DEF Log
    <3> QED BY ONLY <2>1, <3>1, <3>2
  <2> QED BY <1>4, <2>2 DEF Typed
<1>8. Asking'
  <2>1. \A i \in 1..(n + 1) : run'.out[i].exc = run.list[i] /\ run'.out[i].by = Nobody
    <3>1. \A i \in 1..n : run.out[i].exc = run.list[i] /\ run.out[i].by = Nobody
        BY <1>5 DEF Asking
    <3> QED BY ONLY <1>1, <1>5, <1>6, <1>20, <3>1
  <2>2. Len(run'.out) <= Len(run.list)
      BY <1>1, <1>5, <1>21
  <2> QED BY <1>1, <1>4, <1>5, <2>1, <2>2 DEF Asking, Authoring
<1>9. Counted'
  <2>1. \A i \in DOMAIN run.list : i > n + 1 => posts'[run.list[i]] = 0 /\ replies'[run.list[i]] = 0
    <3> SUFFICES ASSUME NEW i \in DOMAIN run.list, i > n + 1
                 PROVE  posts'[run.list[i]] = 0 /\ replies'[run.list[i]] = 0
        OBVIOUS
    <3>1. run.list[i] # Current /\ run.list[i] \in Subjects
        BY <1>0, <1>1 DEF Asking
    <3>2. posts[run.list[i]] = 0 /\ replies[run.list[i]] = 0
        BY DEF Counted
    <3> QED BY <3>1, <3>2
  <2>2. \A e \in Subjects : replies'[e] < 2
      BY DEF Counted
  <2>3. \A e \in Resolutions \cup Exports : replies'[e] = 0
      BY <1>1 DEF Counted
  <2>4. Current' = run.list[n + 2]
    <3>1. n + 1 + 1 = n + 2
        BY <1>1
    <3> QED BY <1>4, <1>5, <3>1 DEF Current
  <2>5. More' => n + 2 \in DOMAIN run.list
      BY <1>1, <1>4, <1>5, <1>21 DEF More
  <2>6. n + 2 > n + 1
      BY <1>1
  <2>7. More' => posts'[Current'] = run'.attempts /\ replies'[Current'] = 0
      BY ONLY <1>4, <2>1, <2>4, <2>5, <2>6
  <2>8. \A i \in DOMAIN run'.list : i > Len(run'.out) + 1 =>
            posts'[run'.list[i]] = 0 /\ replies'[run'.list[i]] = 0
    <3>1. \A i \in DOMAIN run.list : i > n + 1 + 1 => i > n + 1
        BY <1>1, <1>21
    <3> QED BY ONLY <1>4, <1>5, <2>1, <3>1
  <2>9. run'.attempts < Retries
      BY <1>4
  <2> QED BY <2>2, <2>3, <2>7, <2>8, <2>9 DEF Counted
<1>10. Journaled'
  <2>1. CASE run.asker = "batch"
    <3> DEFINE event == Event(Current, kind)
    <3>1. event \in Events /\ event.exc = Current /\ event.kind = kind
        BY <1>1 DEF Event, Events
    <3> HIDE DEF event
    <3>2. journal' = Append(journal, event) /\ journal \in Seq(Events)
        BY <2>1 DEF Log, Typed, event
    <3>3. Len(journal) = n /\ results = <<>> /\ run.list = Batch
        BY <2>1 DEF Journaled, Asking
    <3>4. /\ DOMAIN journal' = 1..(n + 1) /\ DOMAIN journal = 1..n /\ journal'[n + 1] = event
          /\ Len(journal') = n + 1 /\ \A i \in 1..n : journal'[i] = journal[i]
        BY ONLY <3>1, <3>2, <3>3, AppendFacts
    <3>5. \A i \in 1..(n + 1) : journal'[i].exc = Batch[i]
      <4>1. \A i \in 1..n : journal[i].exc = Batch[i]
          BY <3>4 DEF Journaled
      <4> QED BY ONLY <1>1, <1>20, <3>1, <3>3, <3>4, <4>1
    <3>6. \A i \in 1..(n + 1) : Says(journal'[i], run'.out[i])
      <4>1. \A i \in 1..n : Says(journal[i], run.out[i])
          BY <1>5, <2>1 DEF Journaled
      <4>2. Says(event, a)
          BY <1>6, <3>1 DEF Says
      <4> QED BY ONLY <1>5, <1>20, <3>4, <4>1, <4>2
    <3> QED BY <1>5, <3>3, <3>4, <3>5, <3>6 DEF Journaled
  <2>2. CASE run.asker # "batch"
      BY <1>4, <2>2 DEF Journaled, Log, Says
  <2> QED BY <2>1, <2>2
<1>11. Authored'
  <2>1. \A e \in Resolutions \cup Exports : replies'[e] = replies[e]
      BY <1>1
  <2> QED BY <1>4, <2>1 DEF Authored, Authoring, NeedsFirstUseApproval
<1>12. Judged'
  <2>1. \A i \in 1..n : run.out[i].ok => run.out[i].exc \notin Derived
      BY <1>5 DEF Judged
  <2>2. \A i \in 1..(n + 1) : run'.out[i].ok => run'.out[i].exc \notin Derived
      BY <1>5, <1>6, <1>20, <2>1
  <2> QED BY <1>5, <2>2 DEF Judged, Taken
<1>13. Unmoved'
    BY DEF Unmoved
<1> QED BY <1>7, <1>8, <1>9, <1>10, <1>11, <1>12, <1>13

LEMMA BatchSteps ==
    ASSUME IInv, Skip \/ RefuseGarbled \/ \E p \in Replies : Propose(p)
    PROVE  IInv'
<1> USE Facts, InHand
<1>1. CASE Skip
  <2>1. More /\ Current \in Derived /\ ~Authoring
      BY <1>1 DEF Skip, Reclassifiable, IInv, Asking, Authoring, Current
  <2>2. Label[Current] \in Codes
      BY <2>1
  <2>3. replies[Current] = 0 /\ \A e \in Subjects : posts[e] <= Retries
      BY <2>1 DEF IInv, Counted
  <2>4. /\ Answer(Label[Current], FALSE) /\ Log(Event(Current, "refused"))
        /\ UNCHANGED <<posts, replies, results, codes, granted, authoring, review>>
      BY <1>1 DEF Skip
  <2>5. /\ posts' \in [Subjects -> Nat] /\ replies' \in [Subjects -> Nat]
        /\ \A e \in Derived : posts'[e] = 0
      BY <2>4 DEF IInv, Typed, Unmoved
  <2>6. Label[Current] \in Codes \cup {NoCode} /\ ("refused" = "proposed") = FALSE
      BY <2>2
  <2>7. /\ \A e \in Subjects : posts'[e] <= Retries /\ (e \in Derived => posts'[e] = 0)
        /\ \A e \in Subjects : e # Current => posts'[e] = posts[e] /\ replies'[e] = replies[e]
        /\ replies'[Current] < 2
      BY <2>3, <2>4, <2>5
  <2> QED BY <2>1, <2>4, <2>5, <2>6, <2>7, Advances
<1>2. ASSUME More, ~Authoring, Post, NEW code \in Codes \cup {NoCode}, NEW ok \in BOOLEAN,
             NEW kind \in {"proposed", "refused"}, (kind = "proposed") = ok,
             Answer(code, ok), Log(Event(Current, kind)),
             replies' = [replies EXCEPT ![Current] = @ + 1],
             UNCHANGED <<results, codes, granted, authoring, page, review>>
      PROVE  IInv'
  <2>1. /\ replies' \in [Subjects -> Nat] /\ replies'[Current] < 2
        /\ \A e \in Subjects : e # Current => posts'[e] = posts[e] /\ replies'[e] = replies[e]
    <3>1. replies \in [Subjects -> Nat] /\ posts \in [Subjects -> Nat]
        BY DEF IInv, Typed
    <3>2. Current \in Subjects /\ replies[Current] = 0
        BY <1>2
    <3> QED BY <1>2, <3>1, <3>2, Posts
  <2> QED BY <1>2, <2>1, Posts, Advances
<1>3. CASE RefuseGarbled
  <2>1. /\ More /\ ~Authoring /\ Post /\ Answer(NoCode, FALSE)
        /\ Log(Event(Current, "refused")) /\ replies' = [replies EXCEPT ![Current] = @ + 1]
        /\ UNCHANGED <<results, codes, granted, authoring, page, review>>
      BY <1>3 DEF RefuseGarbled, Post
  <2>2. NoCode \in Codes \cup {NoCode} /\ ("refused" = "proposed") = FALSE
      OBVIOUS
  <2> QED BY <1>2, <2>1, <2>2
<1>4. ASSUME NEW p \in Replies, Propose(p) PROVE IInv'
  <2> DEFINE ok == Admissible(p, Asked)
             kind == IF ok THEN "proposed" ELSE "refused"
  <2>1. p.code \in Codes \cup {NoCode} /\ ok \in BOOLEAN
      BY TriageAssumption DEF Admissible
  <2>2. kind \in {"proposed", "refused"} /\ (kind = "proposed") = ok
      BY <2>1
  <2>3. /\ More /\ ~Authoring /\ Post /\ Answer(p.code, ok) /\ Log(Event(Current, kind))
        /\ replies' = [replies EXCEPT ![Current] = @ + 1]
        /\ UNCHANGED <<results, codes, granted, authoring, page, review>>
      BY <1>4 DEF Propose, Post
  <2> HIDE DEF ok, kind
  <2> QED BY <1>2, <2>1, <2>2, <2>3
<1> QED BY <1>1, <1>3, <1>4

LEMMA Gives == ASSUME IInv, Unavailable \/ Return PROVE IInv'
<1> USE Facts DEF IInv
<1>1. CASE Unavailable
    BY <1>1, Posts, Rests DEF Unavailable
<1>2. CASE Return /\ run.asker # "batch"
    BY <1>2, Rests DEF Return, batch, Typed, Counted, Unmoved
<1>3. CASE Return /\ run.asker = "batch"
  <2>0. /\ run' = Idle /\ results' = run.out /\ UNCHANGED <<posts, replies, journal, codes, granted>>
        /\ UNCHANGED <<written, offers, accepted>>
      BY <1>3 DEF Return, authoring, review
  <2>1. Typed'
      BY <2>0 DEF Typed, Askers, Idle
  <2>2. Asking' /\ Counted'
      BY <2>0 DEF Asking, Counted, More, Authoring, Idle
  <2>3. Journaled'
    <3>1. Len(journal) = Len(run.out) /\ \A i \in DOMAIN run.out : Says(journal[i], run.out[i])
        BY <1>3 DEF Journaled
    <3> QED BY <2>0, <3>1 DEF Journaled, Says, Idle
  <2>4. Authored'
      BY <2>0 DEF Authored, Authoring, NeedsFirstUseApproval, Idle
  <2>5. Judged'
    <3>1. \A i \in DOMAIN run.out : run.out[i].ok => run.out[i].exc \notin Derived
        BY DEF Judged
    <3>2. \A i \in DOMAIN run.out : run.out[i].by = Nobody
        BY DEF Asking
    <3> QED BY <2>0, <3>1, <3>2 DEF Judged, Idle, Taken
  <2>6. Unmoved'
      BY <2>0 DEF Unmoved
  <2> QED BY <2>1, <2>2, <2>3, <2>4, <2>5, <2>6
<1> QED BY <1>1, <1>2, <1>3

\* One call, one proposal: what is offered waits for a person.
LEMMA Concludes ==
    ASSUME IInv, Authoring, NEW kind \in {"proposed", "refused"}, NEW offered,
           Conclude(kind, offered), kind = "proposed" => \E o \in offered : o.of = Current,
           \A o \in offered : NeedsFirstUseApproval(o)
    PROVE  IInv'
<1> USE Facts DEF IInv, Conclude, batch, review
<1> DEFINE event == Event(Current, kind)
<1>0. /\ run' = Idle /\ UNCHANGED <<journal, results, codes, granted, accepted>>
      /\ replies' = [replies EXCEPT ![Current] = @ + 1] /\ offers' = offers \cup offered
    OBVIOUS
<1>1. More /\ Current \in Subjects /\ replies[Current] = 0
    BY InHand DEF Post
<1>2. /\ replies' \in [Subjects -> Nat] /\ replies'[Current] = 1
      /\ \A e \in Subjects : e # Current => replies'[e] = replies[e]
    BY <1>0, <1>1 DEF Typed
<1>3. event \in Events /\ event.exc = Current /\ event.kind = kind
    BY <1>1 DEF Event, Events
<1> HIDE DEF event
<1>4. written' = <<event>>
  <2>1. written = <<>> /\ written' = Append(written, event)
      BY DEF Authored, event
  <2> QED BY <2>1
<1>5. Typed'
  <2>1. written' \in Seq(Events)
      BY <1>3, <1>4
  <2> QED BY <1>0, <1>2, <2>1, Posts DEF Typed, Askers, Idle
<1>6. Asking' /\ Counted'
    BY <1>0, <1>2, Posts DEF Asking, Counted, More, Authoring, Idle
<1>7. Journaled'
    BY <1>0 DEF Journaled, Says, Idle
<1>8. Authored'
  <2>1. \A e \in Resolutions \cup Exports : replies'[e] = 1 => e = Current
    <3>1. \A e \in Resolutions \cup Exports : e \in Subjects /\ replies[e] = 0
        BY DEF Counted, Authoring
    <3> QED BY <1>2, <3>1
  <2>2. Len(written') = 1 /\ written'[1] = event /\ DOMAIN written' = {1}
      BY <1>4
  <2>3. \A o \in offers' : NeedsFirstUseApproval(o)
      BY <1>0 DEF Authored
  <2>4. ~Authoring'
      BY <1>0 DEF Authoring, Idle
  <2>5. kind = "proposed" => \E o \in offers' : o.of = Current
      BY <1>0
  <2>6. \A i \in DOMAIN written' :
            written'[i].kind = "proposed" => \E o \in offers' : o.of = written'[i].exc
      BY <1>3, <2>2, <2>5
  <2>7. \A e \in Resolutions \cup Exports :
            replies'[e] = 1 => Len(written') = 1 /\ written'[1].exc = e
      BY <1>3, <2>1, <2>2
  <2> HIDE DEF event
  <2> QED BY <2>3, <2>4, <2>6, <2>7 DEF Authored, NeedsFirstUseApproval
<1>9. Judged' /\ Unmoved'
    BY <1>0, Posts DEF Judged, Unmoved, Taken, Idle
<1> QED BY <1>5, <1>6, <1>7, <1>8, <1>9

LEMMA DraftSteps ==
    ASSUME IInv, RefuseDraft \/ \E d \in Drafts : Draft(d)
    PROVE  IInv'
<1>1. CASE RefuseDraft
    BY <1>1, Concludes DEF RefuseDraft
<1>2. ASSUME NEW d \in Drafts, Draft(d) PROVE IInv'
  <2>1. Authoring
      BY <1>2, TriageAssumption DEF Draft, Authoring
  <2>2. NeedsFirstUseApproval(Built(d)) /\ Built(d).of = Current
      BY Facts DEF NeedsFirstUseApproval, Built
  <2>3. CASE Valid(d)
      BY <1>2, <2>1, <2>2, <2>3, Concludes DEF Draft
  <2>4. CASE ~Valid(d)
      BY <1>2, <2>1, <2>4, Concludes DEF Draft
  <2> QED BY <2>3, <2>4
<1> QED BY <1>1, <1>2
-----------------------------------------------------------------------------
LEMMA Calls ==
    ASSUME IInv, \/ StartBatch \/ \E e \in Exceptions : AskReading(e)
                 \/ \E r \in Resolutions : Induce(r)
                 \/ \E x \in Exports : AuthorSpec(x)
    PROVE  IInv'
<1> USE Facts DEF Askers, batch, authoring
<1>1. CASE StartBatch
  <2>1. \A i, j \in DOMAIN Batch : Batch[i] = Batch[j] => i = j
      BY TriageAssumption
  <2> QED BY <1>1, <2>1, Starts DEF StartBatch
<1>2. ASSUME NEW e \in Exceptions, AskReading(e) PROVE IInv'
  <2>1. <<e>> \in Seq(Subjects) /\ <<e>> \in Seq(Exceptions) /\ DOMAIN <<e>> = {1}
      OBVIOUS
  <2> QED BY <1>2, <2>1, Starts DEF AskReading
<1>3. ASSUME NEW s \in Resolutions \cup Exports, NEW asker \in {"rule", "spec"},
             StartAuthoring(asker, s)
      PROVE  IInv'
  <2>1. <<s>> \in Seq(Subjects) /\ DOMAIN <<s>> = {1} /\ Len(<<s>>) = 1 /\ <<s>>[1] = s
      OBVIOUS
  <2>2. s \notin Exceptions
      OBVIOUS
  <2> QED BY <1>3, <2>1, <2>2, Starts DEF StartAuthoring
<1> QED BY <1>1, <1>2, <1>3 DEF Induce, AuthorSpec

LEMMA Attested ==
    ASSUME IInv, NEW i, NEW who \in People \cup {Nobody}, Attest(i, who)
    PROVE  IInv'
<1> USE Facts DEF IInv, edge, authoring, review
<1>0. /\ i \in DOMAIN results /\ who # Nobody /\ results[i].ok
      /\ results' = [results EXCEPT ![i].by = who]
      /\ granted' = granted \cup {[exc |-> results[i].exc, code |-> results[i].code]}
      /\ UNCHANGED <<run, posts, replies, journal, codes, written, offers, accepted>>
    BY DEF Attest
<1>1. results \in Seq(Answers) /\ results # <<>>
    BY <1>0 DEF Typed
<1>2. /\ results' \in Seq(Answers) /\ Len(results') = Len(results) /\ results' # <<>>
      /\ DOMAIN results' = DOMAIN results
      /\ \A k \in DOMAIN results :
           /\ results'[k].exc = results[k].exc /\ results'[k].ok = results[k].ok
           /\ results'[k].code = results[k].code
           /\ results'[k].by = IF k = i THEN who ELSE results[k].by
  <2> DEFINE a == [results[i] EXCEPT !.by = who]
  <2>1. results[i] \in Answers
      BY <1>0, <1>1
  <2>2. /\ a \in Answers /\ a.exc = results[i].exc /\ a.ok = results[i].ok
        /\ a.code = results[i].code /\ a.by = who
      BY <2>1 DEF Answers
  <2>3. results' = [results EXCEPT ![i] = a]
      BY <1>0
  <2> HIDE DEF a
  <2> QED BY ONLY <1>0, <1>1, <2>2, <2>3
<1>3. Typed' /\ Asking' /\ Counted'
    BY <1>0, <1>2 DEF Typed, Asking, Counted, More, Current, Authoring
<1>4. Journaled'
    BY <1>0, <1>1, <1>2 DEF Journaled, Says
<1>5. Authored'
    BY <1>0 DEF Authored, Authoring, NeedsFirstUseApproval
<1>6. Judged'
    BY <1>0, <1>2 DEF Judged, Taken
<1>7. Unmoved'
    BY <1>0 DEF Unmoved
<1> QED BY <1>3, <1>4, <1>5, <1>6, <1>7

LEMMA Applied == ASSUME IInv, Apply PROVE IInv'
<1> USE Facts DEF IInv, edge, authoring, review
<1> DEFINE of(e) == {i \in DOMAIN results : results[i].exc = e /\ Taken(results[i])}
<1>1. UNCHANGED <<run, posts, replies, journal, results, granted, written, offers, accepted>>
    BY DEF Apply
<1>2. \A e \in Exceptions : codes'[e] =
          IF of(e) = {} THEN Label[e] ELSE results[CHOOSE i \in of(e) : TRUE].code
    BY DEF Apply
<1>3. \A e \in Exceptions : codes'[e] # Label[e] =>
          e \notin Derived /\ [exc |-> e, code |-> codes'[e]] \in granted
  <2> SUFFICES ASSUME NEW e \in Exceptions, codes'[e] # Label[e]
               PROVE  e \notin Derived /\ [exc |-> e, code |-> codes'[e]] \in granted
      OBVIOUS
  <2>1. PICK i \in of(e) : codes'[e] = results[i].code
      BY <1>2
  <2> QED BY <2>1 DEF Judged
<1>4. Unmoved'
    BY <1>1, <1>3 DEF Unmoved
<1>5. Typed' /\ Asking' /\ Counted'
    BY <1>1 DEF Typed, Asking, Counted, More, Current, Authoring
<1>6. Journaled' /\ Authored' /\ Judged'
    BY <1>1 DEF Journaled, Says, Authored, Authoring, NeedsFirstUseApproval, Judged, Taken
<1> QED BY <1>4, <1>5, <1>6

\* The review log grows by a code for an exception that may be reclassified, or a name.
LEMMA Reviews ==
    ASSUME IInv, UNCHANGED <<edge, batch, authoring>>,
           \A a \in accepted' : a \in accepted \/ Reclassifiable(a.exc)
    PROVE  IInv'
<1> USE DEF IInv, edge, batch, authoring
<1>1. Typed' /\ Asking' /\ Counted'
    BY DEF Typed, Asking, Counted, More, Current, Authoring
<1>2. Journaled' /\ Authored' /\ Judged'
    BY DEF Journaled, Says, Authored, Authoring, NeedsFirstUseApproval, Judged, Taken
<1>3. Unmoved'
    BY DEF Unmoved, Reclassifiable
<1> QED BY <1>1, <1>2, <1>3

LEMMA Steps == IInv /\ [Next]_vars => IInv'
<1> SUFFICES ASSUME IInv, [Next]_vars PROVE IInv'
    OBVIOUS
<1>1. CASE UNCHANGED vars
    BY <1>1, Reviews DEF vars, review
<1>2. ASSUME NEW e, NEW code, NEW who, Accept(e, code, who) PROVE IInv'
    BY <1>2, Reviews DEF Accept
<1>3. CASE SignOff
    BY <1>3, Reviews DEF SignOff
<1>4. ASSUME NEW who, AcceptOnPage(who) PROVE IInv'
    BY <1>2, <1>4 DEF AcceptOnPage
<1>5. ASSUME NEW e, NEW code, NEW who, AcceptByAgent(e, code, who) PROVE IInv'
    BY <1>2, <1>5 DEF AcceptByAgent
<1> QED BY <1>1, <1>3, <1>4, <1>5, Calls, BatchSteps, Retried, Gives, DraftSteps, Attested,
           Applied DEF Next

LEMMA Invariance == Spec => []IInv
BY Begins, Steps, PTL DEF Spec
-----------------------------------------------------------------------------
\* No code moves, and no rule or spec is in force, without a named person (attest,
\* apply_attested, build_rule, build_spec).
THEOREM OnlyPeopleMove == Spec => []NothingMovesUnattested
<1>1. IInv => NothingMovesUnattested
    BY DEF IInv, Unmoved, Authored, NothingMovesUnattested
<1> QED BY <1>1, Invariance, PTL

\* A derived label stands and is never sent to the model (reclassifiable).
THEOREM DerivedLabelsStand == Spec => []DerivedStands
<1>1. IInv => DerivedStands
    BY DEF IInv, Unmoved, DerivedStands
<1> QED BY <1>1, Invariance, PTL

\* Every answer is asked for once and recorded as what it was (ModelEdge._post).
THEOREM AnswersAreRecorded == Spec => []AnsweredOnceAndRecorded
<1>1. ASSUME IInv PROVE AnsweredOnceAndRecorded
  <2>1. run.asker = "batch" => Len(journal) = Len(run.out)
      BY <1>1 DEF IInv, Journaled
  <2>2. \A i \in DOMAIN journal : journal[i].exc = Batch[i]
      BY <1>1 DEF IInv, Journaled
  <2>3. \A i \in DOMAIN results : (journal[i].kind = "proposed") = results[i].ok
      BY <1>1 DEF IInv, Journaled, Says
  <2>4. results # <<>> => Len(journal) = Len(results)
      BY <1>1 DEF IInv, Journaled
  <2>5. \A e \in Subjects : replies[e] < 2 /\ posts[e] <= Retries
      BY <1>1 DEF IInv, Counted
  <2> QED BY <1>1, <2>1, <2>2, <2>3, <2>4, <2>5 DEF IInv, Authored, AnsweredOnceAndRecorded
<1> QED BY <1>1, Invariance, PTL
===============================================================================
