------------------------------ MODULE MCBreaks ------------------------------
\* Two files of the TDS loop, in which rows differ from one another on each part, on an
\* undeclared one, by rounding and altogether; and statements with a balance.
EXTENDS Breaks

CONSTANTS unread, nofigure, undeclared

Row(tan, section, quarter, date, amount, ref) ==
    [blank |-> FALSE, keys |-> [tan |-> tan, section |-> section, quarter |-> quarter],
     ref |-> ref, date |-> date, cell |-> amount, places |-> 2, debit |-> FALSE, balance |-> NoFigure,
     worth |-> IF amount = Unread THEN 0 ELSE amount, filed |-> "F"]

File(rows) ==
    [readable |-> TRUE, rows |-> rows, opening |-> NoFigure, closing |-> NoFigure, total |-> NoFigure]

MCByDifference ==
    [tan |-> Undeclared, date |-> Undeclared, section |-> "SECTION", quarter |-> "QUARTER", amount |-> "RATE"]
MCByAbsence == [government |-> {"UNBOOKED"}, books |-> {"NOT-DEPOSITED", "PAN-MISMATCH"}]

\* An order of the natural keys that agrees with none of their fields.
Weight == [s1 |-> 5, s2 |-> 1, s3 |-> 3, q1 |-> 20, q2 |-> 50, q3 |-> 10]
MCDigest(key) ==
    CASE Len(key) = 5 -> (Weight[key[2]] + Weight[key[3]] + 7 * key[5]) % 97
      [] Len(key) = 2 -> key[2]
      [] OTHER -> IF key = <<"c">> THEN 1 ELSE 0

Spec26AS == [verb |-> "decimal", natural |-> <<"tan", "section", "quarter", "ref", "amount">>, unmappable |-> FALSE]
TDSSpecs == [s \in Sides |-> Spec26AS]

Menu(ref) ==
    {Row("t1", "s1", "q1", "d1", 100, ref), Row("t1", "s2", "q1", "d1", 100, ref),
     Row("t1", "s1", "q2", "d1", 100, ref), Row("t1", "s1", "q1", "d1", 103, ref)}
MenuOfAnchors == Menu("c") \cup {Row("t1", "s1", "q1", "d1", 150, "c")}
MenuOfGroups == Menu("v") \cup {Row("t1", "s1", "q1", "d2", 100, "v")}
Odd == {[Row("t1", "s2", "q1", "d1", 100, "c") EXCEPT !.places = 1],
        [Row("t1", "s1", "q1", "d1", 100, "c") EXCEPT !.filed = "U"], Row("t1", "s1", "q1", "d1", Unread, "c")}
MCStrangers == {Row("t2", "s3", "q3", "d3", 70, "c")}

Rows(set, n) == UNION {[1..k -> set] : k \in 0..n}
TDSScenes ==
    {[specs |-> TDSSpecs, files |-> [government |-> File(g), books |-> File(b)]] :
        g \in Rows(MenuOfAnchors \cup Odd, 2), b \in Rows(MenuOfGroups, 2)}

\* A statement whose rows moved `worth`, read or not, with the balances it states, of
\* every row or of every row but the second.
\* Three rows to see a balance chain over a row that is lost, else two.
Outcomes == {"read", "rule", "nodate", "noamount"}
Printed(amounts, worth) ==
    CASE amounts = "signed" -> worth [] amounts = "minor" -> 100 * worth [] amounts = "unsigned" -> Magnitude(worth)
BankRow(amounts, worth, read, balance) ==
    [blank |-> read = "rule", keys |-> [tan |-> "b", section |-> "s1", quarter |-> "q1"], ref |-> "n",
     date |-> IF read = "nodate" THEN Unread ELSE "d1",
     cell |-> IF read = "noamount" THEN Unread ELSE Printed(amounts, worth), places |-> 2,
     debit |-> worth < 0, balance |-> balance, worth |-> worth, filed |-> "F"]
Statement(amounts, worths, reads, states) ==
    LET after(i) == MapThenSumSet(LAMBDA j : worths[j], 1..i)
        has(i) == states = "rows" \/ (states = "gaps" /\ i # 2)
        row(i) == BankRow(amounts, worths[i], reads[i], IF has(i) THEN after(i) ELSE NoFigure)
        last == after(Len(worths))
    IN  [readable |-> states # "torn", rows |-> [i \in DOMAIN worths |-> row(i)],
         opening |-> IF states = "ends" THEN 0 ELSE NoFigure,
         closing |-> IF states = "ends" THEN last ELSE NoFigure,
         total |-> IF states = "total" THEN last ELSE NoFigure]
Stated == {<<"rows", 3>>, <<"gaps", 3>>, <<"ends", 2>>, <<"total", 2>>, <<"torn", 1>>}
BankSpec(verb, natural) == [verb |-> verb, natural |-> natural, unmappable |-> FALSE]
\* The last one reads amounts without the sign that their column gives them.
BankSpecs ==
    {<<BankSpec("decimal", <<>>), "signed">>, <<BankSpec("sign_from_column", <<"ref", "amount">>), "unsigned">>,
     <<BankSpec("decimal_minor", <<"ref", "utr">>), "minor">>, <<BankSpec("decimal_minor", <<"ref">>), "minor">>,
     <<[BankSpec("decimal", <<"ref">>) EXCEPT !.unmappable = TRUE], "signed">>,
     <<BankSpec("decimal", <<"ref">>), "unsigned">>}
BankScenes ==
    UNION {{[specs |-> [government |-> s[1], books |-> Spec26AS],
             files |-> [government |-> Statement(s[2], w, r, t[1]), books |-> File(<<>>)]] :
                s \in BankSpecs, w \in [1..t[2] -> {-1, 2}], r \in [1..t[2] -> Outcomes]} : t \in Stated}

MCWindow == {"d1", "d2", "d3"}
MCBudget == <<2, 3>>
MCScenes == TDSScenes \cup BankScenes
=============================================================================
