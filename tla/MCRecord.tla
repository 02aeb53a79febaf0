------------------------------ MODULE MCRecord ------------------------------
(* Three bank lines, two of which share a reference, and three rows of the    *)
(* other side.                                                               *)
EXTENDS Desk, TLC

MCExternal == "a1" :> "r1" @@ "a2" :> "r2" @@ "a3" :> "r1"
                @@ "g1" :> "g1" @@ "g2" :> "g2" @@ "g3" :> "g3"
MCAmount == "a1" :> 3 @@ "a2" :> 2 @@ "a3" :> 1

\* A page holds three plain events; a match, with its proof, fills it alone.
MCWeight ==
    [k \in {"CloseStarted", "SourceIngested", "IntakeUnverified", "OutOfScope",
            "MatchProven", "MatchRejected", "ExceptionRaised", "PostingWritten",
            "CloseBlocked", "AuthorityVerified", "ProposalRefused", "RuleApplied",
            "CloseCompleted"}
       |-> CASE k = "MatchProven" -> 4 [] k = "ExceptionRaised" -> 2 [] OTHER -> 1]

MCLimits == {None, 0, 2}

Match(n, a, g) == [id |-> n, anchor |-> a, group |-> g]
Issue(n, on, v, b) == [id |-> n, on |-> on, alternatives |-> {}, value |-> v, blocks |-> b]

\* The policy directory as it was signed, or with a file nobody signed.
Signed == "policy" :> 1 @@ "taxonomy" :> 1
Bundle(files) ==
    [bundle |-> "policy", files |-> files, manifest |-> [files |-> Signed, key |-> "approver"]]

Nothing ==
    [read |-> {"a1", "a2", "a3", "g1", "g2", "g3"},
     sources |-> <<[source |-> "bank", strength |-> "verified"],
                   [source |-> "gateway", strength |-> "declared"]>>,
     kept |-> <<>>, refused |-> <<>>, raised |-> <<>>, scope |-> <<>>,
     directed |-> [x \in {"x1", "x2", "x3"} |-> None],
     errors |-> {}, lost |-> {}, bundles |-> <<Bundle(Signed @@ "draft" :> 1)>>,
     inadmissible |-> <<>>, applied |-> <<>>]

\* Everything matches, one line is a debit.
Clean ==
    [Nothing EXCEPT !.kept = <<Match("m1", "a1", {"g1", "g3"}), Match("m2", "a2", {"g2"})>>,
                    !.scope = <<"a3">>, !.bundles = <<Bundle(Signed)>>]
\* A credit nobody can explain, and an ambiguous one that a rule books.
Unexplained ==
    [Nothing EXCEPT !.kept = <<Match("m1", "a1", {"g1"})>>,
                    !.raised = <<Issue("x1", <<"a2">>, 2, TRUE),
                                 [Issue("x2", <<"a3">>, 1, TRUE) EXCEPT
                                    !.alternatives = {{"g2"}, {"g3"}}]>>,
                    !.directed["x2"] = "fees", !.applied = <<"book">>]
\* A refused match, a shortfall on a matched line and a small unexplained credit.
Refused ==
    [Nothing EXCEPT !.kept = <<Match("m2", "a2", {"g2"})>>,
                    !.refused = <<Match("m1", "a1", {"g1"})>>,
                    !.raised = <<Issue("x1", <<"a2", "g3">>, 1, FALSE),
                                 Issue("x2", <<"a3">>, 1, TRUE)>>]
\* A match that was refused after its shortfall had been raised.
ShortRefused ==
    [Nothing EXCEPT !.kept = <<Match("m2", "a2", {"g2"})>>,
                    !.refused = <<Match("m1", "a1", {"g1"})>>,
                    !.raised = <<Issue("x1", <<"a1", "g1">>, 1, FALSE)>>, !.scope = <<"a3">>]
\* A rule took a1's match away.
Lost ==
    [Nothing EXCEPT !.kept = <<Match("m2", "a2", {"g2"})>>,
                    !.raised = <<Issue("x1", <<"a1", "g1">>, 3, TRUE),
                                 Issue("x2", <<"g3">>, 1, TRUE)>>,
                    !.scope = <<"a3">>, !.lost = {"a1"}, !.applied = <<"suppress">>]
\* Two matched lines with one reference.
Shared ==
    [Nothing EXCEPT !.kept = <<Match("m1", "a1", {"g1"}), Match("m2", "a2", {"g2"}),
                               Match("m3", "a3", {"g3"})>>]
\* A source that failed, a row nobody mentions, a ledger that does not load.
Failed ==
    [Nothing EXCEPT !.read = @ \ {"a3"}, !.sources[2].strength = "failed",
                    !.kept = <<Match("m1", "a1", {"g1"}), Match("m2", "a2", {"g2"})>>,
                    !.raised = <<Issue("x3", <<"g3">>, 1, TRUE)>>,
                    !.inadmissible = <<"widen">>]
Unbalanced == [Clean EXCEPT !.errors = {"loader"}]
Unmentioned == [Clean EXCEPT !.kept = <<Match("m1", "a1", {"g1"}), Match("m2", "a2", {"g2"})>>]

MCDecisions ==
    {Clean, Unexplained, Refused, ShortRefused, Lost, Shared, Failed, Unbalanced, Unmentioned}
=============================================================================
