------------------------------ MODULE MCTriage ------------------------------
\* An exception with a derived label, one whose two causes the files cannot
\* separate, and a plain one.
EXTENDS Triage

MCLabel == [derived |-> "E09", torn |-> "E14", plain |-> "E14"]
MCAmbiguous == [derived |-> {}, torn |-> {"E01", "E02"}, plain |-> {}]
MCBatch == <<"derived", "torn", "plain">>

Reply(names, code, separate, cites) ==
    [names |-> names, code |-> code, separate |-> separate, hypothesis |-> TRUE, cites |-> cites]

\* About the exception asked or another, over an ambiguity, of a retired code, and
\* declining well and badly.
MCReplies ==
    {Reply(e, c, <<>>, {e}) : e \in Exceptions, c \in {"E01", "E99"}}
    \cup {Reply("torn", NoCode, <<"E01", "E02">>, {}), Reply("plain", NoCode, <<"E01">>, {}),
          Reply("plain", "E02", <<>>, {"torn"}), Reply("nothing", "E02", <<>>, {"plain"})}

\* Rules and specs that keep their contract and that break it in one way each.
Rule(list, then) == [kind |-> "rule", author |-> "human", then |-> then,
                     when |-> {[field |-> "keys.channel", op |-> "in", list |-> list]}]
Map(to, verb, has, name) == [to |-> to, verb |-> verb, has |-> has, name |-> name]
Whole == {Map("date", "date", {"source", "fmt"}, ""), Map("amount", "decimal", {"source", "sign"}, "")}
SpecOf(fields) == [kind |-> "spec", author |-> "human", fields |-> fields]
MCDrafts ==
    {Rule(l, {[kind |-> k, has |-> {"target"}]}) : l \in BOOLEAN, k \in {"book_to", "suppress", "approve"}}
    \cup {SpecOf(Whole \cup {f}) :
            f \in {Map("key", "text", {"source"}, "utr"), Map("key", "text", {"source"}, ""),
                  Map("key", "constant", {"source"}, "side"), Map("raw", "text", {"source", "sign"}, "")}}
    \cup {SpecOf({Map("date", "date", {"source", "fmt"}, "")})}
=============================================================================
