----------------------------- MODULE MCGovernance -----------------------------
(* A history and a current period in two readings, seven rules, two policies. *)
EXTENDS Governance

\* The second policy lowers the ceiling from 2 to 1.
MCCeiling == <<2, 1>>
MCSeeded == "E05" :> "fees" @@ "E14" :> None

Everything(b) ==
    LET now(x, y) ==
          [rows |-> {"x0", "x1", "x2", "y1", "z1"}, anchors |-> {"a", "b", "c"},
           groups |-> {"g", "h", "k"},
           amount |-> "a" :> 10 @@ "b" :> 12 @@ "c" :> 5
                        @@ "x0" :> x @@ "x1" :> y @@ "x2" :> 10 @@ "y1" :> 10 @@ "z1" :> 5,
           backs |-> "a" :> "g" @@ "b" :> "h" @@ "c" :> "k",
           group |-> "x0" :> "g" @@ "x1" :> "g" @@ "x2" :> "g" @@ "y1" :> "h" @@ "z1" :> "k",
           key |-> "a" :> "p" @@ "b" :> "p" @@ "c" :> "p" @@ "x0" :> "p" @@ "x1" :> "p"
                     @@ "x2" :> "p" @@ "y1" :> "p" @@ "z1" :> "q",
           names |-> "a" :> {"a"} @@ "b" :> {"b", "y1"} @@ "c" :> {"c"}
                       @@ "g" :> {"x0", "x1", "x2"} @@ "h" :> {"y1"} @@ "k" :> {"z1"},
           code |-> "a" :> "E14" @@ "b" :> "E05" @@ "c" :> "E14"
                      @@ "g" :> "E14" @@ "h" :> "E14" @@ "k" :> "E05",
           proven |-> {"k"}]
    IN  IF b = "read2" THEN now(4, 3) ELSE now(0, 0)

MCBatches == {"history", "read1", "read2"}
MCWorld == "history" :> Everything("history") @@ "read1" :> Everything("read1")
             @@ "read2" :> Everything("read2")

On(h, r1, r2) == "history" :> h @@ "read1" :> r1 @@ "read2" :> r2
Acts(kind, amount, target, fires) ==
    [kind |-> kind, amount |-> amount, target |-> target, induced |-> 1, reference |-> 1,
     fires |-> fires, again |-> On({}, {}, {})]
Always(S) == On(S, S, S)

\* The fourth rule gives z1 a key that only the seventh, which has never met it in a
\* file, turns into the anchor's.
MCRule ==
    <<Acts("suppress", 0, None, Always({"x0"})),
      Acts("suppress", 0, None, On({}, {"x1"}, {"x1"})),
      Acts("set_tolerance", 2, None, Always({"y1"})),
      Acts("normalize_key", 0, "r", Always({"z1"})),
      Acts("raise_advisory", 0, "E20", On({"y1"}, {"y1", "z1"}, {"y1", "z1"})),
      Acts("book_to", 0, "fees", Always({"c"})),
      [Acts("normalize_key", 0, "p", Always({})) EXCEPT !.again = Always({<<"z1", "r">>})]>>

\* Stores that earlier releases may have left behind.
MCDeployments == {<<>>, <<5>>, <<1>>, <<1, 2>>, <<3, 4, 7>>, <<6>>}
=============================================================================
