------------------------------ MODULE MCMatching ------------------------------
(* Small months for Matching: two groups of one and two rows, five rows no  *)
(* source grouped.  Credits of 10 and 11 meet a group's 10 exactly and in   *)
(* tolerance, 7 falls short of it by the amount of row "t".  In the pool    *)
(* {p, q} is 10, {u} is 9 and {v} is 11, so all three explain a 10 and two  *)
(* of them an 11; "w" explains nothing, and is one row too many.            *)
EXTENDS Matching

CONSTANT Facts       \* what may be known of an anchor

Amounts == [r |-> 10, s |-> 7, t |-> 3, p |-> 4, q |-> 6, u |-> 9,
            v |-> 11, w |-> 20]
MCRows == DOMAIN Amounts
MCGroupOf == [r |-> "g", s |-> "h", t |-> "h", p |-> "", q |-> "", u |-> "",
              v |-> "", w |-> ""]
MCCohort == [r |-> 1, s |-> 2, t |-> 3, p |-> 4, q |-> 4, u |-> 5,
             v |-> 6, w |-> 7]

(* What may be known of one credit; the party matters to lines without a    *)
(* reference.                                                               *)
AllFacts ==
  {f \in [ref : {"g", "h", ""}, credit : {7, 10, 11},
          window : SUBSET {"g", "h"}, party : {"P", ""}] :
     f.ref # "" => f.party = "P"}

(* What the rest of the month looks like.  A row of the pool that is out of *)
(* scope is not searched: the pool is {p, q, u} (in the second month with   *)
(* searches that may run out of time), all five rows, {p, q} and, in the    *)
(* last, the four that reach the limit of solutions.                        *)
Surroundings ==
  {[scope |-> {"v", "w"}, repeated |-> {}, odd |-> {}, h |-> "P", endings |-> {TRUE}],
   [scope |-> {"v", "w"}, repeated |-> {"t"}, odd |-> {"u"}, h |-> "",
    endings |-> {TRUE, FALSE}],
   [scope |-> {"a"}, repeated |-> {"t"}, odd |-> {}, h |-> "P", endings |-> {TRUE}],
   [scope |-> {"u", "v", "w", "s"}, repeated |-> {}, odd |-> {"s"}, h |-> "P",
    endings |-> {TRUE}],
   [scope |-> {"w"}, repeated |-> {}, odd |-> {}, h |-> "", endings |-> {TRUE}]}

Month(facts, around) ==
  [line |-> [a \in Anchors |-> IF a = "a" THEN 1 ELSE IF a = "b" THEN 2 ELSE 3],
   amount |-> Amounts,
   ref |-> [a \in Anchors |-> facts[a].ref],
   credit |-> [a \in Anchors |-> facts[a].credit],
   window |-> [a \in Anchors |-> facts[a].window],
   party |-> [x \in Anchors \cup Groups |->
                IF x \in Anchors THEN facts[x].party
                ELSE IF x = "g" THEN "P" ELSE around.h],
   scope |-> around.scope, repeated |-> around.repeated, odd |-> around.odd,
   endings |-> around.endings]

MCMonths == {Month(facts, around) : facts \in [Anchors -> Facts], around \in Surroundings}

Shipped == <<"exact", "tolerant", "partial_payment", "subset_sum">>
===============================================================================
