---- MODULE MCEvaluation ----
EXTENDS Evaluation

Call(name, args) == [name |-> name, args |-> args]

MCToolCalls == [name : {"look", "pay"}, args : SUBSET {"x"}]
\* The same calls with two texts, other calls, and none.
MCReplies ==
  {[calls |-> <<>>, text |-> {"p"}],
   [calls |-> <<Call("look", {"x"}), Call("pay", {})>>, text |-> {}],
   [calls |-> <<Call("look", {"x"}), Call("pay", {})>>, text |-> {"p"}],
   [calls |-> <<Call("look", {}), Call("look", {"x"}), Call("pay", {"x"})>>, text |-> {}]}

\* Case 1 wants look(x) then pay, case 2 nothing, case 3 look twice.
Wanted == <<<<Call("look", {"x"}), Call("pay", {})>>, <<>>, <<Call("look", {}), Call("look", {})>>, <<>>, <<>>>>

Setup(cases, repeats, workers, metrics, judged, forbidden, threshold, sliceMin, overallPass) ==
  [cases |-> cases, repeats |-> repeats, workers |-> workers, metrics |-> metrics, judged |-> judged,
   expected |-> SubSeq(Wanted, 1, cases), contains |-> [c \in 1..cases |-> IF c = 1 /\ cases > 1 THEN {"p"} ELSE {}],
   forbidden |-> forbidden,
   group |-> [c \in 1..cases |-> IF c = 2 THEN "h" ELSE "g"],
   threshold |-> threshold, sliceMin |-> sliceMin, overallPass |-> overallPass]

\* The third has nothing but a judge when nothing is looked for: nothing may be scored.
\* 240012 is the 2/3 that four digits show.
MCSetups ==
  {Setup(2, 2, 2, {"judge", "text", "tools"}, {1, 2}, {}, 180000, 180000, 288000),
   Setup(2, 2, 1, {"tools"}, {}, {"look"}, 288000, 0, 270000),
   Setup(1, 2, 2, {"judge", "text"}, {1}, {}, 180000, 0, 270000),
   Setup(3, 1, 2, {"judge", "tools"}, {1, 3}, {}, 180000, 0, 240012),
   Setup(3, 1, 3, {"tools"}, {}, {"pay"}, 180000, 0, 240012),
   Setup(5, 1, 3, {"tools"}, {}, {}, 180000, 180000, 240012)}
====
