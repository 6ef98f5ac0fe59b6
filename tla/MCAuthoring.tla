---- MODULE MCAuthoring ----
EXTENDS Authoring

I(id, sound) == [id |-> id, sound |-> sound]
S(id, intent, kind, mode, skills, sound) ==
  [id |-> id, intent |-> intent, kind |-> kind, mode |-> mode, skills |-> skills, sound |-> sound]

E(id) == [id |-> id, mode |-> "input_validation"]
Live(name, odd, tagged, edges) == [name |-> name, odd |-> odd, tagged |-> tagged, edges |-> edges]

\* "manual" is a loader of skills by its tag only, which the source does not show.
Source(parses, skills, branches) ==
  [parses |-> parses, tools |-> <<[name |-> "manual", edges |-> <<E("manual")>>], [name |-> "look", edges |-> <<E("old")>>]>>,
   loaders |-> <<"load_skill", "manual">>, list |-> <<"look">>, skills |-> skills, branches |-> branches,
   traits |-> {}]
Imported(tools, skills, builds, loads, describes) ==
  [tools |-> tools, skills |-> skills, builds |-> builds, loads |-> loads, describes |-> describes]

MCLive == <<Live("look", FALSE, FALSE, <<E("edge")>>), Live("manual", FALSE, TRUE, <<E("manual")>>),
            Live("load_skill", FALSE, FALSE, <<E("skill")>>), Live("pay", TRUE, FALSE, <<E("pay")>>)>>

ok == S("ok", "i1", "happy", None, {"refunds"}, TRUE)
other == S("other", "i1", "happy", None, {"made up"}, TRUE)
bad == S("bad", "i1", "failure", "tool_misuse", {}, TRUE)

A(intents, scenarios, failures, topics) ==
  [intents |-> intents, scenarios |-> scenarios, failures |-> failures, topics |-> topics]
MCMapAnswers ==
  {A(<<I("i1", FALSE)>>, <<ok>>, <<>>, <<>>),
   A(<<I("i1", TRUE)>>, <<ok, bad>>, <<"tool_misuse">>, <<>>),
   A(<<I("i1", TRUE), I("i1", TRUE)>>, <<ok>>, <<>>, <<>>),
   A(<<I("i1", TRUE)>>,
     <<other, ok, S("lost", "i9", "happy", None, {}, TRUE), S("stale", "i1", "failure", "branch_misrouting", {}, TRUE)>>,
     <<"tool_misuse", "tool_misuse", "branch_misrouting">>, <<"orders">>)}

C(happy, category, out, edges, total, share, auto, source, live) ==
  [source |-> source, live |-> live, constrained |-> auto, happy |-> happy, failure |-> 1, category |-> category, out |-> out, edges |-> edges,
   total |-> total, share |-> share, auto |-> auto]
MCConfigs ==
  {C(0, 1, 0, 0, 4, 50, TRUE, Source(TRUE, {"refunds"}, FALSE), Imported(MCLive, {}, TRUE, TRUE, FALSE)),
   C(1, 0, 2, 1, 1, 34, FALSE, Source(TRUE, {}, FALSE), Imported(MCLive, {"refunds"}, FALSE, TRUE, TRUE)),
   C(2, 1, 0, 0, 3, 15, TRUE, Source(TRUE, {"refunds"}, TRUE), Imported(MCLive, {}, FALSE, FALSE, TRUE)),
   C(1, 1, 0, 1, 1, 0, TRUE, Source(FALSE, {}, TRUE), Imported(<<>>, {}, FALSE, FALSE, TRUE))}
Alike == Permutations(Texts)
====
