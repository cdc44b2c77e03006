---------------------------- MODULE MCRunsView ----------------------------
(* RunsView for TLC: what the user does, in four parts. *)
EXTENDS RunsView

CONSTANTS a, b

Topic(does, runs, opened, open, n, saves, failing, listing) ==
    [does |-> does, runs |-> runs, tabs |-> opened, open |-> open,
     acts |-> n, saves |-> saves, faults |-> failing, lists |-> listing]

\* Nothing: the runs change, and reading them fails once.
OnReading == Topic({}, {a}, <<a>>, TRUE, 0, 2, 1, 1)

OnTabs == Topic({"tabs"}, {a, b}, <<a>>, TRUE, 3, 0, 0, 1)

OnRules == Topic({"rules", "tabs"}, {a}, <<a>>, TRUE, 2, 1, 0, 1)

\* Two lists at a time answer in any order.
OnMenu == Topic({"menu"}, {a}, <<>>, FALSE, 2, 2, 0, 2)

AllTopics == {OnReading, OnTabs, OnRules, OnMenu}
===========================================================================
