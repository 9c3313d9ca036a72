----------------------------- MODULE MCBundles -----------------------------
(***************************************************************************)
(* Instance of Bundles: a route for every tier that behaves differently,   *)
(* and a mount below a parameter.                                          *)
(***************************************************************************)
EXTENDS Bundles, TLC

R(id, n, fast, mount) ==
    [id |-> id, keys |-> SubSeq(<<"p", "q", "r", "s">>, 1, n), fast |-> fast, mount |-> mount]

MCRoutes == {R("static", 0, FALSE, FALSE), R("one", 1, FALSE, FALSE), R("four", 4, FALSE, FALSE),
             R("fast1", 1, TRUE, FALSE), R("fast4", 4, TRUE, FALSE), R("mount", 1, FALSE, TRUE)}

\* What unreachable cells still contain makes no difference.
Reachable == <<conf, [c \in Used |-> heap[c]], pool, stack, done, kept>>

Symmetric == Permutations(Requests)
=============================================================================
