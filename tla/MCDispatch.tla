----------------------------- MODULE MCDispatch -----------------------------
(***************************************************************************)
(* Instances of Dispatch: a Mux with two others mounted below it, one under*)
(* a static and one under a parameter prefix, the second also nested in the*)
(* first; routes that differ by a trailing '/' and by method.              *)
(***************************************************************************)
EXTENDS Dispatch

CONSTANTS MaxMissing,   \* bound: routes not yet registered when serving begins
          RawPath       \* whether UseRawPath is explored

MCHex == [x \in {<<"2", "F">>, <<"6", "1">>} |-> IF x = <<"2", "F">> THEN "/" ELSE "a"]

R(method, pattern) == [method |-> method, pattern |-> pattern, to |-> 0]
M(prefix, to) == [method |-> "*", pattern |-> prefix \o <<"/", "*">>, to |-> to]

MCRoutes == [k \in 1..3 |->
    CASE k = 1 -> {R("GET", <<"/", "b">>), R("POST", <<"/", "b", "/">>),
                   M(<<"/", "a">>, 2), M(<<"/", ":">>, 3)}
      [] k = 2 -> {R("GET", <<"/", "b">>), R("GET", <<"/", ":", "/">>), R("POST", <<"/", "b", "/">>),
                   R("OPTIONS", <<"/", "b">>), M(<<"/", ":">>, 3)}
      [] k = 3 -> {R("GET", <<"/", "b">>), R("GET", <<"/", ":", "/">>), R("POST", <<"/", ":">>)}]

All == UNION {{<<k, r>> : r \in MCRoutes[k]} : k \in 1..3}
MCStarts == {[k \in 1..3 |-> {r \in MCRoutes[k] : <<k, r>> \notin d}] :
               d \in {d \in SUBSET All : Cardinality(d) <= MaxMissing}}

C(slash, fixed, options, mna, code, raw, pre) ==
    [k \in 1..3 |-> [redirectTrailingSlash |-> slash, redirectFixedPath |-> fixed,
                     handleOPTIONS |-> options, handleMethodNotAllowed |-> mna,
                     redirectCode |-> code, useRawPath |-> raw,
                     unescapePathValues |-> raw /\ ~ RawPath, pre |-> pre]]
MCConfigs == IF RawPath THEN {C(TRUE, FALSE, TRUE, TRUE, 0, TRUE, "none")}
             ELSE {C(TRUE, TRUE, TRUE, TRUE, 0, FALSE, "none"),
                   C(FALSE, TRUE, FALSE, TRUE, 308, FALSE, "none"),
                   C(TRUE, TRUE, TRUE, TRUE, 0, TRUE, "none"),
                   C(TRUE, FALSE, TRUE, FALSE, 0, FALSE, "CleanPath"),
                   C(TRUE, FALSE, TRUE, FALSE, 0, FALSE, "StripSlashes")}

\* Segments, written plainly, encoded, or with an encoded '/' inside.
Segs == {<<>>, <<"a">>, <<"b">>, <<"%", "6", "1">>, <<"a", "%", "2", "F", "b">>, <<".", ".">>}
MCUrls == {<<"/">> \o x : x \in Segs} \cup {<<"/">> \o x \o <<"/">> \o y : x, y \in Segs}
          \cup {<<"/">> \o x \o <<"/">> \o y \o <<"/">> \o z :
                   x \in Segs \ {<<>>}, y \in Segs, z \in {<<>>, <<"a">>, <<"%", "6", "1">>}}
          \cup {<<"/">> \o x \o <<"%", "2", "F">> : x \in {<<>>, <<"b">>, <<"a", "/", "b">>, <<"b", "/">>}}
=============================================================================
