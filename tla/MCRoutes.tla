------------------------------ MODULE MCRoutes ------------------------------
(***************************************************************************)
(* Instances of RouteContract.  A behaviour registers, in any order, the   *)
(* patterns of one family; the families keep the runs small where patterns *)
(* of different families would not meet in the tree anyway.                *)
(***************************************************************************)
EXTENDS RouteContract

CONSTANT Families   \* sets of patterns

MCFold == [l \in Letters \cup {Slash} |->
              CASE l = "A" -> "a" [] l = "B" -> "b" [] OTHER -> l]

\* "{x}" accepts the segments without a "b"; "{y}" accepts everything.
MCAccepts(token, seg) == token = "{x}" => "b" \notin ToSet(seg)

MCOptionalToken == [o \in Optionals |-> IF o = "{/:o}" THEN ":o" ELSE "{x}"]

\* Two or three one-byte segments, with and without a trailing '/'.
Deep == {<<"/", x, "/", y>> : x, y \in {"a", "b"}}
DeepPaths == UNION {{q, q \o <<"/">>, q \o <<"/", "a">>, q \o <<"/", "b">>,
                     q \o <<"/", "/", "a">>} : q \in Deep}

\* Every path of at most 3 bytes after the leading '/', and the longer ones.
MCPaths == {<<"/">> \o s : s \in BoundedSeq({"/", "a", "b"}, 3)} \cup DeepPaths

\* Static and parameter siblings at two depths, splits inside and at the end of
\* literals, a parameter inside a segment, and patterns that conflict.
ParamRequests == {
    <<"/", "a", "/", "b">>, <<"/", "a", "b">>, <<"/", ":p">>, <<"/", ":p", "/", "b">>,
    <<"/", "a", "/", ":q">>, <<"/", ":q">>, <<"/", "a", ":p">> }

\* Catch-alls beside what they may and may not stand beside, optional segments
\* that expand into each other's routes, and every malformed pattern.
CatchAllRequests == {
    <<"/">>, <<"/", "a">>, <<"/", "a", "b">>, <<"/", "a", "/", "*c">>, <<"/", "*d">>,
    <<"/", "b", "{/:o}">>, <<"/", "b", "/", ":o", "/", "*c">>,
    <<"/", "b", "{/:o}", "{/:x}">>, <<"/", "a", "/", ":">>,
    <<"/", "b", "*c">>, <<"/", "b", "/", "*c", "/", "a">> }

\* Three levels of static beside wildcard, so that one lookup retries several
\* forks and spills its params; regex parameters end their patterns.
DeepRequests == {
    <<"/", "a", "/", "a", "/", "{x}">>,
    <<"/", "a", "/", ":q", "/", "b">>, <<"/", "a", "/", ":q", "/", ":o", "/", "b">>,
    <<"/", ":p", "/", "a", "/", "b">>,
    <<"/", ":p", "/", ":q", "/", ":o">>, <<"/", "b", "{/:o}", "/", "a", "{/:x}">> }

\* The routes and mounts of MCDispatch, and more of them in one tree.
MountRequests == { <<"/", "b">>, <<"/", "b", "/">>, <<"/", "a", "/", "*c">>, <<"/", ":p", "/", "*d">> }
SlashRequests == { <<"/", "b">>, <<"/", ":p">>, <<"/", ":p", "/">> }

\* Two routes below one regex parameter.
RegexRequests == { <<"/", "{x}", "/", "a">>, <<"/", "{x}", "/", "b">>, <<"/", "a">> }

\* A literal that leaves another at a '/'.
TsrRequests == { <<"/", "a", "/", "b">>, <<"/", "a", "b">> }

\* A catch-all below a literal that another route shares.
TsrCatchAllRequests == { <<"/", "a", "/", "*c">>, <<"/", "a", "b">> }

\* Two routes whose literals differ first in letter case.
CaseRequests == { <<"/", "A", "b">>, <<"/", "a", "a">> }

MCHintFamilies == {MountRequests, SlashRequests}
AllFamilies == {ParamRequests, CatchAllRequests, DeepRequests} \cup MCHintFamilies
RegexFamily == {RegexRequests}
TsrFamilies == {TsrRequests, TsrCatchAllRequests}
CaseFamily == {CaseRequests}

MCRequests == UNION Families

OneFamily == \E F \in Families : \A m \in Method :
                 {r[2] : r \in routes[m]} \cup ({job.handler} \ {NoHandler}) \subseteq F
=============================================================================
