------------------------------ MODULE MCGroups ------------------------------
(* Instance of Groups: prefixes with and without a slash at the end.        *)
EXTENDS Groups

MCPrefixes == {<<"/">>, <<"/", "a", "/">>}
MCPaths == {<<"/", "b">>, <<"/", "*f">>}
=============================================================================
