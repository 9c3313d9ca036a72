------------------------------- MODULE MCServe -------------------------------
(***************************************************************************)
(* Small instances of ServeCaches: two configuration fields, one cached    *)
(* handler of each kind, two requests and one or two goroutines that       *)
(* reconfigure the Mux.                                                    *)
(***************************************************************************)
EXTENDS ServeCaches, TLC

CONSTANTS NotFoundField, OtherField

\* A program that keeps still, one that calls Rebuild, and one that calls anything.
MCOverlaps == {{}, {"rebuild"}, {"rebuild", "assign"}}
AnyOverlap == {{"use", "rebuild", "assign"}}
RebuildOverlaps == {{"rebuild"}}

MCFieldOf == [s \in Slots |-> IF s \in NotFound THEN NotFoundField ELSE OtherField]

Symmetry == Permutations(Request) \cup Permutations(Admin)
=============================================================================
