----------------------------- MODULE MCWriters -----------------------------
(***************************************************************************)
(* Instance of Writers: every order of the three layers, each used at most *)
(* once, and Compress inside Compress.                                     *)
(***************************************************************************)
EXTENDS Writers, SequencesExt

MCChains == {c \in BoundedSeq(LayerKinds, 3) : IsInjective(c)} \cup {<<"compress", "compress">>}
=============================================================================
