----------------------------- MODULE MCSession -----------------------------
(* Session with small sets of streams and geometries, for TLC. *)
EXTENDS Session, TLC

StreamSymmetry == Permutations(Streams)
=============================================================================
