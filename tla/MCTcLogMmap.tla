----------------------------- MODULE MCTcLogMmap -----------------------------
(* Instances of TcLogMmap for TLC. *)
EXTENDS TcLogMmap, TLC

CONSTANTS s1, s2, s3

\* Sessions are interchangeable.
SessionSymmetry == Permutations({s1, s2, s3})
=============================================================================
