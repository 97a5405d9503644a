--------------------------- MODULE MCHostedSession ---------------------------
(***************************************************************************)
(* Small instances of HostedSession. Requests, subjects and verifiers are  *)
(* interchangeable.                                                        *)
(***************************************************************************)
EXTENDS HostedSession, TLC

Interchangeable == Permutations(Requests) \cup Permutations(Subjects) \cup Permutations(Verifiers)
=============================================================================
