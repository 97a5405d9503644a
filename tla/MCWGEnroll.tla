----------------------------- MODULE MCWGEnroll -----------------------------
(* A small host: the rules of two manifests as WireGuardRules makes them, and rules of an  *)
(* owner whose words need quoting. "e" and "n" are words that need none.                   *)
EXTENDS BerylHost, TLC
CONSTANTS m1, m2

Enroll(m) == [op |-> "peer-enroll", manifest |-> m]
InspectIt(m) == [op |-> "peer-inspect", manifest |-> m]
Factory(m) == (<<<<"e">>, <<"n">>>> :> Enroll(m)) @@ (<<<<"e", " ", "n">>>> :> InspectIt(m))
Owner == (<<<<"e", "'">>>> :> Enroll(m1)) @@ (<<<<"e">>, <<"n">>>> :> InspectIt(m1))
MCRules == {Factory(m1), Factory(m2), Owner}

\* Lines that nobody quoted: blanks, an open quote, an expansion.
MCLines == {<<"e", " ", " ", "n">>, <<"e", "'">>, <<"e", "$">>}
=============================================================================
