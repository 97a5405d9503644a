----------------------------- MODULE StateFile ------------------------------
(***************************************************************************)
(* The state file as a whole: provider keys (KeyRotation) and tokens       *)
(* (AppTokens).  A save writes both, but no operation reads one and        *)
(* changes the other, so that either is watched while the other rests; a   *)
(* change of what rests is a SaveOther of the one that is watched.         *)
(***************************************************************************)
EXTENDS KeyRotation

CONSTANTS Raws, Names, NoCheck,  \* of AppTokens
          Rests                  \* the list of tokens rests

VARIABLES file, copy, check, live, dead, stale
tokens == <<file, copy, check, live, dead, stale>>

Tokens == INSTANCE AppTokens

TokensRest == file = Rests /\ copy = Rests /\ check = Rests /\ live = {} /\ dead = {} /\ stale = {}
KeysRest == disk = Empty /\ mem = [p \in Procs |-> NoState]

InitEither == (Init /\ TokensRest) \/ (KeysRest /\ Tokens!Init)
NextEither == \/ file = Rests /\ Next /\ UNCHANGED tokens
              \/ file # Rests /\ Tokens!Next /\ UNCHANGED vars
SpecEither == InitEither /\ [][NextEither]_<<vars, tokens>>

\* A token that was handed out is accepted and one that was revoked refused (AppTokens).
AnswersAsTold == file # Rests => Tokens!AnswersAsTold
=============================================================================
