---------------------------- MODULE MCDevSession ----------------------------
(* DevSession on two tokens, two addresses and three chains. *)
EXTENDS DevSession, TLC

CONSTANTS t1, t2, a1, a2

\* Two entries per address is what every EVM coin of the registry gives: they
\* all share one derivation path.
MCBookDistinct == <<a1, a2>>
MCBookShared == <<a1, a1>>
MCBookMixed == <<a1, a2, a1>>
MCNetLists == {{}, {"ethereum", "sepolia"}}
MCMinutes == {-2, 5}

\* Tokens are random strings, compared only for equality.
Symmetry == Permutations({t1, t2})
=============================================================================
