-------------------------- MODULE MCAccessControl --------------------------
(* Small instances of AccessControl for TLC.                                 *)
EXTENDS AccessControl, TLC

CONSTANTS w1, w2, s1, s2

MCAmount == ("embed" :> 2) @@ ("image" :> 1)

MCAmountOne == [r \in Routes |-> 1]

\* Two account ids, one of them with a separator in it.
MCAccounts == {<<"a">>, <<"a", Separator, "b">>}

MCNonces == {<<"n">>, <<"m">>}

\* A nonce drawn, or what follows the first separator of a text.
MCTokenNonces == MCNonces \cup {<<"b", Separator, "n">>}

\* Workers and secrets are interchangeable.
MCWorkerSymmetry == Permutations(Workers)
MCSecretSymmetry == Permutations(Secrets)

=============================================================================
