----------------------------- MODULE MCEvidence ----------------------------
(* A repetition code of three nibbles for the Reed-Solomon code, an       *)
(* image of four rows of blocks and one too small, a group of order 3.        *)
EXTENDS Evidence, TLC

CONSTANTS s1, s2, alice, bob

MCNoPayload == -1
MCPayloads == 0..15
MCEncode == [p \in 0..15 |-> <<p, p, p>>]

Plain(d1, d2, sync, rest) == [data |-> <<d1, d2>>, sync |-> sync, rest |-> rest]

\* Flat, textured and dark blocks. Without the rightmost column block 5, whose
\* synchronisation coefficient is zero, comes to stand among the first four.
Blocks == [b \in 1..16 |->
    CASE b % 4 = 0 -> Plain(0, 0, 6, 0)
      [] b % 4 = 1 -> Plain(9, -14, 0, 20)
      [] b % 4 = 2 -> Plain(-3, 6, -9, 40)
      [] b % 4 = 3 -> Plain(22, 2, 13, 11)]

MCImages == {[width |-> 4, blocks |-> Blocks], [width |-> 3, blocks |-> SubSeq(Blocks, 1, 9)]}

MCJunk == {Plain(31, -7, 26, 60)}
MCGains == {<<3, 4>>, <<5, 4>>, <<0, 1>>}
MCNoise == {0, 1}

MCSecrets == {s1, s2}
MCClaims == {alice, bob}
MCHSecret == (s1 :> 14) @@ (s2 :> 9)

\* Nibbles that read differently backwards.
MCPayloadOf == (<<s1, alice>> :> 2) @@ (<<s1, bob>> :> 13) @@
               (<<s2, alice>> :> 7) @@ (<<s2, bob>> :> 4)

MCHashes == {1}
MCDigest == [x \in MCPayloads \X MCHashes \X MCClaims |-> (x[1] + x[2]) % 3]
MCRandomness == {0, 2}

=============================================================================
