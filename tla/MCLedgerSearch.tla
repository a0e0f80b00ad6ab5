-------------------------- MODULE MCLedgerSearch ---------------------------
(* Small instances of LedgerSearch for TLC: hashes of one or two hex digits, *)
(* two accounts, three rows that meet in every order.                       *)
EXTENDS LedgerSearch

CONSTANTS r1, r2, r3, ann, bob, w1, w2, w3

MCRows == {r1, r2, r3}

Hash(width, bits) == [width |-> width, bits |-> bits]

\* r1 and r2 are near one another by pHash and apart by dHash.
MCPHash == (r1 :> Hash(1, {1})) @@ (r2 :> Hash(1, {1, 2})) @@ (r3 :> Hash(1, {2, 3, 4}))
MCDHash == (r1 :> Hash(1, {1, 2, 3})) @@ (r2 :> Hash(1, {4})) @@ (r3 :> Hash(1, {}))

\* r1 and r3 carry one payload, for two accounts.
MCPayload == (r1 :> w1) @@ (r2 :> w2) @@ (r3 :> w1)
MCAccount == (r1 :> ann) @@ (r2 :> ann) @@ (r3 :> bob)

\* The clocks of two workers gave r2 and r3 one created_at.
MCCreated == (r1 :> 1) @@ (r2 :> 2) @@ (r3 :> 2)

\* One of the rows' hashes, and one of another length.
MCHashes == {Hash(1, {1, 2}), Hash(2, {1, 5})}

MCSuspects == {[payload |-> w, phash |-> Hash(1, {1}), dhash |-> Hash(1, {4})] :
                  w \in {w1, w3, NoPayload}}

=============================================================================
