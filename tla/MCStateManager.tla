---------------------------- MODULE MCStateManager ----------------------------
EXTENDS StateManager

CONSTANTS alice, bob, carol, k, t0

Out(r, a) == [receiver |-> r, amount |-> a]
Ref(id, i) == [tx_id |-> id, index |-> i]

\* Alice holds 3 and Bob 1; Carol has no account; a UTXO of Alice's; one
\* deployed contract at address k.
MCBalances  == (alice :> 3) @@ (bob :> 1)
MCNonces    == (alice :> 0) @@ (bob :> 0)
MCUtxos     == <<t0, 0>> :> Out(alice, 2)
MCContracts == k :> [creator |-> alice, state |-> "deployed"]

\* Account transfers carrying (possibly empty) UTXO inputs and outputs.
A1 == [sender |-> alice, receiver |-> bob, amount |-> 1, fee |-> 1, inputs |-> <<>>, outputs |-> <<>>]
A2 == [sender |-> bob, receiver |-> alice, amount |-> 1, inputs |-> <<>>, outputs |-> <<>>]
\* Alice pays Carol, who has no account yet.
A3 == [sender |-> alice, receiver |-> carol, amount |-> 1, inputs |-> <<>>, outputs |-> <<>>]
\* Alice calls the contract and moves her UTXO to Bob.
A4 == [sender |-> alice, receiver |-> k, amount |-> 1, contract_code |-> "code",
       inputs |-> <<Ref(t0, 0)>>, outputs |-> <<Out(bob, 2)>>]
\* Carol, created by A3 with a balance and no nonce, pays Alice.
M1 == [sender |-> carol, receiver |-> alice, amount |-> 1, inputs |-> <<>>, outputs |-> <<>>]
\* A transfer without UTXO fields.
M2 == [sender |-> bob, receiver |-> alice, amount |-> 1]

\* Deploys of code "c" by creator "ab" and of code "ca" by creator "b":
\* both hash the string "cab".
MCDeployments == {<<<<"c">>, <<"a", "b">>>>, <<<<"c", "a">>, <<"b">>>>}
Cab == <<"c", "a", "b">>
\* Bob calls the contract deployed at "cab".
A5 == [sender |-> bob, receiver |-> Cab, amount |-> 1, contract_code |-> "code",
       inputs |-> <<>>, outputs |-> <<>>]

BlocksOf(T) == { <<x>> : x \in T } \cup { <<x, y>> : x, y \in T }

WellFormedBlocks == BlocksOf({A1, A2, A3, A4})
ContractBlocks == BlocksOf({A2, A4, A5})
AnyBlocks == BlocksOf({A1, A3, M1, M2})
==============================================================================
