----------------------------- MODULE MCUTXOLedger -----------------------------
EXTENDS UTXOLedger

CONSTANTS alice, bob, carol, t0

Out(r, a) == [receiver |-> r, amount |-> a]
Ref(id, i) == [tx_id |-> id, index |-> i]

\* Alice holds 2, Bob 1 and Carol 2, outputs of an earlier transaction t0.
MCInitialUtxos ==
    (<<t0, 0>> :> Out(alice, 2)) @@ (<<t0, 1>> :> Out(bob, 1)) @@ (<<t0, 2>> :> Out(carol, 2))

\* Alice pays Bob 1 and herself the change.
T1 == [sender |-> alice, inputs |-> <<Ref(t0, 0)>>, outputs |-> <<Out(bob, 1), Out(alice, 1)>>]
\* Alice spends the same output again, to herself.
T2 == [sender |-> alice, inputs |-> <<Ref(t0, 0)>>, outputs |-> <<Out(alice, 2)>>]
\* Bob pays Alice.
T3 == [sender |-> bob, inputs |-> <<Ref(t0, 1)>>, outputs |-> <<Out(alice, 1)>>]
\* Bob spends what T1 paid him, all of it as fee.
T5 == [sender |-> bob, inputs |-> <<Ref(T1, 0)>>, outputs |-> <<>>, fee |-> 1]
\* Bob pays Alice 1 out of 1 and a fee of 1 on top.
T6 == [sender |-> bob, inputs |-> <<Ref(t0, 1)>>, outputs |-> <<Out(alice, 1)>>, fee |-> 1]
\* Alice passes on what Bob paid her, and her change from T1.
T7 == [sender |-> alice, inputs |-> <<Ref(T3, 0), Ref(T1, 1)>>, outputs |-> <<Out(bob, 2)>>]
\* Carol pays Alice 1 and keeps 1, then pays her change to Bob.
T8 == [sender |-> carol, inputs |-> <<Ref(t0, 2)>>, outputs |-> <<Out(alice, 1), Out(carol, 1)>>]
T9 == [sender |-> carol, inputs |-> <<Ref(T8, 1)>>, outputs |-> <<Out(bob, 1)>>]
\* Alice lists her one output twice and pays Bob twice its value.
T4 == [sender |-> alice, inputs |-> <<Ref(t0, 0), Ref(t0, 0)>>, outputs |-> <<Out(bob, 4)>>]

WellFormedTxs == {T1, T2, T3, T5, T6, T7, T8, T9}
AllTxs == WellFormedTxs \cup {T4}
==============================================================================
