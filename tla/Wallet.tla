-------------------------------- MODULE Wallet --------------------------------
(***************************************************************************)
(* The wallet of src/cryptocurrency/wallet/: MultiSigWallet (multisig.py)  *)
(* and BalanceTracker (balance_tracker.py).                                *)
(*                                                                         *)
(* A public key is a model value; an ECDSA signature over SHA-256 is taken *)
(* as unforgeable, so a signature is the pair of the signer's key and the  *)
(* message, and public_key.verify accepts exactly the signature made with  *)
(* that key's private key over that message.  A signature list a caller    *)
(* hands verify_transaction holds pairs of a key and either a signature    *)
(* someone made, Forged (InvalidSignature) or Malformed, a hex or PEM     *)
(* text that does not parse (any other exception, re-raised as            *)
(* ValueError).                                                            *)
(*                                                                         *)
(* BalanceTracker amounts are Python floats; the model keeps small         *)
(* integers, whose sums floats hold exactly.  A transaction carries ok,    *)
(* whether sender, receiver and amount are present (amount 0 counts as     *)
(* present, an empty address does not).  save_balances writes the dict as  *)
(* JSON and load_balances reads it back unchanged; saved is <<>> before    *)
(* the first save and <<the dict written>> after.                          *)
(***************************************************************************)
EXTENDS Integers, Sequences, FiniteSets, TLC

CONSTANTS
    Participants,      \* public_keys of the wallet
    Outsiders,         \* other keys callers may list
    Messages,          \* transaction messages
    Required,          \* required_signatures
    MaxSignatures,     \* bound on sign_message calls
    MaxVerifications,  \* bound on verify_transaction calls
    Blocks,            \* blocks process_block is called with
    MaxBlockCalls      \* bound on process_block, save and load calls

\* The constructor raises ValueError unless this holds.
ASSUME Required <= Cardinality(Participants)

VARIABLES signatures, authorized, verifications, balances, saved, tracker_calls

ms_vars == <<signatures, authorized, verifications>>
bt_vars == <<balances, saved, tracker_calls>>
vars == <<ms_vars, bt_vars>>

Keys == Participants \cup Outsiders

\* Signature values no key made: one that fails verify, one that is not hex.
Forged == <<"forged", "signature">>
Malformed == <<"malformed", "signature">>

Init ==
    /\ signatures = {} /\ authorized = {} /\ verifications = 0
    /\ balances = <<>> /\ saved = <<>> /\ tracker_calls = 0

\* sign_message: the holder of key k signs message m.
SignMessage(k, m) ==
    /\ Cardinality(signatures) < MaxSignatures
    /\ signatures' = signatures \cup {<<k, m>>}
    /\ UNCHANGED <<authorized, verifications, bt_vars>>

\* The (public_key, signature) lists a caller can pass, of length 0 to 2.
SignatureLists ==
    LET Pairs == Keys \X (signatures \cup {Forged, Malformed})
    IN {<<>>} \cup {<<p>> : p \in Pairs} \cup {<<p, q>> : p, q \in Pairs}

\* The pairs the loop counts: verify succeeds and the key is one of
\* self.public_keys.  A pair listed twice is counted twice.
ValidCount(m, sigs) ==
    Cardinality({i \in DOMAIN sigs : sigs[i][2] = <<sigs[i][1], m>> /\ sigs[i][1] \in Participants})

\* verify_transaction: a malformed pair raises ValueError and nothing is
\* authorized; otherwise the message is authorized when the count reaches
\* required_signatures.
VerifyTransaction(m, sigs) ==
    /\ verifications < MaxVerifications
    /\ verifications' = verifications + 1
    /\ authorized' = IF (\A i \in DOMAIN sigs : sigs[i][2] /= Malformed)
                        /\ ValidCount(m, sigs) >= Required
                     THEN authorized \cup {m} ELSE authorized
    /\ UNCHANGED <<signatures, bt_vars>>

\* update_balance: a missing address starts at 0.
UpdateBalance(b, a, amount) ==
    IF a \in DOMAIN b THEN [b EXCEPT ![a] = @ + amount] ELSE (a :> amount) @@ b

\* process_transaction: the sender debited, then the receiver credited.
ProcessTransaction(tx, b) ==
    UpdateBalance(UpdateBalance(b, tx.sender, -tx.amount), tx.receiver, tx.amount)

\* process_block: the transactions in order; a malformed one raises
\* ValueError with the earlier ones applied.
RECURSIVE ProcessTransactions(_, _)
ProcessTransactions(txs, b) ==
    IF txs = <<>> THEN b
    ELSE IF ~Head(txs).ok THEN b
    ELSE ProcessTransactions(Tail(txs), ProcessTransaction(Head(txs), b))

ProcessBlock(blk) ==
    /\ tracker_calls < MaxBlockCalls
    /\ tracker_calls' = tracker_calls + 1
    /\ balances' = ProcessTransactions(blk, balances)
    /\ UNCHANGED <<saved, ms_vars>>

SaveBalances ==
    /\ tracker_calls < MaxBlockCalls
    /\ tracker_calls' = tracker_calls + 1
    /\ saved' = <<balances>>
    /\ UNCHANGED <<balances, ms_vars>>

\* load_balances: a missing file leaves the balances as they are.
LoadBalances ==
    /\ tracker_calls < MaxBlockCalls
    /\ tracker_calls' = tracker_calls + 1
    /\ balances' = IF saved = <<>> THEN balances ELSE saved[1]
    /\ UNCHANGED <<saved, ms_vars>>

Next ==
    \/ \E k \in Keys, m \in Messages : SignMessage(k, m)
    \/ \E m \in Messages : \E sigs \in SignatureLists : VerifyTransaction(m, sigs)
    \/ \E blk \in Blocks : ProcessBlock(blk)
    \/ SaveBalances
    \/ LoadBalances

Spec == Init /\ [][Next]_vars

-----------------------------------------------------------------------------
(* Properties                                                              *)

TypeOK ==
    /\ signatures \subseteq Keys \X Messages
    /\ authorized \subseteq Messages
    /\ verifications \in 0 .. MaxVerifications
    /\ \A a \in DOMAIN balances : balances[a] \in Int
    /\ tracker_calls \in 0 .. MaxBlockCalls

\* "Verifies that the transaction has the required number of valid
\* signatures": a message verify_transaction authorizes was signed by at
\* least required_signatures distinct wallet keys.  The loop counts pairs,
\* not keys, so one participant's signature listed twice passes a
\* 2-of-2 wallet.
AuthorizedByQuorum ==
    \A m \in authorized :
        Cardinality({k \in Participants : <<k, m>> \in signatures}) >= Required
==============================================================================
