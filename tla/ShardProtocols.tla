---------------------------- MODULE ShardProtocols ----------------------------
(***************************************************************************)
(* ShardProtocols of src/blockchain/sharding/communication/                *)
(* shard_protocols.py: messages created by shards sharing a secret key,    *)
(* handed over by a network that may alter them, and checked by           *)
(* verify_message.                                                         *)
(*                                                                         *)
(* _generate_message_id hashes type, shards, payload and timestamp run     *)
(* together; with shard ids of one form and a JSON payload the fields      *)
(* cannot run into each other, and sha256 is taken as collision free, so   *)
(* the id is the tuple of the fields.  _generate_hmac keys sha256 with the *)
(* secret: an HMAC is the pair of key and id.  _encrypt_payload draws a    *)
(* fresh salt and iv: a ciphertext is the payload with a random nonce from *)
(* Nonces, which decrypt_payload maps back to the payload under the key.   *)
(* The clock is now, in units of the 300-second tolerance's granularity.   *)
(***************************************************************************)
EXTENDS Integers, FiniteSets, TLC

CONSTANTS
    Types, Shards, Payloads,   \* message types, shard ids, payloads
    SecretKey, OtherKeys,      \* the shards' key; keys the network may use
    Nonces,                    \* salt and iv draws of _encrypt_payload
    Tolerance,                 \* the freshness window of verify_message
    MaxTime,                   \* bound on the clock
    MaxMessages                \* bound on the messages created

VARIABLES created, accepted, now

vars == <<created, accepted, now>>

MessageId(t, s, d, p, ts) == <<t, s, d, p, ts>>
Hmac(key, id) == <<key, id>>
Encrypt(key, p, nonce) == [key |-> key, payload |-> p, nonce |-> nonce]

\* The message record create_message returns, built under key.
Build(key, t, s, d, p, ts, nonce) ==
    LET id == MessageId(t, s, d, p, ts)
    IN [type |-> t, source_shard |-> s, destination_shard |-> d, timestamp |-> ts,
        payload_encrypted |-> Encrypt(key, p, nonce),
        message_id |-> id, hmac_signature |-> Hmac(key, id)]

Fields == {"type", "source_shard", "destination_shard", "timestamp",
           "payload_encrypted", "message_id", "hmac_signature"}

Init ==
    /\ created = {}
    /\ accepted = {}
    /\ now = 0

\* create_message: timestamp int(time.time()), the payload encrypted, the
\* id of the fields and the HMAC of the id under the secret key.
CreateMessage(t, s, d, p, nonce) ==
    /\ Cardinality(created) < MaxMessages
    /\ created' = created \cup {Build(SecretKey, t, s, d, p, now, nonce)}
    /\ UNCHANGED <<accepted, now>>

\* What the network hands a receiver: a message created earlier, with one
\* field replaced by the same field of a created message (itself: the
\* message as sent), or a message built under a key other than the secret.
Received ==
    {[m EXCEPT ![f] = m2[f]] : m, m2 \in created, f \in Fields}
    \cup {Build(key, t, s, d, p, ts, nonce) :
           key \in OtherKeys, t \in Types, s, d \in Shards, p \in Payloads,
           ts \in 0 .. now, nonce \in Nonces}

\* verify_message: the HMAC of the message's own message_id under the
\* secret must equal hmac_signature, and |now - timestamp| must not exceed
\* the tolerance; a message that passes is decrypted and acted on.
VerifyMessage(m) ==
    /\ Hmac(SecretKey, m.message_id) = m.hmac_signature
    /\ ~(now - m.timestamp > Tolerance \/ m.timestamp - now > Tolerance)
    /\ accepted' = accepted \cup {m}
    /\ UNCHANGED <<created, now>>

Tick ==
    /\ now < MaxTime
    /\ now' = now + 1
    /\ UNCHANGED <<created, accepted>>

Next ==
    \/ \E t \in Types, s, d \in Shards, p \in Payloads, nonce \in Nonces :
         CreateMessage(t, s, d, p, nonce)
    \/ \E m \in Received : VerifyMessage(m)
    \/ Tick

Spec == Init /\ [][Next]_vars

-----------------------------------------------------------------------------
(* Properties                                                              *)

Id == Types \X Shards \X Shards \X Payloads \X (0 .. MaxTime)
Message == [type : Types, source_shard : Shards, destination_shard : Shards,
            timestamp : 0 .. MaxTime,
            payload_encrypted : [key : {SecretKey} \cup OtherKeys, payload : Payloads, nonce : Nonces],
            message_id : Id, hmac_signature : ({SecretKey} \cup OtherKeys) \X Id]

TypeOK ==
    /\ created \subseteq Message /\ accepted \subseteq Message
    /\ now \in 0 .. MaxTime

\* "Verifies the authenticity and integrity of a received message": every
\* message verify_message accepts is, field for field, one create_message
\* made.  The HMAC covers only the
\* message_id string, which the receiver does not recompute from the
\* fields, so a network that swaps the payload, the route or the timestamp
\* of a genuine message keeps its HMAC valid.
VerifiedMessagesAuthentic ==
    \A m \in accepted : m \in created
==============================================================================
