----------------------------- MODULE SecureChannel -----------------------------
(***************************************************************************)
(* SecureChannel of src/blockchain/network/protocols/encryption/           *)
(* secure_channel.py over the KeyExchange of key_exchange.py.              *)
(*                                                                         *)
(* A channel is a model value c.  SecureChannel(peer) makes a KeyExchange  *)
(* of its own, so c is also the name of its ECDH private key, and draws    *)
(* os.urandom(16) as its salt, named c as well.  The node keys callers     *)
(* also hold (KeyExchange objects outside any channel) are NodeKeys.       *)
(* ECDH is symmetric and HKDF a function, so generate_shared_secret(pub q) *)
(* of private key p is the set {p, q}.  PBKDF2 with the channel's salt     *)
(* gives the AES key <<shared, salt>>.  AES-CFB with a fresh iv is taken   *)
(* as a perfect cipher: a ciphertext names its key and plaintext, and      *)
(* decrypting with another key gives bytes PKCS7 unpadding or UTF-8        *)
(* decoding refuse (ValueError), short of odds no run can meet.            *)
(***************************************************************************)
EXTENDS Integers, FiniteSets

CONSTANTS
    Channels,     \* SecureChannel objects (and their KeyExchange keys and salts)
    NodeKeys,     \* KeyExchange objects callers hold besides the channels'
    Plaintexts,   \* messages
    MaxMessages   \* bound on encrypt_message calls

VARIABLES created, shared_key, wire, received

vars == <<created, shared_key, wire, received>>

None == {}

\* What a caller can pass as peer_public_key_pem.
PublicKeys == Channels \cup NodeKeys

\* generate_shared_secret: HKDF over the ECDH secret of the two keys.
GenerateSharedSecret(priv, pub) == {priv, pub}

\* _derive_symmetric_key: PBKDF2 over the shared key with the channel's salt.
DeriveSymmetricKey(c) == <<shared_key[c], c>>

Init ==
    /\ created = {}
    /\ shared_key = [c \in Channels |-> None]
    /\ wire = {} /\ received = {}

\* SecureChannel(peer_address): a fresh KeyExchange and salt.
NewChannel(c) ==
    /\ c \notin created
    /\ created' = created \cup {c}
    /\ UNCHANGED <<shared_key, wire, received>>

\* establish_channel(peer_public_key_pem).
EstablishChannel(c, pub) ==
    /\ c \in created
    /\ shared_key' = [shared_key EXCEPT ![c] = GenerateSharedSecret(c, pub)]
    /\ UNCHANGED <<created, wire, received>>

\* encrypt_message: ValueError before establish_channel; else the
\* ciphertext goes on the wire.
EncryptMessage(c, p) ==
    /\ c \in created /\ shared_key[c] /= None
    /\ Cardinality(wire) < MaxMessages
    /\ wire' = wire \cup {[from |-> c, key |-> DeriveSymmetricKey(c), plaintext |-> p]}
    /\ UNCHANGED <<created, shared_key, received>>

\* decrypt_message: ValueError before establish_channel; else the
\* plaintext under the right key, ValueError under another.
DecryptMessage(c, m) ==
    /\ c \in created /\ shared_key[c] /= None
    /\ LET result == IF DeriveSymmetricKey(c) = m.key THEN m.plaintext ELSE "ValueError"
       IN received' = received \cup {[at |-> c, shared |-> shared_key[c], msg |-> m, result |-> result]}
    /\ UNCHANGED <<created, shared_key, wire>>

Next ==
    \/ \E c \in Channels : NewChannel(c)
    \/ \E c \in Channels, pub \in PublicKeys : EstablishChannel(c, pub)
    \/ \E c \in Channels, p \in Plaintexts : EncryptMessage(c, p)
    \/ \E c \in Channels, m \in wire : DecryptMessage(c, m)

Spec == Init /\ [][Next]_vars

-----------------------------------------------------------------------------
(* Properties                                                              *)

TypeOK ==
    /\ created \subseteq Channels
    /\ \A c \in Channels : shared_key[c] = None \/ shared_key[c] \subseteq Channels \cup PublicKeys
    /\ \A r \in received : r.result \in Plaintexts \cup {"ValueError"}

\* "Manages secure communication between two peers": a message one end
\* encrypted under the shared key the two ends agreed on (each established
\* with the other's public key), the other end decrypts to its plaintext.
\* Each end derives its AES key with its own random salt, which is never
\* sent, so the two ends' keys differ and every such decryption raises.
ChannelDelivers ==
    \A r \in received :
        (r.at /= r.msg.from /\ r.shared = {r.at, r.msg.from} /\ r.msg.key[1] = r.shared)
            => r.result = r.msg.plaintext

==============================================================================
