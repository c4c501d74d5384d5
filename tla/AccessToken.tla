------------------------------ MODULE AccessToken ------------------------------
(***************************************************************************)
(* AccessToken of src/cryptocurrency/coin_features/utility_tokens/         *)
(* access_token.py: tokens for dApp access, issued per user and checked    *)
(* against an expiry.                                                      *)
(*                                                                         *)
(* generate_token hashes f"{user_id}{timestamp}" with SHA-256.  SHA-256 is *)
(* taken as collision-free, so a token stands for the string it hashes:    *)
(* the user id's characters followed by the decimal digits of the         *)
(* timestamp.  A user id is a sequence of characters.  now is time.time()  *)
(* in whole seconds, from StartTime on: int(time.time()) has ten digits    *)
(* until the year 2286, so every timestamp a run hashes has the same       *)
(* number of digits.  int(time.time()) is now, and validate_token's        *)
(* time.time() > expiry holds for now > expiry and, inside the second that *)
(* ends at expiry, may hold or not.  issued records what generate_token    *)
(* returned to whom: <<token, user>>.                                      *)
(***************************************************************************)
EXTENDS Integers, Sequences, TLC

CONSTANTS
    Users,               \* user ids, as sequences of characters
    TokenExpirySeconds,  \* token_expiry_seconds
    StartTime,           \* the second the process starts in
    MaxTime              \* bound on the clock

VARIABLES tokens, now, issued

vars == <<tokens, now, issued>>

DigitChar(d) == <<"0", "1", "2", "3", "4", "5", "6", "7", "8", "9">>[d + 1]

\* str(n) for a natural number n.
RECURSIVE Decimal(_)
Decimal(n) == IF n < 10 THEN <<DigitChar(n)>> ELSE Decimal(n \div 10) \o <<DigitChar(n % 10)>>

\* sha256(f"{user_id}{timestamp}").hexdigest()
Token(u, t) == u \o Decimal(t)

Init == tokens = <<>> /\ now = StartTime /\ issued = {}

\* generate_token: the entry under the token is (re)written.
GenerateToken(u) ==
    LET tok == Token(u, now)
    IN /\ tokens' = (tok :> [user |-> u, expiry |-> now + TokenExpirySeconds]) @@ tokens
       /\ issued' = issued \cup {<<tok, u>>}
       /\ UNCHANGED now

\* revoke_token by a caller holding tok: the entry is deleted if present.
RevokeToken(tok) ==
    /\ tokens' = [t \in DOMAIN tokens \ {tok} |-> tokens[t]]
    /\ UNCHANGED <<now, issued>>

Tick == now < MaxTime /\ now' = now + 1 /\ UNCHANGED <<tokens, issued>>

\* validate_token: the answers time.time() can give in the current second.
ValidateToken(tok) ==
    IF tok \notin DOMAIN tokens THEN {FALSE}
    ELSE IF now < tokens[tok].expiry THEN {TRUE}
    ELSE IF now = tokens[tok].expiry THEN {TRUE, FALSE}
    ELSE {FALSE}

\* Python's None, as the empty id: every user id has a character.
None == <<>>

\* get_user_from_token: the user of a valid token, None otherwise.
GetUserFromToken(tok) ==
    {IF v THEN tokens[tok].user ELSE None : v \in ValidateToken(tok)}

Next ==
    \/ \E u \in Users : GenerateToken(u)
    \/ \E p \in issued : RevokeToken(p[1])
    \/ Tick

Spec == Init /\ [][Next]_vars

-----------------------------------------------------------------------------
(* Properties                                                              *)

TypeOK ==
    /\ \A t \in DOMAIN tokens : tokens[t].user \in Users
    /\ now \in StartTime .. MaxTime
    /\ \A p \in issued : p[2] \in Users

==============================================================================
