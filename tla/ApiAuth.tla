------------------------------- MODULE ApiAuth -------------------------------
(***************************************************************************)
(* The API authentication of src/api/api_common/auth.py: the HMAC tokens   *)
(* of generate_auth_token, their check by validate_auth_token, and the    *)
(* require_auth decorator with its role check, behind the /generate-token  *)
(* endpoint of the file's Flask app.                                       *)
(*                                                                         *)
(* The token string f"{hmac}:{timestamp}" is a record: parts is the number *)
(* of fields token.split(":") gives, numeric whether int() accepts the     *)
(* second, hash the HMAC and ts the timestamp.  HMAC-SHA256 is injective   *)
(* in the secret and the message f"{api_key}:{timestamp}".  time.time() is *)
(* a real in [now, now + 1), so a check against it is a set of answers.    *)
(* held is what clients hold: the tokens /generate-token handed out, with  *)
(* the api key and the second they were made for.                          *)
(***************************************************************************)
EXTENDS Integers

CONSTANTS
    ApiKeys,          \* the keys of API_KEYS
    Role,             \* API_KEYS[k]["role"]
    Secret,           \* API_KEYS[k]["secret"]
    TokenExpiration,  \* TOKEN_EXPIRATION
    Headers,          \* X-API-KEY header values a client sends (ApiKeys, others, none)
    NoHeader,         \* a missing header
    NoRole,           \* require_auth() without a role
    MaxTime           \* bound on the clock

VARIABLES now, held

vars == <<now, held>>

Hmac(secret, key, ts) == [secret |-> secret, key |-> key, ts |-> ts]

Token(h, ts) == [parts |-> 2, numeric |-> TRUE, hash |-> h, ts |-> ts]

\* Authorization headers that are no token of the format: missing, without
\* a ':' and with a timestamp int() refuses.
NoHash     == Hmac("", "", -1)
NoToken    == [parts |-> 0, numeric |-> FALSE, hash |-> NoHash, ts |-> 0]
Malformed  == [parts |-> 1, numeric |-> FALSE, hash |-> NoHash, ts |-> 0]
NonNumeric == [parts |-> 2, numeric |-> FALSE, hash |-> NoHash, ts |-> 0]

\* generate_auth_token(api_key, secret) at second now.
GenerateAuthToken(k, s) == Token(Hmac(s, k, now), now)

\* time.time() - timestamp > TOKEN_EXPIRATION, for time.time() in [now, now + 1).
Expired(ts) ==
    IF now - ts > TokenExpiration THEN {TRUE}
    ELSE IF now - ts = TokenExpiration THEN {TRUE, FALSE}
    ELSE {FALSE}

\* Mutant of validate_auth_token: the expiry check left out.
ValidateAuthTokenNoExpiry(k, tok) ==
    IF tok.parts /= 2 \/ ~tok.numeric THEN {FALSE}
    ELSE {(k \in ApiKeys) /\ tok.hash = Hmac(Secret[k], k, tok.ts)}

\* validate_auth_token: the format, the expiry, the api key, the HMAC.
ValidateAuthToken(k, tok) ==
    IF tok.parts /= 2 \/ ~tok.numeric THEN {FALSE}
    ELSE {~e /\ k \in ApiKeys /\ tok.hash = Hmac(Secret[k], k, tok.ts) : e \in Expired(tok.ts)}

\* require_auth(role)'s wrapper: the statuses it may answer (200 runs the
\* endpoint).
RequireAuth(k, tok, role) ==
    IF k = NoHeader \/ tok = NoToken THEN {401}
    ELSE {IF ~v THEN 401
          ELSE IF role /= NoRole /\ Role[k] \notin {"superadmin", role} THEN 403
          ELSE 200 : v \in ValidateAuthToken(k, tok)}

Init == now = 0 /\ held = {}

\* POST /generate-token with {"api_key": k}: a known key gets a token made
\* with its secret; any other answers 400 and changes nothing.
GenerateTokenEndpoint(k) ==
    /\ k \in ApiKeys
    /\ held' = held \cup {[key |-> k, at |-> now, token |-> GenerateAuthToken(k, Secret[k])]}
    /\ UNCHANGED now

Tick == now < MaxTime /\ now' = now + 1 /\ UNCHANGED held

Next ==
    \/ \E k \in Headers : GenerateTokenEndpoint(k)
    \/ Tick

Spec == Init /\ [][Next]_vars

-----------------------------------------------------------------------------
(* Properties                                                              *)

\* The Authorization headers a client can send: a token it holds, the same
\* with another timestamp written after the ':', and the malformed ones.
Presented ==
    {h.token : h \in held}
    \cup {[h.token EXCEPT !.ts = t] : h \in held, t \in 0 .. MaxTime}
    \cup {NoToken, Malformed, NonNumeric}

TypeOK ==
    /\ now \in 0 .. MaxTime
    /\ \A h \in held : h.key \in ApiKeys /\ h.at \in 0 .. now

\* require_auth lets a request through only with a token /generate-token
\* made for the api key it is sent with, at most TOKEN_EXPIRATION seconds
\* ago, and a key whose role is superadmin or the endpoint's role: the
\* HMAC binds key and timestamp, so no token of another key, and no token
\* with a rewritten timestamp, passes, at any second and for any request.
GrantsAuthorized ==
    \A k \in Headers, tok \in Presented, r \in {NoRole} \cup {Role[x] : x \in ApiKeys} :
        200 \in RequireAuth(k, tok, r) =>
            \E h \in held :
                /\ h.key = k /\ h.token = tok
                /\ now - h.at <= TokenExpiration
                /\ r = NoRole \/ Role[k] \in {"superadmin", r}
==============================================================================
