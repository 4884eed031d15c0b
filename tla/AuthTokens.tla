----------------------------- MODULE AuthTokens -----------------------------
(***************************************************************************)
(* AuthService: POST /internal/create issues a token for a guest           *)
(* (internal/handlers/create_token.go, internal/jwt/generator.go),         *)
(* POST /internal/validate judges one (internal/handlers/                  *)
(* validate_token.go, internal/jwt/validator.go).                          *)
(*                                                                         *)
(* The service keeps nothing but the secret it was started with; what      *)
(* connects a create and a later validate is the token in the client's     *)
(* hand, the clock, and the secret, which may differ after a restart.      *)
(* Handlers share no memory that changes, so each is one step, at the      *)
(* moment it reads the clock.                                              *)
(***************************************************************************)
EXTENDS Integers, FiniteSets

CONSTANTS
    Users,       \* user ids that are version-4 UUIDs
    Names,       \* usernames a request may carry: their length and characters
    Secrets,     \* values of JWT_SECRET; one not configured is the empty text
    Keys,        \* what tokens around are signed with, secrets among them
    ForeignTokens,  \* tokens that others made and present
    Lifetime,    \* 24 * time.Hour, in ticks of the clock below
    MaxTime,     \* bound on the clock
    MaxTokens,   \* bound on the tokens issued
    None

ASSUME LifetimeAssumption == Lifetime \in Nat /\ MaxTime \in Nat
ASSUME IdentityAssumption == None \notin Users \cup Names
ASSUME SecretsAssumption == Secrets \subseteq Keys
ASSUME LengthAssumption == \A x \in Names \cup Keys : x.length \in Nat

\* Time is counted in half seconds: time.Now is finer than the seconds in
\* which jwtlib.NewNumericDate and the token's text express a date.
Ticks == 2

VARIABLES
    now,         \* the clock
    secret,      \* the secret of the running process
    issued,      \* the tokens answered to clients, each with its moment
    answer       \* the latest response

tokenVars == <<now, secret, issued, answer>>

Issuer == "knuffel-auth-service"

minSecretLen == 32

\* The sentinel errors of validator.go, as mapValidationError spells them.
Reasons == {"invalid format", "invalid signature", "token expired",
            "invalid issuer", "missing claims"}

-----------------------------------------------------------------------------
(* Requests.                                                               *)

\* Mutant: names of two characters are accepted, the empty one is not.
ShorterUsername(n) ==
    n.length > 0 /\ n.length <= 20 /\ n.characters # "other"

\* required,min=3,max=20,usernameFmt: the expression ^[A-Za-z0-9 ]+$
ValidUsername(n) ==
    n.length >= 3 /\ n.length <= 20 /\ n.characters # "other"

\* A body that decodes; user_id is None when it is no version-4 UUID.
CreateRequests == [user_id : Users \cup {None}, username : Names]

ValidCreate(r) == r.user_id # None /\ ValidUsername(r.username)

-----------------------------------------------------------------------------
(* Tokens.                                                                 *)

\* What decodes as a token: header and claims.  One without exp is accepted like
\* one that expires later than anyone looks.
JWTs == [form : {"jwt"}, alg : {"HS256", "other"}, key : Keys,
         sub : Users \cup {None}, name : Names \cup {None}, exp : Int,
         iss : {Issuer, "other-issuer"}]

\* What does not: three base64url segments (jwtStructRegex) or other text.
NotJWTs == [form : {"segments", "text"}]

Tokens == JWTs \cup NotJWTs

\* NewNumericDate keeps whole seconds.
NumericDate(t) == t - (t % Ticks)

\* Mutant: the expiry is counted from the end of the second.
RoundedUp(at) == NumericDate(at) + Lifetime + Ticks

ExpiresAt(at) == NumericDate(at + Lifetime)

\* CreateToken, given a secret that passes its checks.
SignedToken(user, name, at) ==
    [form |-> "jwt", alg |-> "HS256", key |-> secret, sub |-> user,
     name |-> name, exp |-> ExpiresAt(at), iss |-> Issuer]

Strong(key) == key.length >= minSecretLen

\* What the validator wants of the header and the claims, the expiry apart.
WellFormed(t) ==
    /\ t.form = "jwt" /\ t.alg = "HS256"
    /\ t.iss = Issuer /\ t.sub # None /\ t.name # None

\* A secret of accepted length is known to the service alone: what is signed with
\* it and was not made by CreateToken lacks something, as the tests' tokens do.
\* With any other key, a secret too short or empty included, anyone may sign.
ASSUME ForeignAssumption ==
    /\ ForeignTokens \subseteq Tokens
    /\ \A t \in ForeignTokens :
          WellFormed(t) => ~(t.key \in Secrets /\ Strong(t.key))

\* Mutant: a token is still accepted at the moment it expires.
ExpiredLate(t, at) == at > t.exp

\* jwtlib: !now.Before(exp)
Expired(t, at) == at >= t.exp

\* ValidateTokenRequest.Validate and ValidateToken.  The signature is verified
\* before the claims are looked at; another algorithm makes the token
\* unverifiable, which ValidateToken reports as a bad signature.  The length of
\* the secret is not looked at: NewValidator warns of it and keeps it.
Judge(t, at) ==
    IF t.form # "jwt" THEN "invalid format"
    ELSE IF t.alg # "HS256" \/ t.key # secret THEN "invalid signature"
    ELSE IF Expired(t, at) THEN "token expired"
    ELSE IF t.iss # Issuer THEN "invalid issuer"
    ELSE IF t.sub = None \/ t.name = None THEN "missing claims"
    ELSE "none"

RefusalStatus(reason) == IF reason = "invalid format" THEN 400 ELSE 401

-----------------------------------------------------------------------------
(* The endpoints.                                                          *)

NoAnswer == [op |-> "none", status |-> 0, reason |-> "none", token |-> None,
             sub |-> None, name |-> None, under |-> None]

TokensInit ==
    /\ now = 0
    /\ secret \in Secrets
    /\ issued = {}
    /\ answer = NoAnswer

\* A body that does not decode, or has unknown fields: 400 on both endpoints.
Undecodable ==
    /\ answer' = [NoAnswer EXCEPT !.op = "decode", !.status = 400]
    /\ UNCHANGED <<now, secret, issued>>

\* Mutant: the length of the secret is not checked.
NonEmptySecret == secret.length > 0

StrongSecret == Strong(secret)

CreateToken(r) ==
    /\ ValidCreate(r)
    /\ StrongSecret
    /\ Cardinality(issued) < MaxTokens
    /\ LET token == SignedToken(r.user_id, r.username, now) IN
         /\ issued' = issued \cup {[token |-> token, at |-> now]}
         /\ answer' = [NoAnswer EXCEPT !.op = "create", !.status = 200,
                          !.token = token, !.sub = r.user_id,
                          !.name = r.username, !.under = secret]
    /\ UNCHANGED <<now, secret>>

\* 400 when Validate finds errors, 500 for ErrSecretMissing and ErrSecretWeak.
RefuseCreate(r) ==
    /\ ~ValidCreate(r) \/ ~StrongSecret
    /\ answer' = [NoAnswer EXCEPT !.op = "create", !.under = secret,
                     !.status = IF ValidCreate(r) THEN 500 ELSE 400]
    /\ UNCHANGED <<now, secret, issued>>

ValidateToken(t) ==
    LET reason == Judge(t, now) IN
    /\ answer' =
         IF reason = "none"
           THEN [op |-> "validate", status |-> 200, reason |-> "none",
                 token |-> t, sub |-> t.sub, name |-> t.name, under |-> secret]
           ELSE [op |-> "validate", status |-> RefusalStatus(reason),
                 reason |-> reason, token |-> t, sub |-> None, name |-> None,
                 under |-> secret]
    /\ UNCHANGED <<now, secret, issued>>

Tick ==
    /\ now < MaxTime
    /\ now' = now + 1
    /\ answer' = NoAnswer
    /\ UNCHANGED <<secret, issued>>

\* The process ends and is started again with what JWT_SECRET is by then: main
\* hands the same value to NewGenerator and NewValidator, whose fallback for an
\* empty one is the same variable.
Restart ==
    /\ secret' \in Secrets
    /\ answer' = NoAnswer
    /\ UNCHANGED <<now, issued>>

TokensNext ==
    \/ Undecodable
    \/ \E r \in CreateRequests : CreateToken(r) \/ RefuseCreate(r)
    \/ \E t \in {i.token : i \in issued} : ValidateToken(t)
    \/ \E t \in ForeignTokens : ValidateToken(t)
    \/ Tick
    \/ Restart

TokensSpec == TokensInit /\ [][TokensNext]_tokenVars

-----------------------------------------------------------------------------
(* Properties.                                                             *)

Answers == [op : {"none", "decode", "create", "validate"},
            status : {0, 200, 400, 401, 500}, reason : Reasons \cup {"none"},
            token : Tokens \cup {None}, sub : Users \cup {None},
            name : Names \cup {None}, under : Secrets \cup {None}]

\* Every token made here carries an identity that the validator does not miss,
\* a name that fits users.username VARCHAR(20) of LobbyService, and a strong key.
ServiceTokens ==
    {t \in JWTs : /\ t.alg = "HS256" /\ t.iss = Issuer
                  /\ t.key \in Secrets /\ Strong(t.key)
                  /\ t.sub \in Users
                  /\ t.name \in Names /\ t.name.length \in 3..20}

TokensTypeOK ==
    /\ now \in 0..MaxTime
    /\ secret \in Secrets
    /\ \A i \in issued : i.token \in ServiceTokens /\ i.at \in 0..MaxTime
    /\ answer \in Answers

\* Under a secret of accepted length, who is told `valid' presented a token of
\* this service, issued to that very identity under the secret now in use, less
\* than 24 hours ago: whatever other tokens are around, and whatever restarts lie
\* in between, also under secrets too short (generator.go, validator.go).
ValidOnlyIfFresh ==
    answer.op = "validate" /\ answer.status = 200 /\ Strong(answer.under) =>
        \E i \in issued :
            /\ i.token = answer.token
            /\ i.token.sub = answer.sub
            /\ i.token.name = answer.name
            /\ i.token.key = answer.under
            /\ i.at <= now
            /\ now - i.at < Lifetime

\* A token of this service is judged by its age and key alone.  It is accepted
\* for 24 hours less the fraction of a second that NumericDate cuts off, refused
\* as expired from 24 hours on, and under another secret it is a bad signature
\* even when it has expired too: never a matter of format, issuer or claims.
IssuedTokensJudgedByAge ==
    \A i \in issued :
        answer.op = "validate" /\ answer.token = i.token =>
            CASE i.token.key # answer.under -> answer.reason = "invalid signature"
              [] i.token.key = answer.under /\ now - i.at <= Lifetime - Ticks ->
                   answer.reason = "none"
              [] i.token.key = answer.under /\ now - i.at >= Lifetime ->
                   answer.reason = "token expired"
              [] OTHER -> answer.reason \in {"none", "token expired"}

\* AuthService/README.md on JWT_SECRET: "if missing or <32 chars, service logs
\* warnings and token operations fail".  The validator's does not.
WeakSecretsFail ==
    answer.op \in {"create", "validate"} /\ answer.status = 200 => Strong(answer.under)

=============================================================================
