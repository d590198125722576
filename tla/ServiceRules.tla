---------------------------- MODULE ServiceRules ----------------------------
(***************************************************************************)
(* How the Rust service starts, whom its cron and webhook routes admit,    *)
(* which failures it reports and what it may log of its connection string  *)
(* and of a request's headers.                                             *)
(***************************************************************************)
EXTENDS Integers, FiniteSetsExt, SequencesExt

CONSTANTS
  Secret,               \* strings a CRON_SECRET may be, other than the empty one
  Unset                 \* the value of an environment variable nobody set

-----------------------------------------------------------------------------
(* Config::from_env, create_pool, and what main does with them.            *)

Required == {"DATABASE_URL", "ASSET_ISSUER", "PLATFORM_TREASURY_PUBLIC_KEY"}
SslModes == {"disable", "allow", "prefer", "require", "verify-ca", "verify-full"}

\* env::var(..).ok().and_then(parse).unwrap_or(default), for an unsigned setting:
\* what does not parse, a negative number too, gives way to the default.
UnsignedSetting(value, default) == IF value \in Nat THEN value ELSE default

\* unwrap_or_default: a secret nobody set is the empty string.
SecretSetting(value) == IF value = Unset THEN "" ELSE value

ValidSslMode(mode) == mode = Unset \/ mode \in SslModes

\* The settings that are text, as read from the environment: those that hold a
\* credential, and one that stands for all that do not.
TextSettings(env) ==
  [database_url |-> "credential", session_secret |-> env.sessionSecret,
   platform_treasury_secret_key |-> "credential",
   cron_secret |-> SecretSetting(env.cronSecret), asset_issuer |-> "issuer"]

\* The fields of Config that are wrapped in Redacted.
Wrapped ==
  {"database_url", "session_secret", "platform_treasury_secret_key", "cron_secret"}

\* What {:?} prints of a Config: Redacted hides what it wraps.
DebugText(text) ==
  {IF f \in Wrapped THEN "[REDACTED]" ELSE text[f] : f \in DOMAIN text}

\* env: which of the Required variables are missing, whether HOST:PORT and
\* DATABASE_URL parse, and the values of the variables told apart here.
FromEnv(env) ==
  [ipWindow  |-> UnsignedSetting(env.ipWindow, 600),
   ipMax     |-> UnsignedSetting(env.ipMax, 80),
   failMax   |-> UnsignedSetting(env.failMax, 12),
   text      |-> TextSettings(env)]

\* LoginRateLimiterSettings::from: a window lasts a second at least.
LimiterSettings(config) ==
  [window |-> Max({1, config.ipWindow}), ipMax |-> config.ipMax,
   failMax |-> config.failMax]

\* env::var(..)?: a variable must be there; a session secret may be the empty string.
Starts(env) ==
  /\ env.missing = {} /\ env.sessionSecret # Unset /\ env.addressParses
  /\ ValidSslMode(env.pgssl) /\ env.urlParses

-----------------------------------------------------------------------------
(* authorize_cron_request and the authorized() of the Next.js cron routes. *)

NoHeader == [scheme |-> "none", token |-> ""]

\* A bug this could have: an empty secret not refused.
AuthorizeCron_EmptySecret(secret, header) ==
  header.scheme = "Bearer " /\ header.token = secret

AuthorizeCron(secret, header) ==
  /\ secret # ""
  /\ header.scheme = "Bearer " /\ header.token = secret

\* auth?.replace('Bearer ', ''): the scheme may be missing.
NextAuthorized(secret, header) ==
  /\ header.scheme \in {"Bearer ", "bare"}
  /\ header.token # "" /\ header.token = secret

-----------------------------------------------------------------------------
(* AppError: every way one is made, its code and status, its class.        *)

Made(code, status) == [code |-> code, status |-> status]

\* By a From impl: of the pool's and the database's errors, an id, a session token.
Converted ==
  {Made("DatabaseError", 500), Made("InvalidUuid", 400), Made("SessionExpired", 401)}

AppErrors ==
  Converted \cup
  {Made("InvalidPayload", 400), Made("SessionRequired", 401),
   Made("InvalidCredentials", 401), Made("CronSecretMismatch", 401),
   Made("RateLimited", 401), Made("RateLimited", 429),
   Made("InvoiceNotFound", 404), Made("DuplicateEmail", 409),
   Made("Internal", 500), Made("NotImplemented", 501),
   Made("HorizonUnavailable", 502)}

\* A bug this could have: a new code left to the wildcard arm.
Classify_Wildcard(code) ==
  CASE code \in {"Internal", "NetworkError", "NotImplemented"} -> "System"
    [] code = "HorizonUnavailable" -> "Upstream"
    [] OTHER -> "User"

Classify(code) ==
  CASE code \in {"Internal", "DatabaseError", "NetworkError", "NotImplemented"} ->
         "System"
    [] code = "HorizonUnavailable" -> "Upstream"
    [] OTHER -> "User"

\* into_response: what the client is told, and whether Sentry hears of it.
IntoResponse(error) ==
  [status |-> error.status, captured |-> Classify(error.code) # "User"]

-----------------------------------------------------------------------------
(* redact_connection_string, on a string cut into tokens: "@", "/", parts  *)
(* of the credentials and parts of the host and database name.             *)

Places(s, token) == {k \in DOMAIN s : s[k] = token}

UserinfoEnd(hostPart) ==
  IF Places(hostPart, "@") = {} THEN 0 ELSE Max(Places(hostPart, "@"))

RedactConnectionString(dsn) ==
  IF ~dsn.scheme THEN <<"[REDACTED]">>
  ELSE LET rest == dsn.rest
           hostPart == IF Places(rest, "/") = {} THEN rest
                       ELSE SubSeq(rest, 1, Min(Places(rest, "/")) - 1)
           at == UserinfoEnd(hostPart)
       IN IF at = 0 THEN rest
          ELSE <<"[REDACTED]", "@">> \o SubSeq(rest, at + 1, Len(rest))

(* redact_cookie_header, on pairs cut into tokens.                         *)

\* split_once('='): a value may contain more of them.
NameOf(pair) == SubSeq(pair, 1, Min(Places(pair, "=")) - 1)

RedactCookie(pair) ==
  IF Places(pair, "=") = {} THEN <<"[REDACTED]">>
  ELSE NameOf(pair) \o <<"=", "[REDACTED]">>

\* Pair by pair; that they are split at ";" and joined again is left out.
RedactCookieHeader(pairs) == [k \in DOMAIN pairs |-> RedactCookie(pairs[k])]

\* redact_authorization_header
RedactAuthorizationHeader(header) ==
  IF header.scheme = "Bearer " THEN <<"Bearer ", "[REDACTED]">> ELSE <<"[REDACTED]">>
=============================================================================
