-------------------------------- MODULE Auth --------------------------------
(***************************************************************************)
(* components/utilities/auth: whether the bearer of a token may call an    *)
(* action or list an MCP server.  The configuration the checks read is the *)
(* "auth" part of the runtime's config store:                              *)
(*   profiles  per auth profile its secret, or Unlisted                    *)
(*   actions, mcps  per resource the profile it demands, Public, Unlisted  *)
(* each of which may be missing or unreadable as a whole.                  *)
(***************************************************************************)
EXTENDS Integers

CONSTANTS
    Profiles,   \* ids of auth profiles
    Secrets,    \* secrets as they stand in the configuration
    Encoded,    \* the secrets that are base64, meant so or not
    Leeway,     \* clock skew that is forgiven
    Unlisted,   \* not in the configuration
    Public      \* listed without an auth profile

ASSUME AuthAssumption ==
    /\ Encoded \subseteq Secrets
    /\ Leeway \in Nat
    /\ Unlisted \notin Profiles \union Secrets
    /\ Public \notin Profiles \union {Unlisted}

\* A part of the configuration: what it says, if it can be read at all.
Present(config) == [readable |-> TRUE, of |-> config]

Accesses == Profiles \union {Public, Unlisted}

(***************************************************************************)
(* The authorization header.  well_formed: it is "Bearer " and a token     *)
(* whose payload decodes and names an auth_profile_id.  aud: it has one.    *)
(***************************************************************************)
\* A secret that decodes as base64 is decoded, meant so or not.
Key(secret) == [text |-> secret, decoded |-> secret \in Encoded]

Credentials ==
    [well_formed : BOOLEAN, profile : Profiles, key : [text : Secrets, decoded : BOOLEAN],
     alg : STRING, aud : BOOLEAN, exp : Int, nbf : Int]

\* A token that names an audience is refused: none is configured, and the
\* library then lets no audience pass.
ValidateJwt(token, secret, now) ==
    /\ token.alg = "HS256" /\ ~token.aud
    /\ token.key = Key(secret)
    /\ token.exp + Leeway >= now
    /\ token.nbf <= now + Leeway

(***************************************************************************)
(* allowed_to_call and allowed_to_list read the configuration twice: first *)
(* what the resource demands, then, of a private one and for a token that  *)
(* is well formed, the profiles.  Another configuration may be in force by *)
(* then.                                                                   *)
(***************************************************************************)
Demanded(resources, id) == IF resources.readable THEN resources.of[id] ELSE Unlisted

NeedsProfile(demanded, token) == demanded \in Profiles /\ token.well_formed

FetchValidatedProfile(token, profiles, now) ==
    /\ profiles.readable
    /\ profiles.of[token.profile] # Unlisted
    /\ ValidateJwt(token, profiles.of[token.profile], now)

\* Mutant: a token of any profile will do.
AnyProfileAuthorized(token, demanded, profiles, now) == FetchValidatedProfile(token, profiles, now)

CheckProfileAuthorization(token, demanded, profiles, now) ==
    FetchValidatedProfile(token, profiles, now) /\ token.profile = demanded
=============================================================================
