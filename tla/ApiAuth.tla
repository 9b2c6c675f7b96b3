------------------------------ MODULE ApiAuth ------------------------------
(* Access tokens of the control API: auth/service.py over                   *)
(* auth/repository.py.                                                      *)
(*                                                                          *)
(* A client exchanges its credential for a token.  Issuing authenticates    *)
(* the client on one read and writes the token in a later transaction, so   *)
(* the command line may rotate, disable or revoke the client in between;    *)
(* a request likewise reads its token first and the token's client later.   *)
(* Every transaction is one step, every read outside one a step of its own. *)
(* Credentials, digests, addresses and routes are left out: a call names    *)
(* the client or the token it means.                                        *)
EXTENDS Naturals, FiniteSets

CONSTANTS
    Clients,      \* clients that may be created
    Tokens,       \* token identifiers
    Scopes,       \* API scopes, the unlimited one aside
    Lifetimes,    \* token lifetimes that may be asked for
    MinTTL,       \* shortest lifetime a token may have
    NoLimit,      \* expiration of a client that has none
    MaxTime,      \* bound: moments that are looked at
    MaxGeneration \* bound: rotations of one client

ASSUME AuthAssumption ==
    /\ MinTTL \in Nat \ {0} /\ Lifetimes \subseteq Nat /\ \A l \in Lifetimes : l >= MinTTL
    /\ MaxTime \in Nat \ {0} /\ MaxGeneration \in Nat
    /\ NoLimit \in Nat /\ NoLimit >= MaxTime /\ \A l \in Lifetimes : NoLimit >= MaxTime + l

VARIABLES
    clock,      \* the present moment
    client,     \* auth_clients: a row, or Absent
    token,      \* auth_access_tokens: a row, or Absent
    issuing,    \* the exchange under way: what its authentication read, or Idle
    request,    \* the request under way, or Idle
    lastUsed,   \* last_used_at of each token, 0 when never
    noted       \* _last_used_persisted, 0 when never

authVars == <<clock, client, token, issuing, request, lastUsed, noted>>

Absent == [exists |-> FALSE]
Idle == [step |-> "idle"]

ClientRow == [exists : {TRUE}, enabled : BOOLEAN, revoked : BOOLEAN, generation : Nat,
              expires : Nat, scopes : SUBSET Scopes]
TokenRow == [exists : {TRUE}, client : Clients, generation : Nat, expires : Nat,
             revoked : BOOLEAN, scopes : SUBSET Scopes]

AuthTypeOK ==
    /\ clock \in 1 .. MaxTime
    /\ client \in [Clients -> ClientRow \cup {Absent}]
    /\ token \in [Tokens -> TokenRow \cup {Absent}]
    /\ \/ issuing = Idle
       \/ issuing \in [step : {"authenticated"}, client : Clients, generation : Nat,
                       expires : Nat, scopes : SUBSET Scopes]
    /\ \/ request = Idle
       \/ request \in [step : {"reading", "granted"}, token : Tokens, late : BOOLEAN]
    /\ lastUsed \in [Tokens -> Nat] /\ noted \in [Tokens -> Nat]

AuthInit ==
    /\ clock = 1
    /\ client = [c \in Clients |-> Absent]
    /\ token = [t \in Tokens |-> Absent]
    /\ issuing = Idle
    /\ request = Idle
    /\ lastUsed = [t \in Tokens |-> 0]
    /\ noted = [t \in Tokens |-> 0]

(* The conditions authenticate_client and _valid_token_client share.        *)
Usable(row) == row.exists /\ row.enabled /\ ~row.revoked /\ row.expires > clock

(* _valid_token: the token as its row stands now.                           *)
ValidToken(row) == row.exists /\ ~row.revoked /\ row.expires > clock

(* COALESCE(revoked_at, now) on every token of the client.                  *)
TokensRevoked(c) ==
    [t \in Tokens |-> IF token[t].exists /\ token[t].client = c
                      THEN [token[t] EXCEPT !.revoked = TRUE] ELSE token[t]]

-------------------------------------------------------------------------------
(* The command line: each command is one transaction.                       *)

CreateClient(c) ==
    /\ ~client[c].exists
    /\ \E scopes \in SUBSET Scopes \ {{}}, expires \in (clock + 1 .. MaxTime) \cup {NoLimit} :
           client' = [client EXCEPT ![c] = [exists |-> TRUE, enabled |-> TRUE, revoked |-> FALSE,
                                            generation |-> 1, expires |-> expires, scopes |-> scopes]]
    /\ UNCHANGED <<clock, token, issuing, request, lastUsed, noted>>

RotateClient(c) ==
    /\ client[c].exists /\ ~client[c].revoked
    /\ client[c].generation < MaxGeneration
    /\ client' = [client EXCEPT ![c].generation = @ + 1]
    /\ token' = TokensRevoked(c)
    /\ UNCHANGED <<clock, issuing, request, lastUsed, noted>>

DisableClient(c) ==
    /\ client[c].exists /\ ~client[c].revoked
    /\ client' = [client EXCEPT ![c].enabled = FALSE]
    /\ token' = TokensRevoked(c)
    /\ UNCHANGED <<clock, issuing, request, lastUsed, noted>>

(* Enabling a client does not give it its tokens back.                      *)
EnableClient(c) ==
    /\ client[c].exists /\ ~client[c].revoked
    /\ client' = [client EXCEPT ![c].enabled = TRUE]
    /\ UNCHANGED <<clock, token, issuing, request, lastUsed, noted>>

RevokeClient(c) ==
    /\ client[c].exists /\ ~client[c].revoked
    /\ client' = [client EXCEPT ![c].enabled = FALSE, ![c].revoked = TRUE]
    /\ token' = TokensRevoked(c)
    /\ UNCHANGED <<clock, issuing, request, lastUsed, noted>>

-------------------------------------------------------------------------------
(* The exchange.                                                            *)

(* Mutated form: the token lives as long as was asked for.                  *)
ExpirationUncapped(row, ttl) == clock + ttl

(* _token_expiration: a token never outlasts its client, and a client that  *)
(* expires too soon gets none.                                              *)
Expiration(row, ttl) == IF row.expires >= clock + ttl THEN clock + ttl ELSE row.expires

(* issue_token up to the repository: the credential is checked, the scopes  *)
(* and the lifetime are settled on the row that was read.                   *)
Authenticate(c) ==
    /\ issuing = Idle
    /\ Usable(client[c])
    /\ \E scopes \in SUBSET client[c].scopes, ttl \in Lifetimes :
           /\ scopes # {}
           /\ client[c].expires >= clock + ttl \/ client[c].expires - clock >= MinTTL
           /\ issuing' = [step |-> "authenticated", client |-> c,
                          generation |-> client[c].generation,
                          expires |-> Expiration(client[c], ttl), scopes |-> scopes]
    /\ UNCHANGED <<clock, client, token, request, lastUsed, noted>>

(* Mutated form: only the generation is compared.                           *)
UnchangedGeneration(row, read) == row.generation = read.generation

(* The recheck inside the transaction of AuthenticationRepository.issue_token. *)
Unchanged(row, read) == row.generation = read.generation /\ row.enabled /\ ~row.revoked

(* The transaction that writes the token, or refuses because the client     *)
(* changed after it was read.                                               *)
IssueToken(t) ==
    /\ issuing # Idle
    /\ ~token[t].exists
    /\ token' = IF Unchanged(client[issuing.client], issuing)
                THEN [token EXCEPT ![t] = [exists |-> TRUE, client |-> issuing.client,
                                           generation |-> issuing.generation,
                                           expires |-> issuing.expires, revoked |-> FALSE,
                                           scopes |-> issuing.scopes]]
                ELSE token
    /\ issuing' = Idle
    /\ UNCHANGED <<clock, client, request, lastUsed, noted>>

(* revoke_token: a client ends a token of its own; the token of another     *)
(* client is left as it is.                                                 *)
RevokeToken(c, t) ==
    /\ Usable(client[c])
    /\ token[t].exists /\ token[t].client = c /\ ~token[t].revoked
    /\ token' = [token EXCEPT ![t].revoked = TRUE]
    /\ UNCHANGED <<clock, client, issuing, request, lastUsed, noted>>

-------------------------------------------------------------------------------
(* A request.                                                               *)

(* authorize_access reads the token.  late remembers, for the properties,   *)
(* whether the client of the token was already out of use by then.          *)
ReadToken(t) ==
    /\ request.step # "reading"
    /\ request' = IF ValidToken(token[t])
                  THEN [step |-> "reading", token |-> t, late |-> ~Usable(client[token[t].client])]
                  ELSE Idle
    /\ UNCHANGED <<clock, client, token, issuing, lastUsed, noted>>

(* Then it reads the client, and records the use unless it did so lately;   *)
(* a record that cannot be written does not refuse the request.             *)
ReadClient ==
    /\ request.step = "reading"
    /\ LET t == request.token
           row == client[token[t].client]
       IN  IF Usable(row) /\ token[t].generation = row.generation
           THEN /\ request' = [request EXCEPT !.step = "granted"]
                /\ \/ /\ noted[t] # clock
                      /\ noted' = [noted EXCEPT ![t] = clock]
                      /\ lastUsed' = [lastUsed EXCEPT ![t] = clock]
                   \/ UNCHANGED <<lastUsed, noted>>
           ELSE request' = Idle /\ UNCHANGED <<lastUsed, noted>>
    /\ UNCHANGED <<clock, client, token, issuing>>

-------------------------------------------------------------------------------
(* Time passes; a restart of the service forgets what was under way.        *)

ClockTick ==
    /\ clock < MaxTime
    /\ clock' = clock + 1
    /\ UNCHANGED <<client, token, issuing, request, lastUsed, noted>>

AuthRestart ==
    /\ issuing' = Idle /\ request' = Idle
    /\ noted' = [t \in Tokens |-> 0]
    /\ UNCHANGED <<clock, client, token, lastUsed>>

AuthNext ==
    \/ \E c \in Clients : \/ CreateClient(c) \/ RotateClient(c) \/ DisableClient(c)
                          \/ EnableClient(c) \/ RevokeClient(c) \/ Authenticate(c)
    \/ \E t \in Tokens : IssueToken(t) \/ ReadToken(t)
    \/ \E c \in Clients, t \in Tokens : RevokeToken(c, t)
    \/ ReadClient
    \/ ClockTick
    \/ AuthRestart

AuthSpec == AuthInit /\ [][AuthNext]_authVars

-------------------------------------------------------------------------------
(* A token that is not revoked stands on its client as it is: same          *)
(* generation, enabled, not revoked, not to be outlived, and with every     *)
(* scope of the token.  However an exchange interleaves with the commands,  *)
(* none of them leaves a token behind.                                      *)
TokenIsBacked ==
    \A t \in Tokens : token[t].exists /\ ~token[t].revoked =>
        LET row == client[token[t].client]
        IN  /\ row.exists /\ row.enabled /\ ~row.revoked
            /\ token[t].generation = row.generation
            /\ token[t].expires <= row.expires
            /\ token[t].scopes \subseteq row.scopes

(* A request is granted only if its token was valid, and the client of the  *)
(* token in use, at one and the same moment: reading them one after the     *)
(* other never joins a token to a client that was restored in between.      *)
GrantedInTime == request.step = "granted" => ~request.late

TokensFollowClients == TokenIsBacked /\ GrantedInTime
============================================================================
