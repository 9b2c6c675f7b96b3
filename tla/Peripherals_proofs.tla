-------------------------- MODULE Peripherals_proofs --------------------------
(***************************************************************************)
(* Proofs about the eight peripheral parts, each for any values of its     *)
(* constants, and that their composition is each of them.                  *)
(*                                                                         *)
(* Tokens. The expiration and the scopes of a client never change, so what *)
(* an exchange read of them stays true (ReadIsTrue). Whatever else the     *)
(* command line changes, it revokes the client's tokens in the same        *)
(* transaction, or the exchange under way sees it in the recheck. So a     *)
(* live token stands on a client as it is (TokenIsBacked).                 *)
(*                                                                         *)
(* Ears. A child's events of one text are dedupe_seconds apart (SaidApart) *)
(* and each is printed while a message is in reach (SaidIsTrue), for the   *)
(* listener keeps up and samedec's lines are read at once (KeepsUp,        *)
(* PendingIsTimely); so a brief message makes one. The cursor does not     *)
(* pass the second of two near bursts until the message is heard           *)
(* (NotPassed); what samedec found is printed or written (FoundIsKept).    *)
(*                                                                         *)
(* The log. Every notice is queued, held, posted or given up (Accounted),  *)
(* in one place only (EachOnce), and one that was never refused comes      *)
(* after all others (FreshIsLast).                                         *)
(*                                                                         *)
(* The programme. A segment's age, what its products waited and what the   *)
(* pass under way may still take never exceed the bound (InTime); the      *)
(* texts about the station are right, or asked for, or about to be         *)
(* (IdSoon, NoticeSoon).                                                   *)
(*                                                                         *)
(* Places. A zone is given up only when the crosswalk was loaded and had   *)
(* none (LoadedOnce, NoneGivenUp, OthersElsewhere). Days of other months   *)
(* are four weeks away from the right one, so the closest is right         *)
(* (ClosestIsRight).                                                       *)
(*                                                                         *)
(* Notices. The day by which a code gives the end of a statement is found  *)
(* again in this month or the next (EndIsFound).                           *)
(*                                                                         *)
(* Liquidsoap. What was learned of a whole help is what the script has,    *)
(* until it is gone (SureIsKnown).                                         *)
(*                                                                         *)
(* The rotation. Time is counted in plays, Pace of them a unit: a segment  *)
(* comes at its place of this rotation, or when its gap has passed and     *)
(* this rotation is over (ComesInTime). Over restarts: once the focus has  *)
(* been there, or away, for long enough, the next rotation has every       *)
(* segment that was not played for its patience (OverdueInv).              *)
(***************************************************************************)
EXTENDS Peripherals, FiniteSetTheorems, TLAPS

-----------------------------------------------------------------------------
(* The tokens of the control API                                           *)

(* What an exchange under way has read of its client still holds.          *)
ReadIsTrue ==
    issuing # Idle =>
        LET row == client[issuing.client]
        IN  /\ row.exists
            /\ issuing.expires <= row.expires
            /\ issuing.scopes \subseteq row.scopes

NeverLate == request # Idle => ~request.late

AuthInv == AuthTypeOK /\ ReadIsTrue /\ TokenIsBacked /\ NeverLate

-----------------------------------------------------------------------------
(* Rows. *)

LEMMA RowExists ==
    ASSUME AuthTypeOK
    PROVE  /\ \A c \in Clients : client[c].exists => client[c] \in ClientRow
           /\ \A tk \in Tokens : token[tk].exists => token[tk] \in TokenRow
PROOF
  BY DEF AuthTypeOK, Absent

LEMMA RotatedRow ==
    ASSUME NEW r \in ClientRow
    PROVE  LET next == [r EXCEPT !.generation = r.generation + 1]
           IN  next \in ClientRow /\ next.expires = r.expires /\ next.scopes = r.scopes
PROOF
<1>1. r.generation + 1 \in Nat
  BY DEF ClientRow
<1>2. QED
  BY <1>1 DEF ClientRow

LEMMA EnabledRow ==
    ASSUME NEW r \in ClientRow
    PROVE  LET next == [r EXCEPT !.enabled = TRUE]
           IN  /\ next \in ClientRow /\ next.enabled
               /\ next.revoked = r.revoked /\ next.generation = r.generation
               /\ next.expires = r.expires /\ next.scopes = r.scopes
PROOF
  BY DEF ClientRow

LEMMA RevokedTyped ==
    ASSUME AuthTypeOK, NEW c \in Clients
    PROVE  TokensRevoked(c) \in [Tokens -> TokenRow \cup {Absent}]
PROOF
<1>1. ASSUME NEW tk \in Tokens, token[tk].exists PROVE [token[tk] EXCEPT !.revoked = TRUE] \in TokenRow
  BY <1>1, RowExists DEF TokenRow
<1>2. ASSUME NEW tk \in Tokens PROVE token[tk] \in TokenRow \cup {Absent}
  BY DEF AuthTypeOK
<1>3. QED
  BY <1>1, <1>2 DEF TokensRevoked

(* The tokens of a client that is changed are all revoked, the others are  *)
(* left as they are.                                                       *)
LEMMA RevokedRows ==
    ASSUME AuthTypeOK, NEW c \in Clients, NEW tk \in Tokens,
           TokensRevoked(c)[tk].exists, ~TokensRevoked(c)[tk].revoked
    PROVE  TokensRevoked(c)[tk] = token[tk] /\ token[tk].exists /\ token[tk].client # c
PROOF
<1>1. CASE token[tk].exists /\ token[tk].client = c
  <2>1. TokensRevoked(c)[tk] = [token[tk] EXCEPT !.revoked = TRUE]
    BY <1>1 DEF TokensRevoked
  <2>2. token[tk] \in TokenRow
    BY <1>1, RowExists
  <2>3. TokensRevoked(c)[tk].revoked
    BY <2>1, <2>2 DEF TokenRow
  <2>4. QED
    BY <2>3
<1>2. CASE ~(token[tk].exists /\ token[tk].client = c)
  <2>1. TokensRevoked(c)[tk] = token[tk]
    BY <1>2 DEF TokensRevoked
  <2>2. QED
    BY <1>2, <2>1
<1>3. QED
  BY <1>1, <1>2

-----------------------------------------------------------------------------
(* A command on an existing client keeps its row but for the fields it     *)
(* changes, and revokes its tokens.                                        *)
LEMMA CommandStep ==
    ASSUME AuthInv, NEW c \in Clients, client[c].exists,
           NEW row \in ClientRow, row.expires = client[c].expires, row.scopes = client[c].scopes,
           client' = [client EXCEPT ![c] = row], token' = TokensRevoked(c),
           UNCHANGED <<clock, issuing, request, lastUsed, noted>>
    PROVE  AuthInv'
PROOF
<1>. USE DEF AuthInv
<1>1. client'[c] = row /\ \A d \in Clients : d # c => client'[d] = client[d]
  BY DEF AuthTypeOK
<1>2. AuthTypeOK'
  <2>1. client' \in [Clients -> ClientRow \cup {Absent}]
    BY DEF AuthTypeOK
  <2>2. QED
    BY <2>1, RevokedTyped DEF AuthTypeOK
<1>3. ReadIsTrue'
  <2>1. row.exists
    BY DEF ClientRow
  <2>2. issuing # Idle => issuing.client \in Clients
    BY DEF AuthTypeOK
  <2>3. QED
    BY <1>1, <2>1, <2>2 DEF ReadIsTrue
<1>4. TokenIsBacked'
  <2>1. SUFFICES ASSUME NEW tk \in Tokens, token'[tk].exists, ~token'[tk].revoked
                 PROVE  LET r == client'[token'[tk].client]
                        IN  /\ r.exists /\ r.enabled /\ ~r.revoked
                            /\ token'[tk].generation = r.generation
                            /\ token'[tk].expires <= r.expires
                            /\ token'[tk].scopes \subseteq r.scopes
    BY DEF TokenIsBacked
  <2>2. token'[tk] = token[tk] /\ token[tk].exists /\ token[tk].client # c
    BY <2>1, RevokedRows
  <2>3. token[tk].client \in Clients
    BY <2>2, RowExists DEF TokenRow
  <2>4. client'[token[tk].client] = client[token[tk].client]
    BY <1>1, <2>2, <2>3
  <2>5. QED
    BY <2>1, <2>2, <2>4 DEF TokenIsBacked
<1>5. NeverLate'
  BY DEF NeverLate
<1>6. QED
  BY <1>2, <1>3, <1>4, <1>5

LEMMA CreateStep ==
    ASSUME AuthInv, NEW c \in Clients, CreateClient(c)
    PROVE  AuthInv'
PROOF
<1>. USE DEF AuthInv
<1>1. PICK scopes \in SUBSET Scopes \ {{}}, expires \in (clock + 1 .. MaxTime) \cup {NoLimit} :
           client' = [client EXCEPT ![c] = [exists |-> TRUE, enabled |-> TRUE, revoked |-> FALSE,
                                            generation |-> 1, expires |-> expires, scopes |-> scopes]]
  BY DEF CreateClient
<1>2. UNCHANGED <<clock, token, issuing, request, lastUsed, noted>> /\ ~client[c].exists
  BY DEF CreateClient
<1>3. expires \in Nat
  BY AuthAssumption DEF AuthTypeOK
<1>4. client' \in [Clients -> ClientRow \cup {Absent}]
  <2>1. [exists |-> TRUE, enabled |-> TRUE, revoked |-> FALSE,
         generation |-> 1, expires |-> expires, scopes |-> scopes] \in ClientRow
    BY <1>3 DEF ClientRow
  <2>2. QED
    BY <1>1, <2>1 DEF AuthTypeOK
<1>5. \A d \in Clients : d # c => client'[d] = client[d]
  BY <1>1 DEF AuthTypeOK
<1>6. AuthTypeOK'
  BY <1>2, <1>4 DEF AuthTypeOK
<1>7. ReadIsTrue'
  <2>1. issuing # Idle => issuing.client \in Clients /\ issuing.client # c
    BY <1>2 DEF AuthTypeOK, ReadIsTrue
  <2>2. QED
    BY <1>2, <1>5, <2>1 DEF ReadIsTrue
<1>8. TokenIsBacked'
  <2>1. \A tk \in Tokens : token[tk].exists /\ ~token[tk].revoked =>
            token[tk].client \in Clients /\ token[tk].client # c
    BY <1>2, RowExists DEF TokenIsBacked, TokenRow
  <2>2. QED
    BY <1>2, <1>5, <2>1 DEF TokenIsBacked
<1>9. NeverLate'
  BY <1>2 DEF NeverLate
<1>10. QED
  BY <1>6, <1>7, <1>8, <1>9

(* Enabling a client: its tokens were revoked when it was disabled, and    *)
(* those it has do not mind.                                               *)
LEMMA EnableStep ==
    ASSUME AuthInv, NEW c \in Clients, EnableClient(c)
    PROVE  AuthInv'
PROOF
<1>. USE DEF AuthInv
<1>1. /\ UNCHANGED <<clock, token, issuing, request, lastUsed, noted>>
      /\ client' = [client EXCEPT ![c].enabled = TRUE]
      /\ client[c] \in ClientRow
  BY RowExists DEF EnableClient
<1>2. /\ client'[c] \in ClientRow
      /\ client'[c].enabled
      /\ client'[c].revoked = client[c].revoked
      /\ client'[c].generation = client[c].generation
      /\ client'[c].expires = client[c].expires
      /\ client'[c].scopes = client[c].scopes
  <2>1. client'[c] = [client[c] EXCEPT !.enabled = TRUE]
    BY <1>1 DEF AuthTypeOK
  <2>2. QED
    BY <1>1, <2>1, EnabledRow
<1>3. \A d \in Clients : d # c => client'[d] = client[d]
  BY <1>1 DEF AuthTypeOK
<1>4. AuthTypeOK'
  <2>1. client' \in [Clients -> ClientRow \cup {Absent}]
    BY <1>1, <1>2 DEF AuthTypeOK
  <2>2. QED
    BY <1>1, <2>1 DEF AuthTypeOK
<1>5. client'[c].exists /\ client[c].exists
  BY <1>1, <1>2 DEF ClientRow
<1>6. ReadIsTrue'
  <2>1. issuing # Idle => issuing.client \in Clients
    BY DEF AuthTypeOK
  <2>2. QED
    BY <1>1, <1>2, <1>3, <1>5, <2>1 DEF ReadIsTrue
<1>7. TokenIsBacked'
  <2>1. \A tk \in Tokens : token[tk].exists => token[tk].client \in Clients
    BY RowExists DEF TokenRow
  <2>2. QED
    BY <1>1, <1>2, <1>3, <1>5, <2>1 DEF TokenIsBacked
<1>8. NeverLate'
  BY <1>1 DEF NeverLate
<1>9. QED
  BY <1>4, <1>6, <1>7, <1>8

LEMMA AuthenticateStep ==
    ASSUME AuthInv, NEW c \in Clients, Authenticate(c)
    PROVE  AuthInv'
PROOF
<1>. USE DEF AuthInv
<1>1. PICK scopes \in SUBSET client[c].scopes, ttl \in Lifetimes :
           issuing' = [step |-> "authenticated", client |-> c,
                       generation |-> client[c].generation,
                       expires |-> Expiration(client[c], ttl), scopes |-> scopes]
  BY DEF Authenticate
<1>2. UNCHANGED <<clock, client, token, request, lastUsed, noted>>
  BY DEF Authenticate
<1>3. client[c].exists /\ client[c] \in ClientRow
  BY RowExists DEF Authenticate, Usable
<1>4. ttl \in Nat /\ clock \in Nat /\ client[c].expires \in Nat
  BY <1>3, AuthAssumption DEF AuthTypeOK, ClientRow
<1>5. Expiration(client[c], ttl) \in Nat /\ Expiration(client[c], ttl) <= client[c].expires
  BY <1>4 DEF Expiration
<1>6. scopes \in SUBSET Scopes /\ client[c].generation \in Nat
  BY <1>3 DEF ClientRow
<1>7. AuthTypeOK'
  BY <1>1, <1>2, <1>5, <1>6 DEF AuthTypeOK
<1>8. ReadIsTrue'
  BY <1>1, <1>2, <1>3, <1>5 DEF ReadIsTrue
<1>9. TokenIsBacked' /\ NeverLate'
  BY <1>2 DEF TokenIsBacked, NeverLate
<1>10. QED
  BY <1>7, <1>8, <1>9

(* The recheck makes the new token one of the client as it is.             *)
LEMMA IssueStep ==
    ASSUME AuthInv, NEW tk \in Tokens, IssueToken(tk)
    PROVE  AuthInv'
PROOF
<1>. USE DEF AuthInv
<1>. DEFINE row == client[issuing.client]
            new == [exists |-> TRUE, client |-> issuing.client, generation |-> issuing.generation,
                    expires |-> issuing.expires, revoked |-> FALSE, scopes |-> issuing.scopes]
<1>1. /\ UNCHANGED <<clock, client, request, lastUsed, noted>>
      /\ issuing' = Idle /\ issuing # Idle
      /\ token' = IF Unchanged(row, issuing) THEN [token EXCEPT ![tk] = new] ELSE token
  BY DEF IssueToken
<1>2. issuing.client \in Clients /\ issuing.generation \in Nat /\ issuing.expires \in Nat
      /\ issuing.scopes \in SUBSET Scopes
  BY <1>1 DEF AuthTypeOK
<1>3. new \in TokenRow
  BY <1>2 DEF TokenRow
<1>4. AuthTypeOK'
  <2>1. token' \in [Tokens -> TokenRow \cup {Absent}]
    BY <1>1, <1>3 DEF AuthTypeOK
  <2>2. QED
    BY <1>1, <2>1 DEF AuthTypeOK
<1>5. ReadIsTrue' /\ NeverLate'
  BY <1>1 DEF ReadIsTrue, NeverLate
<1>6. TokenIsBacked'
  <2>1. CASE ~Unchanged(row, issuing)
    BY <1>1, <2>1 DEF TokenIsBacked
  <2>2. CASE Unchanged(row, issuing)
    <3>1. token'[tk] = new /\ \A u \in Tokens : u # tk => token'[u] = token[u]
      BY <1>1, <2>2 DEF AuthTypeOK
    <3>2. /\ row.exists /\ row.enabled /\ ~row.revoked
          /\ new.generation = row.generation
          /\ new.expires <= row.expires
          /\ new.scopes \subseteq row.scopes
      BY <1>1, <2>2 DEF Unchanged, ReadIsTrue
    <3>3. new.client = issuing.client
      OBVIOUS
    <3>. HIDE DEF new
    <3>4. QED
      BY <1>1, <3>1, <3>2, <3>3 DEF TokenIsBacked
  <2>3. QED
    BY <2>1, <2>2
<1>7. QED
  BY <1>4, <1>5, <1>6

LEMMA RevokeTokenStep ==
    ASSUME AuthInv, NEW c \in Clients, NEW tk \in Tokens, RevokeToken(c, tk)
    PROVE  AuthInv'
PROOF
<1>. USE DEF AuthInv
<1>1. /\ UNCHANGED <<clock, client, issuing, request, lastUsed, noted>>
      /\ token' = [token EXCEPT ![tk].revoked = TRUE]
      /\ token[tk] \in TokenRow
  BY RowExists DEF RevokeToken
<1>2. token'[tk] \in TokenRow /\ token'[tk].revoked
  BY <1>1 DEF AuthTypeOK, TokenRow
<1>3. \A u \in Tokens : u # tk => token'[u] = token[u]
  BY <1>1 DEF AuthTypeOK
<1>4. AuthTypeOK'
  <2>1. token' \in [Tokens -> TokenRow \cup {Absent}]
    BY <1>1, <1>2 DEF AuthTypeOK
  <2>2. QED
    BY <1>1, <2>1 DEF AuthTypeOK
<1>5. ReadIsTrue' /\ NeverLate'
  BY <1>1 DEF ReadIsTrue, NeverLate
<1>6. TokenIsBacked'
  BY <1>1, <1>2, <1>3 DEF TokenIsBacked
<1>7. QED
  BY <1>4, <1>5, <1>6

(* A token that is valid when it is read has its client in use then.       *)
LEMMA ReadTokenStep ==
    ASSUME AuthInv, NEW tk \in Tokens, ReadToken(tk)
    PROVE  AuthInv'
PROOF
<1>. USE DEF AuthInv
<1>1. UNCHANGED <<clock, client, token, issuing, lastUsed, noted>>
  BY DEF ReadToken
<1>2. CASE ~ValidToken(token[tk])
  BY <1>1, <1>2 DEF ReadToken, AuthTypeOK, ReadIsTrue, TokenIsBacked, NeverLate
<1>3. CASE ValidToken(token[tk])
  <2>1. request' = [step |-> "reading", token |-> tk, late |-> ~Usable(client[token[tk].client])]
    BY <1>3 DEF ReadToken
  <2>2. token[tk] \in TokenRow /\ token[tk].expires > clock
    BY <1>3, RowExists DEF ValidToken
  <2>3. token[tk].client \in Clients /\ token[tk].expires \in Nat /\ clock \in Nat
    BY <2>2 DEF TokenRow, AuthTypeOK
  <2>4. client[token[tk].client] \in ClientRow /\ token[tk].expires <= client[token[tk].client].expires
        /\ client[token[tk].client].enabled /\ ~client[token[tk].client].revoked
    BY <1>3, <2>3, RowExists DEF ValidToken, TokenIsBacked
  <2>5. client[token[tk].client].exists
    BY <1>3, <2>3 DEF ValidToken, TokenIsBacked
  <2>6. client[token[tk].client].expires \in Nat
    BY <2>4 DEF ClientRow
  <2>7. client[token[tk].client].expires > clock
    BY <2>2, <2>3, <2>4, <2>6
  <2>8. Usable(client[token[tk].client])
    BY <2>4, <2>5, <2>7 DEF Usable
  <2>9. request' = [step |-> "reading", token |-> tk, late |-> FALSE]
    BY <2>1, <2>8
  <2>10. AuthTypeOK'
    BY <1>1, <2>9 DEF AuthTypeOK
  <2>11. QED
    BY <1>1, <2>9, <2>10 DEF ReadIsTrue, TokenIsBacked, NeverLate
<1>4. QED
  BY <1>2, <1>3

LEMMA ReadClientStep ==
    ASSUME AuthInv, ReadClient
    PROVE  AuthInv'
PROOF
<1>. USE DEF AuthInv
<1>1. UNCHANGED <<clock, client, token, issuing>> /\ request.step = "reading"
  BY DEF ReadClient
<1>2. request # Idle
  BY <1>1 DEF Idle
<1>3. request \in [step : {"reading", "granted"}, token : Tokens, late : BOOLEAN] /\ ~request.late
  BY <1>2 DEF AuthTypeOK, NeverLate
<1>4. request' = Idle \/ request' = [request EXCEPT !.step = "granted"]
  BY DEF ReadClient
<1>5. request' # Idle => /\ request' \in [step : {"reading", "granted"}, token : Tokens, late : BOOLEAN]
                         /\ ~request'.late
  BY <1>3, <1>4
<1>6. lastUsed' \in [Tokens -> Nat] /\ noted' \in [Tokens -> Nat]
  <2>1. clock \in Nat
    BY DEF AuthTypeOK
  <2>2. QED
    BY <2>1 DEF ReadClient, AuthTypeOK
<1>7. AuthTypeOK' /\ NeverLate'
  BY <1>1, <1>5, <1>6 DEF AuthTypeOK, NeverLate
<1>8. ReadIsTrue' /\ TokenIsBacked'
  BY <1>1 DEF ReadIsTrue, TokenIsBacked
<1>9. QED
  BY <1>7, <1>8

LEMMA AuthInitially == AuthInit => AuthInv
PROOF
<1>. SUFFICES ASSUME AuthInit PROVE AuthInv
  OBVIOUS
<1>1. Absent.exists = FALSE
  BY DEF Absent
<1>2. 1 \in 1 .. MaxTime
  BY AuthAssumption DEF AuthInit
<1>3. AuthTypeOK
  BY <1>2 DEF AuthInit, AuthTypeOK
<1>4. ReadIsTrue /\ TokenIsBacked /\ NeverLate
  BY <1>1 DEF AuthInit, ReadIsTrue, TokenIsBacked, NeverLate
<1>5. QED
  BY <1>3, <1>4 DEF AuthInv

LEMMA AuthInductive == AuthInv /\ [AuthNext]_authVars => AuthInv'
PROOF
<1>. SUFFICES ASSUME AuthInv, [AuthNext]_authVars PROVE AuthInv'
  OBVIOUS
<1>1. ASSUME NEW c \in Clients, RotateClient(c) PROVE AuthInv'
  <2>1. client[c].exists /\ client[c] \in ClientRow
    BY <1>1, RowExists DEF RotateClient, AuthInv
  <2>. DEFINE row == [client[c] EXCEPT !.generation = @ + 1]
  <2>2. row \in ClientRow /\ row.expires = client[c].expires /\ row.scopes = client[c].scopes
    BY <2>1, RotatedRow
  <2>3. client' = [client EXCEPT ![c] = row]
    BY <1>1 DEF RotateClient, AuthInv, AuthTypeOK
  <2>. HIDE DEF row
  <2>4. QED
    BY <1>1, <2>1, <2>2, <2>3, CommandStep DEF RotateClient
<1>2. ASSUME NEW c \in Clients, DisableClient(c) PROVE AuthInv'
  <2>1. client[c].exists /\ client[c] \in ClientRow
    BY <1>2, RowExists DEF DisableClient, AuthInv
  <2>. DEFINE row == [client[c] EXCEPT !.enabled = FALSE]
  <2>2. row \in ClientRow /\ row.expires = client[c].expires /\ row.scopes = client[c].scopes
    BY <2>1 DEF ClientRow
  <2>3. client' = [client EXCEPT ![c] = row]
    BY <1>2 DEF DisableClient, AuthInv, AuthTypeOK
  <2>. HIDE DEF row
  <2>4. QED
    BY <1>2, <2>1, <2>2, <2>3, CommandStep DEF DisableClient
<1>3. ASSUME NEW c \in Clients, RevokeClient(c) PROVE AuthInv'
  <2>1. client[c].exists /\ client[c] \in ClientRow
    BY <1>3, RowExists DEF RevokeClient, AuthInv
  <2>. DEFINE row == [client[c] EXCEPT !.enabled = FALSE, !.revoked = TRUE]
  <2>2. row \in ClientRow /\ row.expires = client[c].expires /\ row.scopes = client[c].scopes
    BY <2>1 DEF ClientRow
  <2>3. client' = [client EXCEPT ![c] = row]
    BY <1>3 DEF RevokeClient, AuthInv, AuthTypeOK
  <2>. HIDE DEF row
  <2>4. QED
    BY <1>3, <2>1, <2>2, <2>3, CommandStep DEF RevokeClient
<1>4. ASSUME NEW c \in Clients, CreateClient(c) \/ EnableClient(c) \/ Authenticate(c) PROVE AuthInv'
  BY <1>4, CreateStep, EnableStep, AuthenticateStep
<1>5. ASSUME NEW tk \in Tokens, IssueToken(tk) \/ ReadToken(tk) PROVE AuthInv'
  BY <1>5, IssueStep, ReadTokenStep
<1>6. ASSUME NEW c \in Clients, NEW tk \in Tokens, RevokeToken(c, tk) PROVE AuthInv'
  BY <1>6, RevokeTokenStep
<1>7. CASE ReadClient
  BY <1>7, ReadClientStep
<1>8. CASE ClockTick
  <2>1. clock' \in 1 .. MaxTime
    BY <1>8, AuthAssumption DEF ClockTick, AuthInv, AuthTypeOK
  <2>2. QED
    BY <1>8, <2>1 DEF ClockTick, AuthInv, AuthTypeOK, ReadIsTrue, TokenIsBacked, NeverLate
<1>9. CASE AuthRestart
  BY <1>9 DEF AuthRestart, AuthInv, AuthTypeOK, ReadIsTrue, TokenIsBacked, NeverLate
<1>10. CASE UNCHANGED authVars
  BY <1>10 DEF authVars, AuthInv, AuthTypeOK, ReadIsTrue, TokenIsBacked, NeverLate
<1>11. QED
  BY <1>1, <1>2, <1>3, <1>4, <1>5, <1>6, <1>7, <1>8, <1>9, <1>10 DEF AuthNext

(* No command, exchange, request, restart or passing of time, in any       *)
(* order, leaves a live token behind whose client was changed, disabled or *)
(* revoked, or lets a request in with one.                                 *)
THEOREM TokensFollow == AuthSpec => []TokensFollowClients
PROOF
<1>1. AuthInv => TokensFollowClients
  <2>1. AuthInv /\ request.step = "granted" => request # Idle
    BY DEF Idle
  <2>2. QED
    BY <2>1 DEF AuthInv, TokensFollowClients, GrantedInTime, NeverLate
<1>2. QED
  BY <1>1, AuthInitially, AuthInductive, PTL DEF AuthSpec


-----------------------------------------------------------------------------
(* The ears                                                                *)

EarsEvent == [text : Texts, at : Nat, born : Nat]

EarsTyped ==
    /\ t \in Nat /\ begun \in Nat /\ cursor \in Nat /\ breaks \in Nat /\ born \in Nat
    /\ found \subseteq Air
    /\ written \in Seq(Texts) /\ outBuf \in Seq(Texts)
    /\ said \subseteq EarsEvent /\ emitted \in [Texts -> Int]

(* Until the stream or a process ends, the child reads and scans from the  *)
(* start of the stream.                                                    *)
Unbroken ==
    breaks = 0 =>
        /\ begun = 0
        /\ child \in {"reads", "scans"}
        /\ samedec = "runs"

(* The native listener is behind the stream by less than a read.           *)
KeepsUp ==
    /\ born <= begun /\ begun <= t
    /\ backend = "native" /\ child = "reads" => t < cursor + Frame
    /\ backend = "native" /\ child = "scans" => t < cursor + Frame + Chunk

(* A child remembers the last event it printed of each text.               *)
EmittedIsSaid ==
    /\ \A x \in Texts : emitted[x] = -Dedupe \/ \E e \in said : e.text = x /\ e.at = emitted[x]
    /\ \A e \in said : /\ e.born <= born /\ e.at <= t
                       /\ e.born = born => e.at <= emitted[e.text]

SaidApart ==
    \A e, f \in said : e.text = f.text /\ e.born = f.born /\ e # f =>
        e.at + Dedupe <= f.at \/ f.at + Dedupe <= e.at

SaidIsTrue == \A e \in said : \E m \in Air : Answers(e, m)

(* A burst of the message was fed to this child, and samedec and then a    *)
(* read took no longer than they may.                                      *)
Timely(m) ==
    \E b \in m.bursts :
        /\ born <= b[1] /\ b[2] <= t
        /\ t <= b[2] + Lag + (IF child = "scans" THEN Chunk ELSE 0)

(* What samedec wrote and was not parsed yet was sent a moment ago.        *)
PendingIsTimely ==
    backend = "samedec" /\ child \in {"reads", "scans", "drains"} =>
        \A x \in Range(written) \cup Range(outBuf) : \E m \in Air : m.text = x /\ Timely(m)

(* The cursor is not beyond the begin of the second of two near bursts, as *)
(* long as the message was not heard.                                      *)
NearBursts(m, b, c) ==
    /\ b[2] + Ahead <= c[1] /\ c[1] + Frame <= c[2]
    /\ c[1] + Frame + Ahead <= b[1] + Back
    /\ \A n \in Air \ {m} : \A d \in n.bursts : d[1] < b[2] - Back \/ c[1] + Frame + Ahead < d[2]

NotPassed ==
    breaks = 0 /\ backend = "native" =>
        \A m \in Air : Alone(m) =>
            \A b, c \in m.bursts : NearBursts(m, b, c) => Heard(m) \/ cursor <= c[1]

(* What samedec found is on its way.                                       *)
FoundIsKept ==
    breaks = 0 /\ backend = "samedec" =>
        /\ child = "reads" => outBuf = <<>>
        /\ \A m \in found : Alone(m) =>
              \/ Heard(m)
              \/ Timely(m) /\ m.text \in Range(written) \cup Range(outBuf)

EarsInv ==
    /\ EarsTyped /\ Unbroken /\ KeepsUp
    /\ EmittedIsSaid /\ SaidApart /\ SaidIsTrue
    /\ PendingIsTimely /\ NotPassed /\ FoundIsKept

LEMMA MinOf ==
    ASSUME NEW a \in Int, NEW b \in Int
    PROVE  Min({a, b}) \in {a, b} /\ Min({a, b}) <= a /\ Min({a, b}) <= b
PROOF
<1>1. \E x \in {a, b} : \A y \in {a, b} : x <= y
  BY DEF Min
<1>2. Min({a, b}) \in {a, b} /\ \A y \in {a, b} : Min({a, b}) <= y
  BY <1>1 DEF Min
<1>3. QED
  BY <1>2

LEMMA MaxOf ==
    ASSUME NEW a \in Int, NEW b \in Int
    PROVE  Max({a, b}) \in {a, b} /\ Max({a, b}) >= a /\ Max({a, b}) >= b
PROOF
<1>1. \E x \in {a, b} : \A y \in {a, b} : x >= y
  OBVIOUS
<1>2. Max({a, b}) \in {a, b} /\ \A y \in {a, b} : Max({a, b}) >= y
  BY <1>1 DEF Max
<1>3. QED
  BY <1>2

LEMMA InRange ==
    ASSUME NEW T, NEW s \in Seq(T)
    PROVE  /\ \A i \in 1 .. Len(s) : s[i] \in Range(s)
           /\ \A x \in Range(s) : \E i \in 1 .. Len(s) : x = s[i]
PROOF
  BY DEF Range

LEMMA RangeOfTail ==
    ASSUME NEW T, NEW s \in Seq(T), s # <<>>
    PROVE  \A x \in Range(s) : x = Head(s) \/ x \in Range(Tail(s))
PROOF
<1>. SUFFICES ASSUME NEW i \in 1 .. Len(s), i # 1 PROVE s[i] \in Range(Tail(s))
  BY InRange
<1>1. i - 1 \in 1 .. Len(Tail(s)) /\ Tail(s)[i - 1] = s[i]
  OBVIOUS
<1>2. Tail(s) \in Seq(T)
  OBVIOUS
<1>3. QED
  BY <1>1, <1>2, InRange

LEMMA RangeOfJoin ==
    ASSUME NEW T, NEW s \in Seq(T), NEW u \in Seq(T)
    PROVE  s \o u \in Seq(T) /\ Range(s) \subseteq Range(s \o u) /\ Range(u) \subseteq Range(s \o u)
PROOF
<1>1. s \o u \in Seq(T) /\ Len(s \o u) = Len(s) + Len(u)
  OBVIOUS
<1>2. ASSUME NEW x \in Range(s) PROVE x \in Range(s \o u)
  <2>1. PICK i \in 1 .. Len(s) : x = s[i]
    BY InRange
  <2>2. i \in 1 .. Len(s \o u) /\ (s \o u)[i] = x
    BY <2>1
  <2>3. QED
    BY <1>1, <2>2, InRange
<1>3. ASSUME NEW x \in Range(u) PROVE x \in Range(s \o u)
  <2>1. PICK i \in 1 .. Len(u) : x = u[i]
    BY InRange
  <2>2. Len(s) + i \in 1 .. Len(s \o u) /\ (s \o u)[Len(s) + i] = x
    BY <2>1
  <2>3. QED
    BY <1>1, <2>2, InRange
<1>4. QED
  BY <1>1, <1>2, <1>3

LEMMA RangeOfAppend ==
    ASSUME NEW T, NEW s \in Seq(T), NEW e \in T
    PROVE  /\ Append(s, e) \in Seq(T)
           /\ \A x \in Range(s) : x \in Range(Append(s, e))
           /\ e \in Range(Append(s, e))
           /\ \A x \in Range(Append(s, e)) : x = e \/ x \in Range(s)
PROOF
<1>1. Append(s, e) \in Seq(T) /\ Len(Append(s, e)) = Len(s) + 1 /\ Append(s, e)[Len(s) + 1] = e
  OBVIOUS
<1>2. \A i \in 1 .. Len(s) : i \in 1 .. Len(Append(s, e)) /\ Append(s, e)[i] = s[i]
  OBVIOUS
<1>3. \A i \in 1 .. Len(Append(s, e)) : i = Len(s) + 1 \/ i \in 1 .. Len(s)
  BY <1>1
<1>4. Len(s) + 1 \in 1 .. Len(Append(s, e))
  BY <1>1
<1>5. ASSUME NEW x \in Range(s) PROVE x \in Range(Append(s, e))
  <2>1. PICK i \in 1 .. Len(s) : x = s[i]
    BY InRange
  <2>2. i \in 1 .. Len(Append(s, e)) /\ Append(s, e)[i] = x
    BY <1>2, <2>1
  <2>3. QED
    BY <1>1, <2>2, InRange
<1>6. e \in Range(Append(s, e))
  BY <1>1, <1>4, InRange
<1>7. ASSUME NEW x \in Range(Append(s, e)) PROVE x = e \/ x \in Range(s)
  <2>1. PICK i \in 1 .. Len(Append(s, e)) : x = Append(s, e)[i]
    BY <1>1, InRange
  <2>2. QED
    BY <1>1, <1>2, <1>3, <2>1, InRange
<1>8. QED
  BY <1>1, <1>5, <1>6, <1>7

(* What a child prints when a message is in its reach keeps its memory, is *)
(* apart from what it printed before, and answers to the message; and if   *)
(* it prints nothing, the message was heard, unless the same text is sent  *)
(* too near to it.                                                         *)
LEMMA SayKeeps ==
    ASSUME EarsInv, NEW n \in Air, NEW b \in n.bursts,
           born <= b[1], b[2] <= t, t <= b[2] + Reach, Say(n.text), t' = t, born' = born
    PROVE  /\ EmittedIsSaid' /\ SaidApart' /\ SaidIsTrue'
           /\ said \subseteq said' /\ said' \subseteq EarsEvent /\ emitted' \in [Texts -> Int]
           /\ Alone(n) => Heard(n)'
PROOF
<1>. DEFINE x == n.text
            new == [text |-> x, at |-> t, born |-> born]
<1>1. /\ x \in Texts /\ t \in Nat /\ born \in Nat /\ Dedupe \in Nat \ {0} /\ Reach \in Nat
      /\ emitted \in [Texts -> Int] /\ said \subseteq EarsEvent
      /\ b[1] \in Nat /\ b[2] \in Nat
  BY EarsAssumption DEF EarsInv, EarsTyped, Texts, Reach
<1>2. CASE t - emitted[x] < Dedupe
  <2>1. emitted' = emitted /\ said' = said
    BY <1>2 DEF Say, heardVars
  <2>2. Alone(n) => Heard(n)
    <3>1. emitted[x] \in Int /\ emitted[x] # -Dedupe
      BY <1>1, <1>2
    <3>2. PICK e \in said : e.text = x /\ e.at = emitted[x]
      BY <1>1, <3>1 DEF EarsInv, EmittedIsSaid
    <3>3. e.at \in Nat /\ e.at <= t /\ t < e.at + Dedupe
      BY <1>1, <1>2, <3>2 DEF EarsInv, EmittedIsSaid, EarsEvent
    <3>4. PICK m \in Air : Answers(e, m)
      BY <3>2 DEF EarsInv, SaidIsTrue
    <3>5. PICK d \in m.bursts : d[2] <= e.at /\ e.at <= d[2] + Reach
      BY <3>4 DEF Answers
    <3>6. ASSUME Alone(n), m # n PROVE FALSE
      <4>1. d[2] + Reach + Dedupe <= b[2] \/ b[2] + Reach < d[2]
        BY <3>2, <3>4, <3>6 DEF Alone, Answers
      <4>2. d[2] \in Nat
        BY EarsAssumption
      <4>3. QED
        BY <1>1, <3>3, <3>5, <4>1, <4>2
    <3>7. QED
      BY <3>2, <3>4, <3>6 DEF Heard
  <2>3. QED
    BY <1>1, <2>1, <2>2 DEF EarsInv, EmittedIsSaid, SaidApart, SaidIsTrue, Heard
<1>3. CASE ~(t - emitted[x] < Dedupe)
  <2>1. emitted' = [emitted EXCEPT ![x] = t] /\ said' = said \cup {new}
    BY <1>3 DEF Say
  <2>2. new \in EarsEvent /\ new.text = x /\ new.at = t /\ new.born = born
    BY <1>1 DEF EarsEvent
  <2>3. Answers(new, n)
    BY <2>2 DEF Answers
  <2>. HIDE DEF new, x
  <2>4. emitted' \in [Texts -> Int] /\ said' \subseteq EarsEvent
    BY <1>1, <2>1, <2>2
  <2>5. emitted[x] \in Int /\ emitted[x] + Dedupe <= t
    BY <1>1, <1>3 DEF x
  <2>6. ASSUME NEW e \in said PROVE e.at \in Nat /\ e.born \in Nat /\ e.text \in Texts
    BY <1>1 DEF EarsEvent
  <2>7. EmittedIsSaid'
    <3>1. ASSUME NEW y \in Texts
          PROVE  emitted'[y] = -Dedupe \/ \E e \in said' : e.text = y /\ e.at = emitted'[y]
      <4>1. CASE y = x
        BY <1>1, <2>1, <2>2, <4>1
      <4>2. CASE y # x
        BY <1>1, <2>1, <4>2 DEF EarsInv, EmittedIsSaid
      <4>3. QED
        BY <4>1, <4>2
    <3>2. ASSUME NEW e \in said'
          PROVE  e.born <= born /\ e.at <= t /\ (e.born = born => e.at <= emitted'[e.text])
      <4>1. CASE e = new
        BY <1>1, <2>1, <2>2, <4>1
      <4>2. CASE e \in said
        <5>1. e.born <= born /\ e.at <= t /\ (e.born = born => e.at <= emitted[e.text])
          BY <4>2 DEF EarsInv, EmittedIsSaid
        <5>2. emitted'[e.text] = IF e.text = x THEN t ELSE emitted[e.text]
          BY <1>1, <2>1, <2>6, <4>2
        <5>3. QED
          BY <5>1, <5>2
      <4>3. QED
        BY <2>1, <4>1, <4>2
    <3>3. QED
      BY <3>1, <3>2 DEF EmittedIsSaid
  <2>8. ASSUME NEW e \in said, e.text = x, e.born = born PROVE e.at + Dedupe <= t
    <3>1. e.at <= emitted[x]
      BY <2>8 DEF EarsInv, EmittedIsSaid
    <3>2. QED
      BY <1>1, <2>5, <2>6, <3>1
  <2>9. SaidApart'
    <3>. SUFFICES ASSUME NEW e \in said', NEW f \in said',
                         e.text = f.text, e.born = f.born, e # f
                  PROVE  e.at + Dedupe <= f.at \/ f.at + Dedupe <= e.at
      BY DEF SaidApart
    <3>1. CASE e \in said /\ f \in said
      BY <3>1 DEF EarsInv, SaidApart
    <3>2. CASE e = new /\ f \in said
      BY <2>2, <2>8, <3>2
    <3>3. CASE f = new /\ e \in said
      BY <2>2, <2>8, <3>3
    <3>4. QED
      BY <2>1, <3>1, <3>2, <3>3
  <2>10. SaidIsTrue'
    BY <2>1, <2>3 DEF EarsInv, SaidIsTrue
  <2>11. Heard(n)'
    BY <2>1, <2>3 DEF Heard
  <2>12. QED
    BY <2>1, <2>4, <2>7, <2>9, <2>10, <2>11
<1>4. QED
  BY <1>2, <1>3

(* A message in a window is in the child's reach.                          *)
LEMMA WindowIsNear ==
    ASSUME EarsInv, Scan, NEW n \in Air, NEW b \in n.bursts,
           Window(cursor)[1] <= b[1], b[2] <= Window(cursor)[2]
    PROVE  born <= b[1] /\ b[2] <= t /\ t <= b[2] + Reach
PROOF
<1>1. /\ b[1] \in Nat /\ b[2] \in Nat /\ b[1] < b[2] /\ Chunk \in Nat /\ Lag \in Nat
      /\ Frame \in Nat /\ Ahead \in Nat /\ Back \in Nat
      /\ t \in Nat /\ cursor \in Nat /\ begun \in Nat /\ born \in Nat
  BY EarsAssumption DEF EarsInv, EarsTyped
<1>2. begun \in Int /\ cursor + Frame + Ahead - Back \in Int /\ cursor + Frame + Ahead \in Int /\ t \in Int
  BY <1>1
<1>3. /\ Window(cursor)[1] \in Int /\ Window(cursor)[1] >= begun
      /\ Window(cursor)[1] >= cursor + Frame + Ahead - Back
  BY <1>2, MaxOf DEF Window
<1>4. Window(cursor)[2] \in Int /\ Window(cursor)[2] <= t
  BY <1>2, MinOf DEF Window
<1>5. t < cursor + Frame + Chunk /\ born <= begun
  BY DEF EarsInv, KeepsUp, Scan
<1>6. QED
  BY <1>1, <1>3, <1>4, <1>5 DEF Reach

LEMMA DecodedIsNear ==
    ASSUME EarsInv, Scan, NEW x \in Decodable(Window(cursor))
    PROVE  \E n \in Air : x = n.text /\ \E b \in n.bursts : born <= b[1] /\ b[2] <= t /\ t <= b[2] + Reach
PROOF
<1>1. PICK n \in Air : x = n.text /\ \E b \in n.bursts :
                         Window(cursor)[1] <= b[1] /\ b[2] <= Window(cursor)[2]
  BY DEF Decodable
<1>2. QED
  BY <1>1, WindowIsNear

(* A window that is looked at while the cursor is in front of the second   *)
(* burst, and reaches over the first, has this message and no other.       *)
LEMMA WindowHasIt ==
    ASSUME EarsTyped, begun = 0, NEW m \in Air, NEW b \in m.bursts, NEW c \in m.bursts,
           NearBursts(m, b, c), cursor <= c[1], b[2] <= t, b[2] <= cursor + Frame + Ahead
    PROVE  /\ Decodable(Window(cursor)) = {m.text}
           /\ Window(cursor)[1] <= b[1] /\ b[2] <= Window(cursor)[2]
PROOF
<1>. DEFINE w == Window(cursor)
<1>1. /\ b[1] \in Nat /\ b[2] \in Nat /\ c[1] \in Nat /\ c[2] \in Nat
      /\ Frame \in Nat /\ Ahead \in Nat /\ Back \in Nat /\ t \in Nat /\ cursor \in Nat
  BY EarsAssumption DEF EarsTyped
<1>2. /\ w[2] = Min({t, cursor + Frame + Ahead})
      /\ w[1] = Max({0, cursor + Frame + Ahead - Back})
  BY DEF Window
<1>3. w[2] \in Nat /\ b[2] <= w[2] /\ w[2] <= cursor + Frame + Ahead
  <2>1. t \in Int /\ cursor + Frame + Ahead \in Int
    BY <1>1
  <2>2. /\ w[2] = t \/ w[2] = cursor + Frame + Ahead
        /\ w[2] <= cursor + Frame + Ahead
    BY <1>2, <2>1, MinOf
  <2>3. QED
    BY <1>1, <2>2
<1>4. w[1] \in Nat /\ w[1] <= b[1] /\ w[1] >= cursor + Frame + Ahead - Back
  <2>1. 0 \in Int /\ cursor + Frame + Ahead - Back \in Int
    BY <1>1
  <2>2. /\ w[1] = 0 \/ w[1] = cursor + Frame + Ahead - Back
        /\ w[1] >= 0 /\ w[1] >= cursor + Frame + Ahead - Back
    BY <1>2, <2>1, MaxOf
  <2>3. cursor + Frame + Ahead - Back <= b[1]
    BY <1>1 DEF NearBursts
  <2>4. QED
    BY <1>1, <2>1, <2>2, <2>3
<1>. HIDE DEF w
<1>5. m.text \in Decodable(w)
  BY <1>3, <1>4 DEF Decodable
<1>6. ASSUME NEW n \in Air, NEW d \in n.bursts, w[1] <= d[1], d[2] <= w[2]
      PROVE  n = m
  <2>1. d[1] \in Nat /\ d[2] \in Nat
    BY EarsAssumption
  <2>2. d[1] >= b[2] - Back
    BY <1>1, <1>4, <1>6, <2>1
  <2>3. d[2] <= c[1] + Frame + Ahead
    BY <1>1, <1>3, <1>6, <2>1
  <2>4. QED
    BY <1>1, <2>1, <2>2, <2>3 DEF NearBursts
<1>7. \A x \in Decodable(w) : x = m.text
  BY <1>6 DEF Decodable
<1>8. QED
  BY <1>3, <1>4, <1>5, <1>7 DEF w

(* One frame keeps what the child remembers and has printed.               *)
LEMMA ScanSays ==
    ASSUME EarsInv, Scan
    PROVE  /\ EmittedIsSaid' /\ SaidApart' /\ SaidIsTrue'
           /\ said \subseteq said' /\ said' \subseteq EarsEvent /\ emitted' \in [Texts -> Int]
PROOF
<1>1. t' = t /\ born' = born
  BY DEF Scan
<1>2. CASE UNCHANGED heardVars
  BY <1>1, <1>2 DEF heardVars, EarsInv, EarsTyped, EmittedIsSaid, SaidApart, SaidIsTrue
<1>3. CASE \E x \in Decodable(Window(cursor)) : Say(x)
  <2>1. PICK x \in Decodable(Window(cursor)) : Say(x)
    BY <1>3
  <2>2. PICK n \in Air : x = n.text /\ \E b \in n.bursts :
                            born <= b[1] /\ b[2] <= t /\ t <= b[2] + Reach
    BY <2>1, DecodedIsNear
  <2>3. QED
    BY <1>1, <2>1, <2>2, SayKeeps
<1>4. QED
  BY <1>2, <1>3 DEF Scan

LEMMA ScanPasses ==
    ASSUME EarsInv, Scan, breaks = 0, NEW m \in Air, Alone(m),
           NEW b \in m.bursts, NEW c \in m.bursts, NearBursts(m, b, c)
    PROVE  Heard(m)' \/ cursor' <= c[1]
PROOF
<1>1. /\ b[1] \in Nat /\ b[2] \in Nat /\ c[1] \in Nat /\ c[2] \in Nat
      /\ Frame \in Nat /\ Ahead \in Nat /\ t \in Nat /\ cursor \in Nat
  BY EarsAssumption DEF EarsInv, EarsTyped
<1>2. /\ begun = 0 /\ backend = "native" /\ cursor + Frame <= t
      /\ t' = t /\ born' = born
  BY DEF EarsInv, Unbroken, Scan
<1>3. CASE Heard(m)
  BY <1>3, ScanSays DEF Heard
<1>4. CASE ~Heard(m)
  <2>1. cursor <= c[1]
    BY <1>2, <1>4 DEF EarsInv, NotPassed
  <2>2. CASE ~InBurst(cursor) /\ cursor' = cursor + 1
    <3>1. c[1] <= c[1] /\ c[1] + Frame <= c[2]
      BY <1>1 DEF NearBursts
    <3>. cursor # c[1]
      BY <2>2, <3>1 DEF InBurst
    <3>2. QED
      BY <1>1, <2>1, <2>2
  <2>3. CASE /\ cursor' = cursor + Frame + Ahead
             /\ IF Decodable(Window(cursor)) = {} THEN UNCHANGED heardVars
                ELSE \E x \in Decodable(Window(cursor)) : Say(x)
    <3>1. CASE b[2] <= t /\ b[2] <= cursor + Frame + Ahead
      <4>1. /\ Decodable(Window(cursor)) = {m.text}
            /\ Window(cursor)[1] <= b[1] /\ b[2] <= Window(cursor)[2]
        BY <1>2, <2>1, <3>1, WindowHasIt DEF EarsInv
      <4>2. Say(m.text)
        BY <2>3, <4>1
      <4>3. born <= b[1] /\ b[2] <= t /\ t <= b[2] + Reach
        BY <4>1, WindowIsNear
      <4>4. QED
        BY <1>2, <4>2, <4>3, SayKeeps
    <3>2. CASE ~(b[2] <= t /\ b[2] <= cursor + Frame + Ahead)
      BY <1>1, <1>2, <2>3, <3>2 DEF NearBursts
    <3>3. QED
      BY <3>1, <3>2
  <2>4. QED
    BY <2>2, <2>3 DEF Scan
<1>5. QED
  BY <1>3, <1>4

LEMMA EarsUnchanged == EarsInv /\ UNCHANGED earsVars => EarsInv'
PROOF
  BY DEF earsVars, samedecVars, heardVars, EarsInv, EarsTyped, Unbroken, KeepsUp, EmittedIsSaid,
         SaidApart, SaidIsTrue, PendingIsTimely, Timely, NotPassed, FoundIsKept, Heard

(* A step that leaves what is heard alone leaves what is known of it alone. *)
LEMMA NothingSaid ==
    ASSUME EarsInv, UNCHANGED <<emitted, said, born>>, t' \in Nat, t <= t'
    PROVE  /\ EmittedIsSaid' /\ SaidApart' /\ SaidIsTrue'
           /\ said' \subseteq EarsEvent /\ emitted' \in [Texts -> Int]
           /\ \A m \in Air : Heard(m)' <=> Heard(m)
PROOF
<1>1. \A e \in said : e.at \in Nat /\ t \in Nat
  BY DEF EarsInv, EarsTyped, EarsEvent
<1>2. EmittedIsSaid'
  BY <1>1 DEF EarsInv, EmittedIsSaid
<1>3. QED
  BY <1>2 DEF EarsInv, EarsTyped, SaidApart, SaidIsTrue, Heard

(* A new ffmpeg begins where the stream is, with nothing pending.          *)
LEMMA BeginStep ==
    ASSUME EarsInv, NEW p \in Nat, Begin(p), breaks # 0, breaks' = breaks,
           born' \in {born, t + p}
    PROVE  /\ t' \in Nat /\ begun' \in Nat /\ cursor' \in Nat /\ born' \in Nat /\ t <= t'
           /\ found' = {} /\ written' \in Seq(Texts) /\ outBuf' \in Seq(Texts)
           /\ Unbroken' /\ KeepsUp' /\ PendingIsTimely' /\ NotPassed' /\ FoundIsKept'
PROOF
<1>1. /\ t \in Nat /\ born \in Nat /\ born <= t /\ Frame \in Nat \ {0}
  BY EarsAssumption DEF EarsInv, EarsTyped, KeepsUp
<1>2. t' = t + p /\ begun' = t' /\ cursor' = t' /\ child' = "reads"
  BY DEF Begin
<1>3. found' = {} /\ written' = <<>> /\ outBuf' = <<>>
  BY DEF Begin
<1>4. t' \in Nat /\ born' \in Nat /\ born' <= t' /\ t <= t' /\ t' < t' + Frame
  BY <1>1, <1>2
<1>5. KeepsUp'
  BY <1>2, <1>4 DEF KeepsUp
<1>6. Range(<<>>) = {}
  BY DEF Range
<1>7. PendingIsTimely'
  BY <1>3, <1>6 DEF PendingIsTimely
<1>8. Unbroken' /\ NotPassed' /\ FoundIsKept'
  BY DEF Unbroken, NotPassed, FoundIsKept
<1>9. QED
  BY <1>2, <1>3, <1>4, <1>5, <1>7, <1>8

LEMMA ListenerStep == ASSUME EarsInv, Listener PROVE EarsInv'
PROOF
<1>1. CASE ReceiveChunk
  <2>1. PICK n \in 1 .. Chunk : t' = t + n
    BY <1>1 DEF ReceiveChunk
  <2>2. /\ t \in Nat /\ t' \in Nat /\ t <= t' /\ t' <= t + Chunk /\ Chunk \in Nat
        /\ cursor \in Nat /\ Frame \in Nat /\ begun \in Nat /\ born \in Nat /\ Lag \in Nat
    BY <2>1, EarsAssumption DEF EarsInv, EarsTyped
  <2>3. /\ child = "reads" /\ child' = "scans"
        /\ UNCHANGED <<backend, begun, cursor, samedecVars, heardVars, queue, breaks, born, wasted>>
    BY <1>1 DEF ReceiveChunk
  <2>4. UNCHANGED <<emitted, said, born>>
    BY <2>3 DEF heardVars
  <2>5. ASSUME NEW m \in Air, Timely(m) PROVE Timely(m)'
    <3>1. PICK b \in m.bursts : born <= b[1] /\ b[2] <= t /\ t <= b[2] + Lag
      BY <2>2, <2>3, <2>5, EarsAssumption DEF Timely
    <3>2. b[2] \in Nat /\ b[2] <= t' /\ t' <= b[2] + Lag + Chunk
      BY <2>2, <3>1, EarsAssumption
    <3>3. QED
      BY <2>3, <3>1, <3>2 DEF Timely
  <2>6. PendingIsTimely'
    BY <2>3, <2>5 DEF EarsInv, PendingIsTimely, samedecVars
  <2>7. FoundIsKept'
    <3>1. \A m \in Air : Heard(m)' <=> Heard(m)
      BY <2>2, <2>4, NothingSaid
    <3>2. found \subseteq Air
      BY DEF EarsInv, EarsTyped
    <3>3. QED
      BY <2>3, <2>5, <3>1, <3>2 DEF EarsInv, FoundIsKept, samedecVars
  <2>8. KeepsUp'
    <3>1. born <= begun /\ begun <= t /\ (backend = "native" => t < cursor + Frame)
      BY <2>3 DEF EarsInv, KeepsUp
    <3>2. begun <= t' /\ (backend = "native" => t' < cursor + Frame + Chunk)
      BY <2>2, <3>1
    <3>3. QED
      BY <2>3, <3>1, <3>2 DEF KeepsUp
  <2>9. EarsTyped' /\ Unbroken'
    BY <2>2, <2>3 DEF EarsInv, EarsTyped, Unbroken, samedecVars, heardVars
  <2>10. NotPassed'
    BY <2>2, <2>3, <2>4, NothingSaid DEF EarsInv, NotPassed
  <2>11. QED
    BY <2>2, <2>4, <2>6, <2>7, <2>8, <2>9, <2>10, NothingSaid DEF EarsInv
<1>2. CASE StreamEnds
  <2>1. breaks' \in Nat /\ breaks' # 0
    BY <1>2 DEF StreamEnds, Break, EarsInv, EarsTyped
  <2>2. /\ child = "reads" /\ child' \in {"pauses", "drains"}
        /\ UNCHANGED <<backend, t, begun, cursor, samedecVars, heardVars, born>>
    BY <1>2 DEF StreamEnds
  <2>3. PendingIsTimely'
    <3>1. \A m \in Air : Timely(m) => Timely(m)'
      BY <2>2 DEF Timely
    <3>2. QED
      BY <2>2, <3>1 DEF EarsInv, PendingIsTimely, samedecVars
  <2>4. EarsTyped' /\ Unbroken' /\ KeepsUp' /\ NotPassed' /\ FoundIsKept'
    BY <2>1, <2>2 DEF EarsInv, EarsTyped, Unbroken, KeepsUp, NotPassed, FoundIsKept, samedecVars, heardVars
  <2>5. QED
    BY <2>2, <2>3, <2>4 DEF EarsInv, EmittedIsSaid, SaidApart, SaidIsTrue, heardVars
<1>3. CASE Resume
  <2>1. PICK p \in Pauses : Begin(p)
    BY <1>3 DEF Resume
  <2>2. p \in Nat
    BY EarsAssumption
  <2>3. breaks # 0 /\ breaks' = breaks /\ UNCHANGED <<emitted, said, born>>
    BY <1>3 DEF Resume, heardVars, EarsInv, Unbroken
  <2>4. /\ t' \in Nat /\ begun' \in Nat /\ cursor' \in Nat /\ born' \in Nat /\ t <= t'
        /\ found' = {} /\ written' \in Seq(Texts) /\ outBuf' \in Seq(Texts)
        /\ Unbroken' /\ KeepsUp' /\ PendingIsTimely' /\ NotPassed' /\ FoundIsKept'
    BY <2>1, <2>2, <2>3, BeginStep
  <2>5. /\ EmittedIsSaid' /\ SaidApart' /\ SaidIsTrue'
        /\ said' \subseteq EarsEvent /\ emitted' \in [Texts -> Int]
    BY <2>3, <2>4, NothingSaid
  <2>6. EarsTyped'
    BY <2>3, <2>4, <2>5 DEF EarsInv, EarsTyped
  <2>7. QED
    BY <2>4, <2>5, <2>6 DEF EarsInv
<1>4. QED
  BY <1>1, <1>2, <1>3 DEF Listener

LEMMA NativeStep == ASSUME EarsInv, Native PROVE EarsInv'
PROOF
<1>1. CASE Scan
  <2>1. /\ cursor' \in Nat /\ cursor <= cursor' /\ t \in Nat /\ cursor \in Nat
        /\ Frame \in Nat /\ Chunk \in Nat
    BY <1>1, EarsAssumption DEF Scan, EarsInv, EarsTyped
  <2>2. /\ child = "scans" /\ backend = "native"
        /\ UNCHANGED <<backend, t, child, begun, samedecVars, breaks, born>>
    BY <1>1 DEF Scan
  <2>3. /\ EmittedIsSaid' /\ SaidApart' /\ SaidIsTrue'
        /\ said' \subseteq EarsEvent /\ emitted' \in [Texts -> Int]
    BY <1>1, ScanSays
  <2>4. NotPassed'
    <3>1. \A m \in Air : \A b, c \in m.bursts : NearBursts(m, b, c)' <=> NearBursts(m, b, c)
      BY DEF NearBursts
    <3>2. QED
      BY <1>1, <2>2, <3>1, ScanPasses DEF NotPassed
  <2>5. KeepsUp'
    <3>1. born <= begun /\ begun <= t /\ t < cursor + Frame + Chunk
      BY <2>2 DEF EarsInv, KeepsUp
    <3>2. t < cursor' + Frame + Chunk
      <4>. DEFINE next == cursor'
      <4>1. next \in Nat /\ cursor <= next
        BY <2>1
      <4>. HIDE DEF next
      <4>2. t < next + Frame + Chunk
        BY <2>1, <3>1, <4>1
      <4>3. QED
        BY <4>2 DEF next
    <3>3. QED
      BY <2>2, <3>1, <3>2 DEF KeepsUp
  <2>6. EarsTyped' /\ Unbroken' /\ PendingIsTimely' /\ FoundIsKept'
    BY <2>1, <2>2, <2>3 DEF EarsInv, EarsTyped, Unbroken, PendingIsTimely, FoundIsKept, samedecVars
  <2>7. QED
    BY <2>3, <2>4, <2>5, <2>6 DEF EarsInv
<1>2. CASE Scanned
  <2>1. t < cursor + Frame
    BY <1>2, EarsAssumption DEF Scanned, EarsInv, EarsTyped
  <2>2. /\ child' = "reads" /\ backend = "native"
        /\ UNCHANGED <<backend, t, begun, cursor, samedecVars, heardVars, breaks, born>>
    BY <1>2 DEF Scanned
  <2>3. KeepsUp' /\ PendingIsTimely' /\ FoundIsKept' /\ NotPassed'
    BY <2>1, <2>2 DEF EarsInv, KeepsUp, PendingIsTimely, FoundIsKept, NotPassed, Heard, heardVars
  <2>4. EarsTyped' /\ Unbroken' /\ EmittedIsSaid' /\ SaidApart' /\ SaidIsTrue'
    BY <2>2 DEF EarsInv, EarsTyped, Unbroken, EmittedIsSaid, SaidApart, SaidIsTrue, samedecVars, heardVars
  <2>5. QED
    BY <2>3, <2>4 DEF EarsInv
<1>3. QED
  BY <1>1, <1>2 DEF Native

(* samedec's parsing prints what is pending, in time.                      *)
LEMMA ParseStep == ASSUME EarsInv, Parse PROVE EarsInv'
PROOF
<1>1. /\ outBuf # <<>> /\ outBuf' = Tail(outBuf) /\ Say(Head(outBuf))
      /\ child \in {"scans", "drains"} /\ backend = "samedec"
      /\ UNCHANGED <<backend, t, child, begun, cursor, samedec, written, found, breaks, born>>
  BY DEF Parse
<1>2. outBuf \in Seq(Texts) /\ written \in Seq(Texts)
  BY DEF EarsInv, EarsTyped
<1>3. outBuf' \in Seq(Texts) /\ Head(outBuf) \in Range(outBuf)
      /\ Range(outBuf') \subseteq Range(outBuf)
      /\ \A x \in Range(outBuf) : x = Head(outBuf) \/ x \in Range(outBuf')
  <2>1. outBuf' \in Seq(Texts)
    BY <1>1, <1>2
  <2>2. Head(outBuf) = outBuf[1] /\ 1 \in 1 .. Len(outBuf)
    BY <1>1, <1>2
  <2>3. Head(outBuf) \in Range(outBuf)
    BY <1>2, <2>2, InRange
  <2>4. ASSUME NEW x \in Range(outBuf') PROVE x \in Range(outBuf)
    <3>1. PICK i \in 1 .. Len(outBuf') : x = outBuf'[i]
      BY <2>1, InRange
    <3>2. i + 1 \in 1 .. Len(outBuf) /\ outBuf[i + 1] = x
      BY <1>1, <1>2, <3>1
    <3>3. QED
      BY <1>2, <3>2, InRange
  <2>5. QED
    BY <1>1, <1>2, <2>1, <2>3, <2>4, RangeOfTail
<1>4. ASSUME NEW m \in Air, Timely(m)
      PROVE  /\ Timely(m)'
             /\ \E b \in m.bursts : born <= b[1] /\ b[2] <= t /\ t <= b[2] + Reach
  <2>1. PICK b \in m.bursts : /\ born <= b[1] /\ b[2] <= t
                              /\ t <= b[2] + Lag + (IF child = "scans" THEN Chunk ELSE 0)
    BY <1>4 DEF Timely
  <2>2. b[2] \in Nat /\ Lag \in Nat /\ Chunk \in Nat /\ Back \in Nat /\ t \in Nat
    BY EarsAssumption DEF EarsInv, EarsTyped
  <2>3. t <= b[2] + Reach
    <3>1. CASE child = "scans"
      BY <2>1, <2>2, <3>1 DEF Reach
    <3>2. CASE child # "scans"
      BY <2>1, <2>2, <3>2 DEF Reach
    <3>3. QED
      BY <3>1, <3>2
  <2>4. QED
    BY <1>1, <2>1, <2>3 DEF Timely
<1>5. ASSUME NEW m \in Air, m.text = Head(outBuf), Timely(m)
      PROVE  /\ EmittedIsSaid' /\ SaidApart' /\ SaidIsTrue'
             /\ said \subseteq said' /\ said' \subseteq EarsEvent /\ emitted' \in [Texts -> Int]
             /\ Alone(m) => Heard(m)'
  <2>1. PICK b \in m.bursts : born <= b[1] /\ b[2] <= t /\ t <= b[2] + Reach
    BY <1>4, <1>5
  <2>2. QED
    BY <1>1, <1>5, <2>1, SayKeeps
<1>6. \E m \in Air : m.text = Head(outBuf) /\ Timely(m)
  BY <1>1, <1>3 DEF EarsInv, PendingIsTimely
<1>7. /\ EmittedIsSaid' /\ SaidApart' /\ SaidIsTrue'
      /\ said \subseteq said' /\ said' \subseteq EarsEvent /\ emitted' \in [Texts -> Int]
  BY <1>5, <1>6
<1>8. PendingIsTimely'
  BY <1>1, <1>3, <1>4 DEF EarsInv, PendingIsTimely
<1>9. FoundIsKept'
  <2>. SUFFICES ASSUME breaks = 0, NEW m \in found, Alone(m)
                PROVE  Heard(m)' \/ (Timely(m)' /\ m.text \in Range(written) \cup Range(outBuf'))
    BY <1>1 DEF FoundIsKept
  <2>1. m \in Air
    BY DEF EarsInv, EarsTyped
  <2>2. Heard(m) \/ (Timely(m) /\ m.text \in Range(written) \cup Range(outBuf))
    BY <1>1 DEF EarsInv, FoundIsKept
  <2>3. Heard(m) => Heard(m)'
    BY <1>7 DEF Heard
  <2>4. QED
    BY <1>3, <1>4, <1>5, <2>1, <2>2, <2>3
<1>10. EarsTyped' /\ Unbroken' /\ KeepsUp' /\ NotPassed'
  BY <1>1, <1>2, <1>3, <1>7 DEF EarsInv, EarsTyped, Unbroken, KeepsUp, NotPassed
<1>11. QED
  BY <1>7, <1>8, <1>9, <1>10 DEF EarsInv

LEMMA SamedecStep == ASSUME EarsInv, Samedec PROVE EarsInv'
PROOF
<1>1. CASE Write
  <2>1. PICK m \in Air : /\ \E b \in m.bursts : begun <= b[1] /\ b[2] <= t /\ t <= b[2] + Lag
                         /\ found' = found \cup {m} /\ written' = Append(written, m.text)
    BY <1>1 DEF Write
  <2>2. /\ backend = "samedec"
        /\ UNCHANGED <<backend, t, child, begun, cursor, samedec, outBuf, heardVars, breaks, born>>
    BY <1>1 DEF Write
  <2>3. m.text \in Texts
    BY DEF Texts
  <2>4. /\ written' \in Seq(Texts) /\ m.text \in Range(written')
        /\ \A x \in Range(written) : x \in Range(written')
        /\ \A x \in Range(written') : x = m.text \/ x \in Range(written)
    BY <2>1, <2>3, RangeOfAppend DEF EarsInv, EarsTyped
  <2>5. Timely(m)
    <3>1. PICK b \in m.bursts : begun <= b[1] /\ b[2] <= t /\ t <= b[2] + Lag
      BY <2>1
    <3>2. /\ b[1] \in Nat /\ b[2] \in Nat /\ Lag \in Nat /\ Chunk \in Nat
          /\ t \in Nat /\ begun \in Nat /\ born \in Nat /\ born <= begun
      BY EarsAssumption DEF EarsInv, EarsTyped, KeepsUp
    <3>3. born <= b[1] /\ t <= b[2] + Lag + Chunk /\ t <= b[2] + Lag + 0
      BY <3>1, <3>2
    <3>4. QED
      BY <3>1, <3>3 DEF Timely
  <2>6. \A n \in Air : Timely(n)' <=> Timely(n)
    BY <2>2 DEF Timely
  <2>7. PendingIsTimely'
    BY <2>2, <2>4, <2>5, <2>6 DEF EarsInv, PendingIsTimely
  <2>8. FoundIsKept'
    <3>1. \A n \in Air : Heard(n)' <=> Heard(n)
      BY <2>2 DEF Heard, heardVars
    <3>2. found \subseteq Air
      BY DEF EarsInv, EarsTyped
    <3>3. QED
      BY <2>1, <2>2, <2>4, <2>5, <2>6, <3>1, <3>2 DEF EarsInv, FoundIsKept
  <2>9. EarsTyped' /\ Unbroken' /\ KeepsUp' /\ NotPassed'
    BY <2>1, <2>2, <2>4 DEF EarsInv, EarsTyped, Unbroken, KeepsUp, NotPassed, heardVars
  <2>10. QED
    BY <2>2, <2>7, <2>8, <2>9 DEF EarsInv, EmittedIsSaid, SaidApart, SaidIsTrue, heardVars
<1>2. CASE Exit
  <2>1. breaks' \in Nat /\ breaks' # 0
    <3>1. child = "drains" => breaks # 0
      BY DEF EarsInv, Unbroken
    <3>2. QED
      BY <1>2, <3>1 DEF Exit, Break, EarsInv, EarsTyped
  <2>2. UNCHANGED <<backend, t, child, begun, cursor, written, outBuf, found, heardVars, born>>
    BY <1>2 DEF Exit
  <2>3. QED
    BY <2>1, <2>2 DEF EarsInv, EarsTyped, Unbroken, KeepsUp, EmittedIsSaid, SaidApart, SaidIsTrue,
                      PendingIsTimely, Timely, NotPassed, FoundIsKept, heardVars
<1>3. CASE Drain
  <2>1. /\ outBuf' = outBuf \o written /\ written' = <<>>
        /\ child \in {"scans", "drains"} /\ backend = "samedec"
        /\ UNCHANGED <<backend, t, child, begun, cursor, samedec, found, heardVars, breaks, born>>
    BY <1>3 DEF Drain
  <2>2. outBuf \in Seq(Texts) /\ written \in Seq(Texts)
    BY DEF EarsInv, EarsTyped
  <2>3. /\ outBuf' \in Seq(Texts) /\ written' \in Seq(Texts)
        /\ \A x \in Range(outBuf) \cup Range(written) : x \in Range(outBuf')
        /\ \A x \in Range(outBuf') \cup Range(written') : x \in Range(outBuf) \cup Range(written)
    <3>1. Range(<<>>) = {}
      BY DEF Range
    <3>2. ASSUME NEW x \in Range(outBuf \o written) PROVE x \in Range(outBuf) \cup Range(written)
      <4>1. outBuf \o written \in Seq(Texts)
        BY <2>2
      <4>2. PICK i \in 1 .. Len(outBuf \o written) : x = (outBuf \o written)[i]
        BY <4>1, InRange
      <4>3. CASE i <= Len(outBuf)
        <5>1. i \in 1 .. Len(outBuf) /\ x = outBuf[i]
          BY <2>2, <4>2, <4>3
        <5>2. QED
          BY <2>2, <5>1, InRange
      <4>4. CASE i > Len(outBuf)
        <5>1. i - Len(outBuf) \in 1 .. Len(written) /\ x = written[i - Len(outBuf)]
          BY <2>2, <4>2, <4>4
        <5>2. QED
          BY <2>2, <5>1, InRange
      <4>5. QED
        BY <2>2, <4>2, <4>3, <4>4
    <3>3. outBuf \o written \in Seq(Texts) /\ <<>> \in Seq(Texts)
      BY <2>2
    <3>4. QED
      BY <2>1, <2>2, <3>1, <3>2, <3>3, RangeOfJoin
  <2>4. \A m \in Air : Timely(m)' <=> Timely(m)
    BY <2>1 DEF Timely
  <2>5. PendingIsTimely'
    BY <2>1, <2>3, <2>4 DEF EarsInv, PendingIsTimely
  <2>6. FoundIsKept'
    <3>1. \A n \in Air : Heard(n)' <=> Heard(n)
      BY <2>1 DEF Heard, heardVars
    <3>2. found \subseteq Air
      BY DEF EarsInv, EarsTyped
    <3>3. breaks = 0 => child # "reads"
      BY <2>1
    <3>4. QED
      BY <2>1, <2>3, <2>4, <3>1, <3>2, <3>3 DEF EarsInv, FoundIsKept
  <2>7. EarsTyped' /\ Unbroken' /\ KeepsUp' /\ NotPassed'
    BY <2>1, <2>3 DEF EarsInv, EarsTyped, Unbroken, KeepsUp, NotPassed, heardVars
  <2>8. QED
    BY <2>1, <2>5, <2>6, <2>7 DEF EarsInv, EmittedIsSaid, SaidApart, SaidIsTrue, heardVars
<1>4. CASE Parse
  BY <1>4, ParseStep
<1>5. CASE Drained
  <2>1. /\ backend = "samedec" /\ written = <<>> /\ outBuf = <<>> /\ child' = "reads"
        /\ UNCHANGED <<backend, t, begun, cursor, samedecVars, heardVars, breaks, born>>
    BY <1>5 DEF Drained
  <2>2. Range(<<>>) = {}
    BY DEF Range
  <2>3. PendingIsTimely' /\ FoundIsKept'
    BY <2>1, <2>2 DEF EarsInv, PendingIsTimely, FoundIsKept, Heard, samedecVars, heardVars
  <2>4. EarsTyped' /\ Unbroken' /\ KeepsUp' /\ NotPassed'
    BY <2>1 DEF EarsInv, EarsTyped, Unbroken, KeepsUp, NotPassed, samedecVars, heardVars, Drained, Samedec
  <2>5. QED
    BY <2>1, <2>3, <2>4 DEF EarsInv, EmittedIsSaid, SaidApart, SaidIsTrue, heardVars
<1>6. CASE NoticeExit
  <2>1. breaks # 0
    BY <1>6 DEF NoticeExit, EarsInv, Unbroken
  <2>2. /\ child' = "pauses"
        /\ UNCHANGED <<backend, t, begun, cursor, samedecVars, heardVars, breaks, born>>
    BY <1>6 DEF NoticeExit
  <2>3. QED
    BY <2>1, <2>2 DEF EarsInv, EarsTyped, Unbroken, KeepsUp, EmittedIsSaid, SaidApart, SaidIsTrue,
                      PendingIsTimely, NotPassed, FoundIsKept, samedecVars, heardVars
<1>7. QED
  BY <1>1, <1>2, <1>3, <1>4, <1>5, <1>6 DEF Samedec

LEMMA MonitorStep == ASSUME EarsInv, Monitor PROVE EarsInv'
PROOF
<1>1. ASSUME UNCHANGED <<backend, t, child, begun, cursor, samedecVars, emitted, said, breaks, born>>
      PROVE  EarsInv'
  BY <1>1 DEF EarsInv, EarsTyped, Unbroken, KeepsUp, EmittedIsSaid, SaidApart, SaidIsTrue,
              PendingIsTimely, Timely, NotPassed, FoundIsKept, Heard, samedecVars
<1>2. CASE ReadLine \/ Take
  BY <1>1, <1>2 DEF ReadLine, Take, heardVars
<1>3. CASE ChildEnds
  <2>1. breaks' \in Nat /\ breaks' # 0
    BY <1>3 DEF ChildEnds, Break, EarsInv, EarsTyped
  <2>2. /\ child' = "ended"
        /\ UNCHANGED <<backend, t, begun, cursor, samedecVars, heardVars, born>>
    BY <1>3 DEF ChildEnds
  <2>3. QED
    BY <2>1, <2>2 DEF EarsInv, EarsTyped, Unbroken, KeepsUp, EmittedIsSaid, SaidApart, SaidIsTrue,
                      PendingIsTimely, NotPassed, FoundIsKept, samedecVars, heardVars
<1>4. CASE StartChild
  <2>1. /\ Begin(Respawn) /\ born' = t + Respawn /\ emitted' = NeverEmitted /\ said' = said
        /\ breaks' = breaks /\ breaks # 0
    BY <1>4 DEF StartChild, EarsInv, Unbroken
  <2>2. Respawn \in Nat \ {0} /\ Dedupe \in Nat
    BY EarsAssumption
  <2>3. /\ t' \in Nat /\ begun' \in Nat /\ cursor' \in Nat /\ born' \in Nat /\ t <= t'
        /\ found' = {} /\ written' \in Seq(Texts) /\ outBuf' \in Seq(Texts)
        /\ Unbroken' /\ KeepsUp' /\ PendingIsTimely' /\ NotPassed' /\ FoundIsKept'
    BY <2>1, <2>2, BeginStep
  <2>4. /\ t \in Nat /\ born \in Nat /\ born <= t
    BY DEF EarsInv, EarsTyped, KeepsUp
  <2>5. emitted' \in [Texts -> Int] /\ \A x \in Texts : emitted'[x] = -Dedupe
    BY <2>1, <2>2 DEF NeverEmitted
  <2>6. EmittedIsSaid'
    <3>1. ASSUME NEW e \in said PROVE e.born <= born' /\ e.at <= t' /\ e.born # born'
      <4>1. e.born \in Nat /\ e.at \in Nat /\ e.born <= born /\ e.at <= t
        BY DEF EarsInv, EarsTyped, EarsEvent, EmittedIsSaid
      <4>2. QED
        BY <2>1, <2>2, <2>3, <2>4, <4>1
    <3>2. QED
      BY <2>1, <2>5, <3>1 DEF EmittedIsSaid
  <2>7. EarsTyped' /\ SaidApart' /\ SaidIsTrue'
    BY <2>1, <2>3, <2>5 DEF EarsInv, EarsTyped, SaidApart, SaidIsTrue
  <2>8. QED
    BY <2>3, <2>6, <2>7 DEF EarsInv
<1>5. QED
  BY <1>2, <1>3, <1>4 DEF Monitor

LEMMA EarsInitially == EarsInit => EarsInv
PROOF
<1>1. <<>> \in Seq(Texts) /\ Range(<<>>) = {}
  BY DEF Range
<1>2. ASSUME NEW m \in Air, NEW c \in m.bursts PROVE 0 <= c[1]
  BY EarsAssumption
<1>3. 0 < 0 + Frame
  BY EarsAssumption
<1>4. NeverEmitted \in [Texts -> Int] /\ \A x \in Texts : NeverEmitted[x] = -Dedupe
  BY EarsAssumption DEF NeverEmitted
<1>5. SUFFICES ASSUME EarsInit PROVE EarsInv
  OBVIOUS
<1>6. EarsTyped /\ Unbroken /\ KeepsUp
  BY <1>1, <1>3, <1>4, <1>5 DEF EarsInit, EarsTyped, Unbroken, KeepsUp
<1>7. EmittedIsSaid /\ SaidApart /\ SaidIsTrue
  BY <1>4, <1>5 DEF EarsInit, EmittedIsSaid, SaidApart, SaidIsTrue
<1>8. PendingIsTimely /\ NotPassed /\ FoundIsKept
  BY <1>1, <1>2, <1>5 DEF EarsInit, PendingIsTimely, NotPassed, FoundIsKept
<1>9. QED
  BY <1>6, <1>7, <1>8 DEF EarsInv

LEMMA EarsInductive == EarsInv /\ [EarsNext]_earsVars => EarsInv'
PROOF
  BY EarsUnchanged, ListenerStep, NativeStep, SamedecStep, MonitorStep DEF EarsNext

LEMMA EarsInvariance == EarsSpec => []EarsInv
PROOF
  BY EarsInitially, EarsInductive, PTL DEF EarsSpec

(* Whatever is sent, and however often the stream, samedec and children    *)
(* break, every event answers to a message, and a message whose bursts are *)
(* within dedupe_seconds makes one event by one child.                     *)
THEOREM EventsOnce == EarsSpec => []SaidOnce
PROOF
<1>1. EarsInv => SaidOnce
  <2>. SUFFICES ASSUME EarsInv, NEW m \in Air, Brief(m), NEW e \in said, NEW f \in said,
                       Answers(e, m), Answers(f, m), e.born = f.born, e # f
                PROVE  FALSE
    BY DEF EarsInv, SaidIsTrue, SaidOnce
  <2>1. PICK b \in m.bursts : b[2] <= e.at /\ e.at <= b[2] + Reach
    BY DEF Answers
  <2>2. PICK c \in m.bursts : c[2] <= f.at /\ f.at <= c[2] + Reach
    BY DEF Answers
  <2>3. b[2] + Reach < c[2] + Dedupe /\ c[2] + Reach < b[2] + Dedupe
    BY DEF Brief
  <2>4. e.at + Dedupe <= f.at \/ f.at + Dedupe <= e.at
    BY DEF EarsInv, SaidApart, Answers
  <2>5. /\ b[2] \in Nat /\ c[2] \in Nat /\ Reach \in Nat /\ Dedupe \in Nat
        /\ e.at \in Nat /\ f.at \in Nat
    BY EarsAssumption DEF EarsInv, EarsTyped, EarsEvent, Reach
  <2>6. QED
    BY <2>1, <2>2, <2>3, <2>4, <2>5
<1>2. QED
  BY <1>1, EarsInvariance, PTL

(* The native listener prints every message that was sent and has two      *)
(* bursts near enough, wherever the reads cut the stream and whatever noise *)
(* moves its cursor; and of what samedec found nothing is lost.  What was  *)
(* printed of the same text, long enough before, does not keep it back.    *)
THEOREM ShortMessagesHeard == EarsSpec => []ShortIsHeard
PROOF
<1>1. EarsInv => ShortIsHeard
  <2>. SUFFICES ASSUME EarsInv, breaks = 0, child = "reads", NEW m \in Air, Alone(m)
                PROVE  /\ backend = "native" /\ Sent(m) /\ Short(m) => Heard(m)
                       /\ backend = "samedec" /\ m \in found => Heard(m) \/ m.text \in Range(written)
    BY DEF ShortIsHeard
  <2>1. ASSUME backend = "native", Sent(m), Short(m) PROVE Heard(m)
    <3>1. PICK b \in m.bursts, c \in m.bursts : NearBursts(m, b, c)
      BY <2>1 DEF Short, NearBursts
    <3>2. /\ c[1] \in Nat /\ c[2] \in Nat /\ c[1] < c[2] /\ c[2] + Frame + Ahead <= t
          /\ t \in Nat /\ cursor \in Nat /\ Frame \in Nat /\ Ahead \in Nat
      BY <2>1, EarsAssumption DEF Sent, EarsInv, EarsTyped
    <3>3. t < cursor + Frame /\ (Heard(m) \/ cursor <= c[1])
      BY <2>1, <3>1 DEF EarsInv, KeepsUp, NotPassed
    <3>4. QED
      BY <3>2, <3>3
  <2>2. ASSUME backend = "samedec", m \in found
        PROVE  Heard(m) \/ m.text \in Range(written)
    <3>1. Range(<<>>) = {}
      BY DEF Range
    <3>2. QED
      BY <2>2, <3>1 DEF EarsInv, FoundIsKept
  <2>3. QED
    BY <2>1, <2>2
<1>2. QED
  BY <1>1, EarsInvariance, PTL

-----------------------------------------------------------------------------
(* The log on Discord                                                      *)

NoteRow == [hook : Hooks, no : Nat, again : BOOLEAN]

HasNote == drain # "take"

LogTyped ==
    /\ notes \in Seq(NoteRow)
    /\ drain \in {"take", "wait", "post", "refused", "again"}
    /\ HasNote => taken \in NoteRow
    /\ made \in Nat
    /\ posted \in [Hooks -> SUBSET (1 .. made)] /\ lost \subseteq 1 .. made
    /\ \A i \in 1 .. Len(notes) : notes[i].no \in 1 .. made
    /\ HasNote => taken.no \in 1 .. made

Accounted ==
    \A x \in 1 .. made : \/ \E i \in 1 .. Len(notes) : notes[i].no = x
                         \/ HasNote /\ taken.no = x
                         \/ \E h \in Hooks : x \in posted[h]
                         \/ x \in lost

EachOnce ==
    /\ \A i, j \in 1 .. Len(notes) : notes[i].no = notes[j].no => i = j
    /\ HasNote => \A i \in 1 .. Len(notes) : notes[i].no # taken.no
    /\ \A h \in Hooks : \A i \in 1 .. Len(notes) : notes[i].no \notin posted[h]
    /\ HasNote => \A h \in Hooks : taken.no \notin posted[h]

(* A notice that was never refused comes after all others: those that were *)
(* posted, those that were refused, and the one that the task holds.       *)
FreshIsLast ==
    /\ \A i \in 1 .. Len(notes) : ~notes[i].again =>
          /\ \A j \in 1 .. Len(notes) : (j < i \/ notes[j].again) => notes[j].no < notes[i].no
          /\ \A h \in Hooks : \A x \in posted[h] : x < notes[i].no
          /\ HasNote => taken.no < notes[i].no
    /\ HasNote /\ ~taken.again =>
          /\ \A j \in 1 .. Len(notes) : notes[j].again => notes[j].no < taken.no
          /\ \A h \in Hooks : \A x \in posted[h] : x < taken.no

LogInv == LogTyped /\ Accounted /\ EachOnce /\ FreshIsLast /\ ~swapped

LEMMA HooksOfReports == \A e \in Events : HooksOf(e) \subseteq Hooks
PROOF
  BY DiscordAssumption
     DEF HooksOf, ReportKinds, To, AlertAired, AlertUpdated, AlertExpired, AlertPartialTerminal,
         ServiceStarted, CycleRebuilt, SourceHealth, AlertDecision, DedupeEvent, AudioPipeline,
         StationFeedUpdate, ModeChanged, NwwsStall, TrackerLifecycle, ApiAction, LogError, LogWarning

(* A notice at the end of the queue. *)
LEMMA Queued ==
    ASSUME notes \in Seq(NoteRow), NEW n \in NoteRow, notes' = Append(notes, n)
    PROVE  /\ notes' \in Seq(NoteRow)
           /\ Len(notes') = Len(notes) + 1 /\ notes'[Len(notes) + 1] = n
           /\ \A i \in 1 .. Len(notes) : notes'[i] = notes[i]
           /\ \A i \in 1 .. Len(notes') : i = Len(notes) + 1 \/ i \in 1 .. Len(notes)
PROOF
  OBVIOUS

LEMMA ReportStep == ASSUME LogInv, NEW e \in Events, Report(e) PROVE LogInv'
PROOF
<1>1. PICK h \in Hooks : notes' = Append(notes, [hook |-> h, no |-> made + 1, again |-> FALSE])
  BY HooksOfReports DEF Report, Enqueue
<1>. DEFINE n == [hook |-> h, no |-> made + 1, again |-> FALSE]
<1>2. n \in NoteRow /\ n.no = made + 1 /\ ~n.again
  BY DEF NoteRow, LogInv, LogTyped
<1>3. notes' = Append(notes, n)
  BY <1>1
<1>. HIDE DEF n
<1>4. /\ notes' \in Seq(NoteRow)
      /\ Len(notes') = Len(notes) + 1 /\ notes'[Len(notes) + 1] = n
      /\ \A i \in 1 .. Len(notes) : notes'[i] = notes[i]
      /\ \A i \in 1 .. Len(notes') : i = Len(notes) + 1 \/ i \in 1 .. Len(notes)
      /\ Len(notes) \in Nat
  BY <1>2, <1>3, Queued DEF LogInv, LogTyped
<1>5. made' = made + 1 /\ made \in Nat /\ UNCHANGED <<taken, drain, posted, lost, swapped>>
  BY DEF Report, LogInv, LogTyped
<1>6. LogTyped'
  <2>1. posted' \in [Hooks -> SUBSET (1 .. made')] /\ lost' \subseteq 1 .. made'
    BY <1>5 DEF LogInv, LogTyped
  <2>2. \A i \in 1 .. Len(notes') : notes'[i].no \in 1 .. made'
    <3>1. 1 .. made \subseteq 1 .. made' /\ n.no \in 1 .. made'
      BY <1>2, <1>5
    <3>2. QED
      BY <1>4, <3>1 DEF LogInv, LogTyped
  <2>3. HasNote' => taken' \in NoteRow /\ taken'.no \in 1 .. made'
    BY <1>5 DEF LogInv, LogTyped, HasNote
  <2>4. QED
    BY <1>4, <1>5, <2>1, <2>2, <2>3 DEF LogInv, LogTyped
<1>7. Accounted'
  <2>. SUFFICES ASSUME NEW x \in 1 .. made'
                PROVE  \/ \E i \in 1 .. Len(notes') : notes'[i].no = x
                       \/ HasNote /\ taken.no = x
                       \/ \E g \in Hooks : x \in posted[g]
                       \/ x \in lost
    BY <1>5 DEF Accounted, HasNote
  <2>1. CASE x = made + 1
    <3>1. Len(notes) + 1 \in 1 .. Len(notes')
      BY <1>4
    <3>2. QED
      BY <1>2, <1>4, <2>1, <3>1
  <2>2. CASE x \in 1 .. made
    BY <1>4, <2>2 DEF LogInv, Accounted
  <2>3. QED
    BY <1>5, <2>1, <2>2
<1>8. EachOnce'
  <2>1. \A i \in 1 .. Len(notes) : notes[i].no # n.no
    BY <1>2, <1>5 DEF LogInv, LogTyped
  <2>2. \A g \in Hooks : n.no \notin posted[g]
    BY <1>2, <1>5 DEF LogInv, LogTyped
  <2>3. HasNote => taken.no # n.no
    BY <1>2, <1>5 DEF LogInv, LogTyped
  <2>4. \A i, j \in 1 .. Len(notes') : notes'[i].no = notes'[j].no => i = j
    BY <1>4, <2>1 DEF LogInv, EachOnce
  <2>5. HasNote => \A i \in 1 .. Len(notes') : notes'[i].no # taken.no
    BY <1>4, <2>3 DEF LogInv, EachOnce
  <2>6. \A g \in Hooks : \A i \in 1 .. Len(notes') : notes'[i].no \notin posted[g]
    BY <1>4, <2>2 DEF LogInv, EachOnce
  <2>7. QED
    BY <1>5, <2>4, <2>5, <2>6 DEF LogInv, EachOnce, HasNote
<1>9. FreshIsLast'
  <2>1. \A i \in 1 .. Len(notes) : notes[i].no < n.no
    BY <1>2 DEF LogInv, LogTyped
  <2>2. \A g \in Hooks : \A x \in posted[g] : x < n.no
    BY <1>2, <1>5 DEF LogInv, LogTyped
  <2>3. HasNote => taken.no < n.no
    BY <1>2, <1>5 DEF LogInv, LogTyped
  <2>4. QED
    BY <1>2, <1>4, <1>5, <2>1, <2>2, <2>3 DEF LogInv, FreshIsLast, HasNote
<1>10. QED
  BY <1>5, <1>6, <1>7, <1>8, <1>9 DEF LogInv

LEMMA TakeNoteStep == ASSUME LogInv, TakeNote PROVE LogInv'
PROOF
<1>1. /\ notes # <<>> /\ drain = "take" /\ taken' = Head(notes) /\ notes' = Tail(notes)
      /\ drain' \in {"wait", "post"}
      /\ UNCHANGED <<made, posted, lost, swapped>>
  BY DEF TakeNote, Consume
<1>2. /\ notes' \in Seq(NoteRow) /\ Len(notes') = Len(notes) - 1 /\ Len(notes) \in Nat \ {0}
      /\ \A i \in 1 .. Len(notes') : i + 1 \in 1 .. Len(notes) /\ notes'[i] = notes[i + 1]
      /\ 1 \in 1 .. Len(notes) /\ taken' = notes[1] /\ taken' \in NoteRow
      /\ \A i \in 1 .. Len(notes) : i = 1 \/ (i - 1 \in 1 .. Len(notes') /\ notes'[i - 1] = notes[i])
  BY <1>1 DEF LogInv, LogTyped
<1>3. LogTyped'
  BY <1>1, <1>2 DEF LogInv, LogTyped, HasNote
<1>4. Accounted'
  <2>. SUFFICES ASSUME NEW x \in 1 .. made
                PROVE  \/ \E i \in 1 .. Len(notes') : notes'[i].no = x
                       \/ taken'.no = x
                       \/ \E g \in Hooks : x \in posted[g]
                       \/ x \in lost
    BY <1>1 DEF Accounted, HasNote
  <2>1. CASE \E i \in 1 .. Len(notes) : notes[i].no = x
    BY <1>2, <2>1
  <2>2. CASE (\E g \in Hooks : x \in posted[g]) \/ x \in lost
    BY <2>2
  <2>3. QED
    BY <1>1, <2>1, <2>2 DEF LogInv, Accounted, HasNote
<1>5. EachOnce'
  <2>1. \A i, j \in 1 .. Len(notes') : notes'[i].no = notes'[j].no => i + 1 = j + 1
    BY <1>2 DEF LogInv, EachOnce
  <2>2. \A i, j \in 1 .. Len(notes') : notes'[i].no = notes'[j].no => i = j
    BY <1>2, <2>1
  <2>3. \A i \in 1 .. Len(notes') : notes'[i].no # taken'.no
    <3>1. \A i \in 1 .. Len(notes') : i + 1 # 1
      BY <1>2
    <3>2. QED
      BY <1>2, <3>1 DEF LogInv, EachOnce
  <2>4. QED
    BY <1>1, <1>2, <2>2, <2>3 DEF LogInv, EachOnce
<1>6. FreshIsLast'
  <2>1. \A i \in 1 .. Len(notes') : \A j \in 1 .. Len(notes') : j < i => j + 1 < i + 1
    BY <1>2
  <2>2. \A i \in 1 .. Len(notes') : 1 < i + 1
    BY <1>2
  <2>3. QED
    BY <1>1, <1>2, <2>1, <2>2 DEF LogInv, FreshIsLast, HasNote
<1>7. QED
  BY <1>1, <1>3, <1>4, <1>5, <1>6 DEF LogInv

LEMMA PostStep == ASSUME LogInv, NEW answer \in {"ok", "busy", "fails"}, Post(answer) PROVE LogInv'
PROOF
<1>1. drain = "post" /\ UNCHANGED <<notes, made>>
  BY DEF Post
<1>2. CASE answer = "ok"
  <2>1. /\ posted' = [posted EXCEPT ![taken.hook] = @ \cup {taken.no}]
        /\ swapped' = (swapped \/ (~taken.again /\ \E m \in posted[taken.hook] : m > taken.no))
        /\ drain' = "take" /\ UNCHANGED lost
    BY <1>2 DEF Post
  <2>2. taken.hook \in Hooks /\ taken.no \in 1 .. made /\ taken.again \in BOOLEAN
    BY <1>1 DEF LogInv, LogTyped, HasNote, NoteRow
  <2>3. \A h \in Hooks : posted'[h] = IF h = taken.hook THEN posted[h] \cup {taken.no} ELSE posted[h]
    BY <2>1 DEF LogInv, LogTyped
  <2>4. LogTyped'
    BY <1>1, <2>1, <2>2 DEF LogInv, LogTyped, HasNote
  <2>5. Accounted'
    <3>1. \A x : (\E h \in Hooks : x \in posted[h]) => \E h \in Hooks : x \in posted'[h]
      BY <2>3
    <3>2. \E h \in Hooks : taken.no \in posted'[h]
      BY <2>2, <2>3
    <3>3. QED
      BY <1>1, <2>1, <3>1, <3>2 DEF LogInv, Accounted, HasNote
  <2>6. EachOnce'
    BY <1>1, <2>1, <2>2, <2>3 DEF LogInv, EachOnce, HasNote
  <2>7. FreshIsLast'
    BY <1>1, <2>1, <2>2, <2>3 DEF LogInv, FreshIsLast, HasNote
  <2>8. ~swapped'
    <3>1. ~taken.again => \A m \in posted[taken.hook] : m < taken.no /\ m \in Nat /\ taken.no \in Nat
      BY <1>1, <2>2 DEF LogInv, LogTyped, FreshIsLast, HasNote
    <3>2. ~(~taken.again /\ \E m \in posted[taken.hook] : m > taken.no)
      BY <3>1
    <3>3. ~swapped
      BY DEF LogInv
    <3>4. QED
      BY <2>1, <3>2, <3>3
  <2>9. QED
    BY <2>4, <2>5, <2>6, <2>7, <2>8 DEF LogInv
<1>3. CASE answer = "busy"
  BY <1>1, <1>3 DEF Post, LogInv, LogTyped, Accounted, EachOnce, FreshIsLast, HasNote
<1>4. CASE answer = "fails"
  <2>1. lost' = lost \cup {taken.no} /\ drain' = "take" /\ UNCHANGED <<posted, swapped>>
    BY <1>4 DEF Post
  <2>2. taken.no \in 1 .. made
    BY <1>1 DEF LogInv, LogTyped, HasNote
  <2>3. QED
    BY <1>1, <2>1, <2>2 DEF LogInv, LogTyped, Accounted, EachOnce, FreshIsLast, HasNote
<1>5. QED
  BY <1>2, <1>3, <1>4

LEMMA PostAgainStep == ASSUME LogInv, PostAgain PROVE LogInv'
PROOF
<1>. DEFINE n == [taken EXCEPT !.again = TRUE]
<1>1. /\ notes' = Append(notes, n) /\ drain = "again" /\ drain' = "take"
      /\ UNCHANGED <<made, posted, lost, swapped>>
  BY DEF PostAgain, Enqueue
<1>2. n \in NoteRow /\ n.no = taken.no /\ n.again /\ taken.no \in 1 .. made
  BY <1>1 DEF NoteRow, LogInv, LogTyped, HasNote
<1>. HIDE DEF n
<1>3. /\ notes' \in Seq(NoteRow)
      /\ Len(notes') = Len(notes) + 1 /\ notes'[Len(notes) + 1] = n
      /\ \A i \in 1 .. Len(notes) : notes'[i] = notes[i]
      /\ \A i \in 1 .. Len(notes') : i = Len(notes) + 1 \/ i \in 1 .. Len(notes)
      /\ Len(notes) \in Nat
  BY <1>1, <1>2, Queued DEF LogInv, LogTyped
<1>4. LogTyped'
  BY <1>1, <1>2, <1>3 DEF LogInv, LogTyped, HasNote
<1>5. Accounted'
  <2>1. Len(notes) + 1 \in 1 .. Len(notes') /\ \A i \in 1 .. Len(notes) : i \in 1 .. Len(notes')
    BY <1>3
  <2>2. QED
    BY <1>1, <1>2, <1>3, <2>1 DEF LogInv, Accounted, HasNote
<1>6. EachOnce'
  BY <1>1, <1>2, <1>3 DEF LogInv, EachOnce, HasNote
<1>7. FreshIsLast'
  BY <1>1, <1>2, <1>3 DEF LogInv, FreshIsLast, HasNote
<1>8. QED
  BY <1>1, <1>4, <1>5, <1>6, <1>7 DEF LogInv

LEMMA LogInductive == LogInv /\ [DiscordNext]_discordVars => LogInv'
PROOF
<1>. SUFFICES ASSUME LogInv, [DiscordNext]_discordVars PROVE LogInv'
  OBVIOUS
<1>1. ASSUME HasNote' = HasNote, drain' \in {"take", "wait", "post", "refused", "again"},
             UNCHANGED <<notes, taken, made, posted, lost, swapped>>
      PROVE  LogInv'
  BY <1>1 DEF LogInv, LogTyped, Accounted, EachOnce, FreshIsLast
<1>2. CASE Slept
  BY <1>1, <1>2 DEF Slept, HasNote
<1>3. CASE DiscordTick
  BY <1>1, <1>3 DEF DiscordTick, HasNote, LogInv, LogTyped
<1>4. CASE UNCHANGED discordVars
  BY <1>1, <1>4 DEF discordVars, HasNote, LogInv, LogTyped
<1>5. QED
  BY <1>2, <1>3, <1>4, ReportStep, TakeNoteStep, PostStep, PostAgainStep DEF DiscordNext

(* Whatever the webhooks answer, no notice is lost on the way or posted    *)
(* twice, and a webhook gets those it did not refuse in their order.       *)
THEOREM LogIsKept == DiscordSpec => []NotesAreKept
PROOF
<1>1. DiscordInit => LogInv
  BY DEF DiscordInit, LogInv, LogTyped, Accounted, EachOnce, FreshIsLast, HasNote
<1>2. LogInv => NotesAreKept
  <2>. SUFFICES ASSUME LogInv PROVE NotesAreKept
    OBVIOUS
  <2>. DEFINE waiting == {n.no : n \in Range(notes)}
              held == IF drain = "take" THEN {} ELSE {taken.no}
              sentOut == UNION Range(posted)
  <2>1. \A x : x \in waiting <=> \E i \in 1 .. Len(notes) : notes[i].no = x
    BY DEF Range, LogInv, LogTyped
  <2>2. \A x : x \in sentOut <=> \E h \in Hooks : x \in posted[h]
    BY DEF Range, LogInv, LogTyped
  <2>3. \A x : x \in held <=> HasNote /\ taken.no = x
    BY DEF HasNote
  <2>. HIDE DEF waiting, held, sentOut
  <2>4. waiting \cup held \cup sentOut \cup lost = 1 .. made
    <3>1. \A x \in waiting \cup held \cup sentOut \cup lost : x \in 1 .. made
      <4>1. \A h \in Hooks : posted[h] \subseteq 1 .. made
        BY DEF LogInv, LogTyped
      <4>2. \A i \in 1 .. Len(notes) : notes[i].no \in 1 .. made
        BY DEF LogInv, LogTyped
      <4>3. lost \subseteq 1 .. made /\ (HasNote => taken.no \in 1 .. made)
        BY DEF LogInv, LogTyped
      <4>4. \A x \in waiting : x \in 1 .. made
        BY <2>1, <4>2
      <4>5. \A x \in sentOut : x \in 1 .. made
        BY <2>2, <4>1
      <4>6. \A x \in held : x \in 1 .. made
        BY <2>3, <4>3
      <4>7. QED
        BY <4>3, <4>4, <4>5, <4>6
    <3>2. \A x \in 1 .. made : x \in waiting \cup held \cup sentOut \cup lost
      BY <2>1, <2>2, <2>3 DEF LogInv, Accounted
    <3>3. QED
      BY <3>1, <3>2
  <2>5. (waiting \cup held) \cap sentOut = {} /\ waiting \cap held = {}
    BY <2>1, <2>2, <2>3 DEF LogInv, EachOnce
  <2>6. QED
    BY <2>4, <2>5 DEF NotesAreKept, waiting, held, sentOut, LogInv
<1>3. QED
  BY <1>1, <1>2, LogInductive, PTL DEF DiscordSpec

-----------------------------------------------------------------------------
(* The routine programme                                                   *)

Working(k) == work.kind # "none" /\ work.key = k

Abouts == Contexts \cup {NoContext}

Entries == [ready : BOOLEAN, since : Nat, about : Abouts, age : Nat]

Works == [key : Keys, about : Contexts, age : Nat, kind : {"build", "render"}]

ProgrammeTyped ==
    /\ mode \in {"normal", "heightened"} /\ health \in {"normal", "degraded", "detached"}
    /\ store \in [Keys -> Entries]
    /\ cache \in [about : Abouts, age : Nat, keys : SUBSET Keys]
    /\ pending \subseteq Keys /\ IsFiniteSet(pending)
    /\ wake \in BOOLEAN
    /\ phase \in {"cold", "requested", "stale", "asleep"}
    /\ todo \in Seq(Keys)
    /\ work \in Works \cup {NoWork}
    /\ spent \in Nat /\ failures \in Nat

(* Between passes nothing is under way, what is asked for wakes the        *)
(* refresher, and a pass takes its time.                                   *)
Paced ==
    /\ phase = "asleep" => todo = <<>> /\ work = NoWork /\ spent <= TickLen
    /\ phase # "asleep" => spent <= MaxPass
    /\ pending # {} => wake
    /\ \A k \in Keys : store[k].since <= Interval[k]
    /\ work # NoWork => work.age <= CacheTTL + spent

(* How long the products of a stale segment can have been left alone.      *)
Late(k) ==
    IF phase = "cold" \/ (phase = "stale" /\ k \notin Range(todo) /\ ~Working(k)) THEN spent
    ELSE IF phase = "asleep" THEN MaxPass + spent ELSE MaxPass + TickLen + spent

InTime(k) ==
    (failures = 0 /\ (phase = "cold" => k \notin Range(todo) /\ ~Working(k)) /\ store[k].ready) =>
        IF store[k].since < Interval[k]
          THEN store[k].age <= store[k].since + CacheTTL + MaxPass
          ELSE store[k].age <= Interval[k] + CacheTTL + MaxPass + Late(k)

(* The identification and the notice are right, or asked for, or on the    *)
(* way.                                                                    *)
AskedFor(k) == k \in pending \/ (k \in Range(todo) /\ phase \in {"cold", "requested"})

IdSoon ==
    failures = 0 =>
        \/ AskedFor("id")
        \/ Working("id") /\ work.kind = "render" /\ work.about = Context
        \/ ~Working("id") /\ store["id"].ready /\ store["id"].about = Context

NoticeIsTrue ==
    /\ store["health"].ready <=> health # "normal"
    /\ store["health"].ready => store["health"].about.health = health

NoticeSoon ==
    failures = 0 =>
        \/ AskedFor("health")
        \/ Working("health") /\ work.about.health = health
        \/ ~Working("health") /\ NoticeIsTrue

(* A build has the notice if there is something to notice.                 *)
BuildsAreTrue ==
    /\ cache.about # NoContext => ("health" \in cache.keys <=> cache.about.health # "normal")
    /\ Working("health") /\ work.kind = "render" => work.about.health # "normal"
    /\ Working("id") => work.kind = "render"

ProgrammeInv ==
    /\ ProgrammeTyped /\ Paced
    /\ \A k \in Routine : InTime(k)
    /\ IdSoon /\ NoticeSoon /\ BuildsAreTrue

LEMMA OrderIsOfKeys == Order \in Seq(Keys) /\ Range(Order) = Keys
PROOF
<1>1. Order \in Seq(STRING)
  BY ProgrammeAssumption
<1>2. \A i \in 1 .. Len(Order) : Order[i] \in Keys
  BY <1>1, InRange DEF Keys
<1>3. Order \in Seq(Keys)
  BY <1>1, <1>2
<1>4. QED
  BY <1>3 DEF Keys

LEMMA KeysOfNotices ==
    /\ "id" \in Keys /\ "health" \in Keys /\ "status" \in Keys
    /\ "id" \notin Routine /\ "health" \notin Routine /\ Routine \subseteq Keys
    /\ \A k \in Keys : Interval[k] \in Nat \ {0}
    /\ CacheTTL \in Nat /\ TickLen \in Nat \ {0} /\ MaxPass \in Nat
PROOF
  BY ProgrammeAssumption DEF Routine

(* A listing of a set has its elements. *)
LEMMA ListingHasAll ==
    ASSUME NEW S, IsFiniteSet(S), NEW s \in SetToSeqs(S)
    PROVE  s \in Seq(S) /\ Range(s) = S
PROOF
<1>. DEFINE n == Cardinality(S)
<1>1. n \in Nat /\ s \in [1 .. n -> S] /\ \A i, j \in 1 .. n : i # j => s[i] # s[j]
  BY FS_CardinalityType DEF SetToSeqs
<1>2. s \in Injection(1 .. n, S)
  BY <1>1 DEF Injection, IsInjective
<1>3. Cardinality(1 .. n) = n
  BY <1>1, FS_Interval
<1>4. s \in Surjection(1 .. n, S)
  BY <1>2, <1>3, FS_Injection
<1>. HIDE DEF n
<1>5. s \in Seq(S) /\ DOMAIN s = 1 .. n
  BY <1>1
<1>6. \A x \in S : \E i \in 1 .. n : s[i] = x
  BY <1>4 DEF Surjection
<1>7. QED
  BY <1>1, <1>5, <1>6 DEF Range

LEMMA ContextTyped ==
    /\ ProgrammeTyped => Context \in Contexts
    /\ NoContext \notin Contexts /\ NoContext.health = "none"
    /\ \A c \in Contexts : c.health # "none"
    /\ NoWork \notin Works /\ NoWork.kind = "none"
    /\ \A w \in Works : w.kind # "none" /\ w # NoWork
PROOF
  BY DEF ProgrammeTyped, Context, Contexts, NoContext, NoWork, Works

LEMMA NewEntries ==
    ASSUME NEW k \in Keys
    PROVE  /\ Placeholder(k) \in Entries /\ ~Placeholder(k).ready /\ Placeholder(k).since = Interval[k]
           /\ \A c \in Contexts : \A a \in Nat :
                /\ Entry(k, c, a) \in Entries /\ Entry(k, c, a).ready /\ Entry(k, c, a).since = 0
                /\ Entry(k, c, a).about = c /\ (k \in Routine => Entry(k, c, a).age = a)
PROOF
  BY KeysOfNotices DEF Placeholder, Entry, Entries, Abouts

LEMMA BuiltKeys ==
    ASSUME NEW c \in Contexts, NEW up \in SUBSET Routine
    PROVE  /\ Built(c, up) \subseteq Keys
           /\ "health" \in Built(c, up) <=> c.health # "normal"
PROOF
<1>1. Upstream(up) \subseteq up
  BY DEF Upstream, Synopsis, HazardOutlook, StormOutlook, ZoneForecast, CoastalForecast,
         Observations, MarineObservations
<1>2. QED
  BY <1>1, KeysOfNotices DEF Built, Detached

(* What comes of looking at a key: a build or a render about the station   *)
(* as it is, or the segment is taken away.                                 *)
Started(k) ==
    /\ store' = store
    /\ work' \in Works /\ work'.key = k /\ work'.about = Context /\ work'.age <= CacheTTL
    /\ k = "id" => work'.kind = "render"
    /\ k = "health" /\ work'.kind = "render" => health # "normal"

TakenAway(k) ==
    /\ store' = [store EXCEPT ![k] = Placeholder(k)]
    /\ work' = NoWork
    /\ k # "id"
    /\ k = "health" => health = "normal"

LEMMA RefreshMeans ==
    ASSUME ProgrammeInv, NEW k \in Keys, Refresh(k)
    PROVE  Started(k) \/ TakenAway(k)
PROOF
<1>1. Context \in Contexts /\ Context.health = health /\ CacheTTL \in Nat
  BY ContextTyped, KeysOfNotices DEF ProgrammeInv, Context
<1>2. CASE /\ k \in {"id"} \cup (IF Detached(Context) THEN {} ELSE {"status"})
           /\ work' = [key |-> k, about |-> Context, age |-> 0, kind |-> "render"]
           /\ UNCHANGED store
  BY <1>1, <1>2 DEF Started, Works
<1>3. CASE k = "status" /\ Detached(Context) /\ work' = NoWork /\ MarkPlaceholder(k)
  BY <1>3 DEF TakenAway, MarkPlaceholder
<1>4. CASE k \notin {"id", "status"} /\ CacheFits(Context) /\ UseBuild(k, cache)
  <2>1. /\ cache.about = Context /\ cache.age <= CacheTTL /\ cache.age \in Nat
        /\ "health" \in cache.keys <=> health # "normal"
    BY <1>1, <1>4, ContextTyped DEF CacheFits, ProgrammeInv, ProgrammeTyped, BuildsAreTrue
  <2>2. QED
    BY <1>1, <1>4, <2>1 DEF UseBuild, MarkPlaceholder, Started, TakenAway, Works
<1>5. CASE /\ k \notin {"id", "status"}
           /\ work' = [key |-> k, about |-> Context, age |-> 0, kind |-> "build"]
           /\ UNCHANGED store
  BY <1>1, <1>5 DEF Started, Works
<1>6. QED
  BY <1>2, <1>3, <1>4, <1>5 DEF Refresh

LEMMA NoneLeft == Range(<<>>) = {}
PROOF
  BY DEF Range

LEMMA ProgrammeUnchanged == ProgrammeInv /\ UNCHANGED programmeVars => ProgrammeInv'
PROOF
  BY DEF ProgrammeInv, ProgrammeTyped, Paced, InTime, Late, IdSoon, NoticeSoon, NoticeIsTrue,
         BuildsAreTrue, AskedFor, Working, Context, IsFiniteSet, programmeVars, refresherVars

LEMMA FewAreFinite ==
    ASSUME NEW a, NEW b, NEW c
    PROVE  IsFiniteSet({a}) /\ IsFiniteSet({a, b}) /\ IsFiniteSet({a, b, c})
PROOF
<1>1. IsFiniteSet({a}) /\ IsFiniteSet({b}) /\ IsFiniteSet({c})
  BY FS_Singleton
<1>2. IsFiniteSet({a} \cup {b})
  BY <1>1, FS_Union
<1>3. IsFiniteSet(({a} \cup {b}) \cup {c})
  BY <1>1, <1>2, FS_Union
<1>4. {a, b} = {a} \cup {b}
  OBVIOUS
<1>5. {a, b, c} = ({a} \cup {b}) \cup {c}
  OBVIOUS
<1>6. QED
  BY <1>1, <1>2, <1>3, <1>4, <1>5, Zenon

(* Changes of the station: what they make untrue is asked for. *)
LEMMA ChangeKeeps ==
    ASSUME ProgrammeInv, NEW ks \in SUBSET Keys, IsFiniteSet(ks), Trigger(ks),
           UNCHANGED <<store, refresherVars, spent, failures>>,
           mode' \in {"normal", "heightened"}, health' \in {"normal", "degraded", "detached"},
           "id" \in ks \/ (mode' = mode /\ health' = health),
           "health" \in ks \/ health' = health
    PROVE  ProgrammeInv'
PROOF
<1>. USE DEF ProgrammeInv
<1>1. ProgrammeTyped'
  <2>1. IsFiniteSet(pending')
    BY FS_Union DEF Trigger, ProgrammeTyped
  <2>2. QED
    BY <2>1 DEF Trigger, ProgrammeTyped, refresherVars
<1>2. Paced'
  BY DEF Paced, Trigger, refresherVars
<1>3. \A k \in Routine : InTime(k)'
  BY DEF InTime, Late, Working, refresherVars
<1>4. IdSoon'
  BY DEF IdSoon, AskedFor, Working, Context, Trigger, refresherVars
<1>5. NoticeSoon'
  BY DEF NoticeSoon, NoticeIsTrue, AskedFor, Working, Trigger, refresherVars
<1>6. BuildsAreTrue'
  BY DEF BuildsAreTrue, Working, refresherVars
<1>7. QED
  BY <1>1, <1>2, <1>3, <1>4, <1>5, <1>6

LEMMA ModeChangesStep == ASSUME ProgrammeInv, ModeChanges PROVE ProgrammeInv'
PROOF
<1>1. PICK ks \in {{"id"}, {"id", "status"}} : Trigger(ks)
  BY DEF ModeChanges
<1>2. ks = {"id"} \/ ks = {"id", "status"}
  OBVIOUS
<1>3. IsFiniteSet(ks)
  BY <1>2, FewAreFinite
<1>4. ks \subseteq Keys /\ "id" \in ks
  BY <1>2, KeysOfNotices
<1>5. mode' \in {"normal", "heightened"} /\ health' = health
  BY DEF ModeChanges, Contexts
<1>6. QED
  BY <1>1, <1>3, <1>4, <1>5, ChangeKeeps DEF ModeChanges, ProgrammeInv, ProgrammeTyped

LEMMA HealthChangesStep == ASSUME ProgrammeInv, HealthChanges PROVE ProgrammeInv'
PROOF
<1>1. IsFiniteSet({"id", "health", "status"}) /\ {"id", "health", "status"} \subseteq Keys
  BY FewAreFinite, KeysOfNotices
<1>2. health' \in {"normal", "degraded", "detached"} /\ mode' = mode
  BY DEF HealthChanges, Contexts
<1>3. QED
  BY <1>1, <1>2, ChangeKeeps DEF HealthChanges, ProgrammeInv, ProgrammeTyped

LEMMA ProductArrivesStep == ASSUME ProgrammeInv, ProductArrives PROVE ProgrammeInv'
PROOF
<1>1. PICK k \in Routine : Trigger({k})
  BY DEF ProductArrives
<1>2. IsFiniteSet({k}) /\ {k} \subseteq Keys
  BY FewAreFinite, KeysOfNotices
<1>3. QED
  BY <1>1, <1>2, ChangeKeeps DEF ProductArrives, ProgrammeInv, ProgrammeTyped

(* A new process looks at every key. *)
LEMMA ProgrammeRestartStep == ASSUME ProgrammeInv, ProgrammeRestart PROVE ProgrammeInv'
PROOF
<1>. USE DEF ProgrammeInv, ProgrammeRestart
<1>1. ProgrammeTyped'
  BY FS_EmptySet, OrderIsOfKeys DEF ProgrammeTyped, NoCache, Abouts
<1>2. Paced'
  BY KeysOfNotices DEF Paced
<1>3. \A k \in Routine : InTime(k)'
  BY OrderIsOfKeys, KeysOfNotices DEF InTime
<1>4. IdSoon' /\ NoticeSoon'
  BY OrderIsOfKeys, KeysOfNotices DEF IdSoon, NoticeSoon, AskedFor
<1>5. BuildsAreTrue'
  BY DEF BuildsAreTrue, Working, NoWork, NoCache
<1>6. QED
  BY <1>1, <1>2, <1>3, <1>4, <1>5

(* A pass begins: all that was asked for is listed. *)
LEMMA BeginPassKeeps ==
    ASSUME ProgrammeInv, BeginPass, phase \in {"cold", "asleep"}, todo = <<>>, work = NoWork,
           UNCHANGED <<mode, health, store, cache, work, failures>>
    PROVE  ProgrammeInv'
PROOF
<1>. USE DEF ProgrammeInv, BeginPass
<1>1. todo' \in Seq(Keys) /\ Range(todo') = pending
  BY ListingHasAll DEF ProgrammeTyped
<1>2. ProgrammeTyped'
  BY <1>1, FS_EmptySet DEF ProgrammeTyped
<1>3. Paced'
  BY KeysOfNotices DEF Paced
<1>4. ASSUME NEW k \in Routine PROVE InTime(k)'
  <2>1. store[k] \in Entries /\ Interval[k] \in Nat /\ spent \in Nat
    BY KeysOfNotices DEF ProgrammeTyped
  <2>2. Late(k) <= MaxPass + TickLen
    BY <2>1, KeysOfNotices, NoneLeft DEF Late, Working, NoWork, Paced
  <2>3. ~Working(k) /\ k \notin Range(todo)
    BY NoneLeft DEF Working, NoWork
  <2>4. Late(k)' = MaxPass + TickLen /\ Late(k) \in Int
    BY <2>1, KeysOfNotices DEF Late
  <2>5. QED
    BY <2>1, <2>2, <2>3, <2>4, KeysOfNotices DEF InTime, Entries
<1>5. IdSoon' /\ NoticeSoon'
  BY <1>1, NoneLeft DEF IdSoon, NoticeSoon, NoticeIsTrue, AskedFor, Working, Context, NoWork
<1>6. BuildsAreTrue'
  BY DEF BuildsAreTrue, Working
<1>7. QED
  BY <1>2, <1>3, <1>4, <1>5, <1>6

LEMMA WakeUpStep == ASSUME ProgrammeInv, WakeUp PROVE ProgrammeInv'
PROOF
  BY BeginPassKeeps DEF WakeUp, ProgrammeInv, Paced

LEMMA NextPhaseStep == ASSUME ProgrammeInv, NextPhase PROVE ProgrammeInv'
PROOF
<1>. USE DEF ProgrammeInv, NextPhase
<1>0. Range(todo) = {} /\ \A k \in Keys : ~Working(k)
  BY NoneLeft DEF Working, NoWork
<1>1. CASE phase = "cold" /\ BeginPass
  BY <1>1, BeginPassKeeps
<1>2. CASE phase = "requested" /\ phase' = "stale" /\ todo' = Order /\ UNCHANGED <<pending, wake, spent>>
  <2>1. ProgrammeTyped'
    BY <1>2, OrderIsOfKeys DEF ProgrammeTyped
  <2>2. Paced'
    BY <1>2 DEF Paced
  <2>3. \A k \in Routine : InTime(k)'
    BY <1>2, OrderIsOfKeys, KeysOfNotices DEF InTime, Late, Working
  <2>4. IdSoon' /\ NoticeSoon'
    BY <1>0, <1>2, KeysOfNotices DEF IdSoon, NoticeSoon, NoticeIsTrue, AskedFor, Working, Context
  <2>5. BuildsAreTrue'
    BY <1>2 DEF BuildsAreTrue, Working
  <2>6. QED
    BY <2>1, <2>2, <2>3, <2>4, <2>5
<1>3. CASE phase = "stale" /\ phase' = "asleep" /\ spent' = 0 /\ UNCHANGED <<todo, pending, wake>>
  <2>1. ProgrammeTyped'
    BY <1>3 DEF ProgrammeTyped
  <2>2. Paced'
    BY <1>3, KeysOfNotices DEF Paced
  <2>3. ASSUME NEW k \in Routine PROVE InTime(k)'
    <3>1. store[k] \in Entries /\ Interval[k] \in Nat /\ spent \in Nat /\ k \in Keys
      BY KeysOfNotices DEF ProgrammeTyped
    <3>2. Late(k) = spent /\ spent <= MaxPass /\ Late(k)' = MaxPass + 0
      BY <3>1, <1>0, <1>3 DEF Late, Paced
    <3>3. QED
      BY <3>1, <3>2, <1>3, KeysOfNotices DEF InTime, Entries
  <2>4. IdSoon' /\ NoticeSoon'
    BY <1>0, <1>3 DEF IdSoon, NoticeSoon, NoticeIsTrue, AskedFor, Working, Context
  <2>5. BuildsAreTrue'
    BY <1>3 DEF BuildsAreTrue, Working
  <2>6. QED
    BY <2>1, <2>2, <2>3, <2>4, <2>5
<1>4. QED
  BY <1>1, <1>2, <1>3

(* A key that is taken: refreshed, or left alone as it is not stale.       *)
LEMMA TakeKeyStep == ASSUME ProgrammeInv, TakeKey PROVE ProgrammeInv'
PROOF
<1>. USE DEF ProgrammeInv
<1>1. /\ phase # "asleep" /\ work = NoWork /\ todo # <<>> /\ todo \in Seq(Keys)
      /\ UNCHANGED <<mode, health, cache, pending, wake, phase, spent, changes, failures>>
      /\ todo' = Tail(todo)
  BY DEF TakeKey, ProgrammeTyped
<1>2. Head(todo) \in Keys /\ todo' \in Seq(Keys)
  BY <1>1
<1>0. PICK k \in Keys : k = Head(todo)
  BY <1>2
<1>3. \A j \in Range(todo) : j = k \/ j \in Range(todo')
  BY <1>0, <1>1, RangeOfTail
<1>4. \A j \in Range(todo') : j \in Range(todo)
  <2>1. ASSUME NEW i \in 1 .. Len(todo') PROVE todo'[i] \in Range(todo)
    <3>1. i + 1 \in 1 .. Len(todo) /\ todo'[i] = todo[i + 1]
      BY <1>1
    <3>2. QED
      BY <1>1, <3>1, InRange
  <2>2. QED
    BY <1>2, <2>1, InRange
<1>5. \A j \in Keys : ~Working(j)
  BY <1>1 DEF Working, NoWork
<1>6. /\ store \in [Keys -> Entries] /\ spent \in Nat /\ CacheTTL \in Nat /\ MaxPass \in Nat
      /\ TickLen \in Nat /\ \A j \in Keys : Interval[j] \in Nat \ {0}
  BY KeysOfNotices DEF ProgrammeTyped
<1>7. CASE phase = "stale" /\ ~IsStale(k) /\ UNCHANGED <<store, work>>
  <2>1. ProgrammeTyped' /\ Paced'
    BY <1>1, <1>2, <1>7 DEF ProgrammeTyped, Paced
  <2>2. ASSUME NEW j \in Routine PROVE InTime(j)'
    <3>0. j \in Keys /\ store[j] \in Entries /\ Interval[j] \in Nat
      BY <1>6, KeysOfNotices
    <3>1. CASE j = k
      <4>1. store[k].since < Interval[k]
        BY <1>7, <3>0, <3>1 DEF IsStale, Entries
      <4>2. QED
        BY <1>1, <1>7, <3>1, <4>1 DEF InTime
    <3>2. CASE j # k
      <4>1. Late(j)' = Late(j)
        BY <1>1, <1>3, <1>4, <1>7, <3>0, <3>2 DEF Late, Working
      <4>2. QED
        BY <1>1, <1>7, <4>1 DEF InTime
    <3>3. QED
      BY <3>1, <3>2
  <2>3. IdSoon' /\ NoticeSoon'
    BY <1>1, <1>7 DEF IdSoon, NoticeSoon, NoticeIsTrue, AskedFor, Working, Context
  <2>4. BuildsAreTrue'
    BY <1>1, <1>7 DEF BuildsAreTrue, Working
  <2>5. QED
    BY <2>1, <2>2, <2>3, <2>4
<1>8. CASE Started(k)
  <2>1. ProgrammeTyped'
    BY <1>1, <1>2, <1>8 DEF ProgrammeTyped, Started
  <2>2. Paced'
    BY <1>1, <1>6, <1>8 DEF Paced, Started, Works
  <2>0. Working(k)' /\ work'.kind # "none" /\ \A j \in Keys : j # k => ~Working(j)'
    BY <1>8, ContextTyped DEF Started, Working
  <2>3. ASSUME NEW j \in Routine PROVE InTime(j)'
    <3>0. j \in Keys /\ store[j] \in Entries /\ Interval[j] \in Nat
      BY <1>6, KeysOfNotices
    <3>1. CASE j = k
      <4>1. Late(j)' = Late(j) \/ phase = "cold" \/ (phase = "stale" /\ Late(j) = spent /\ Late(j)' = MaxPass + TickLen + spent)
        BY <1>1, <2>0, <3>1 DEF Late
      <4>2. phase' = phase /\ store' = store /\ failures' = failures /\ Late(j) \in Int /\ Late(j)' \in Int
        BY <1>1, <1>6, <1>8 DEF Started, Late
      <4>3. CASE phase = "cold"
        BY <2>0, <3>1, <4>2, <4>3 DEF InTime
      <4>4. CASE phase # "cold"
        BY <1>6, <3>0, <4>1, <4>2, <4>4 DEF InTime, Entries
      <4>5. QED
        BY <4>3, <4>4
    <3>2. CASE j # k
      <4>1. Late(j)' = Late(j) /\ (j \in Range(todo') <=> j \in Range(todo))
        BY <1>1, <1>3, <1>4, <1>5, <2>0, <3>0, <3>2 DEF Late
      <4>2. QED
        BY <1>1, <1>5, <1>8, <2>0, <3>0, <3>2, <4>1 DEF InTime, Started
    <3>3. QED
      BY <3>1, <3>2
  <2>4. IdSoon'
    <3>1. CASE k = "id"
      BY <1>1, <1>8, <2>0, <3>1 DEF IdSoon, Started, Context
    <3>2. CASE k # "id"
      BY <1>1, <1>3, <1>5, <1>8, <2>0, <3>2, KeysOfNotices DEF IdSoon, Started, Context, AskedFor
    <3>3. QED
      BY <3>1, <3>2
  <2>5. NoticeSoon'
    <3>1. CASE k = "health"
      BY <1>1, <1>8, <2>0, <3>1 DEF NoticeSoon, Started, Context
    <3>2. CASE k # "health"
      BY <1>1, <1>3, <1>5, <1>8, <2>0, <3>2, KeysOfNotices DEF NoticeSoon, NoticeIsTrue, Started, AskedFor
    <3>3. QED
      BY <3>1, <3>2
  <2>6. BuildsAreTrue'
    BY <1>1, <1>8, <2>0 DEF BuildsAreTrue, Started, Context, Working
  <2>7. QED
    BY <2>1, <2>2, <2>3, <2>4, <2>5, <2>6
<1>9. CASE TakenAway(k)
  <2>0. /\ Placeholder(k) \in Entries /\ ~Placeholder(k).ready /\ Placeholder(k).since = Interval[k]
        /\ store'[k] = Placeholder(k) /\ \A j \in Keys : j # k => store'[j] = store[j]
        /\ \A j \in Keys : ~Working(j)'
    BY <1>2, <1>6, <1>9, NewEntries DEF TakenAway, Working, NoWork
  <2>1. ProgrammeTyped'
    BY <1>1, <1>2, <1>9, <2>0 DEF ProgrammeTyped, TakenAway
  <2>2. Paced'
    BY <1>1, <1>2, <1>6, <1>9, <2>0 DEF Paced, TakenAway
  <2>3. ASSUME NEW j \in Routine PROVE InTime(j)'
    <3>0. j \in Keys
      BY KeysOfNotices
    <3>1. CASE j = k
      BY <2>0, <3>0, <3>1 DEF InTime
    <3>2. CASE j # k
      <4>1. Late(j)' = Late(j) /\ (j \in Range(todo') <=> j \in Range(todo))
        BY <1>1, <1>3, <1>4, <1>5, <2>0, <3>0, <3>2 DEF Late
      <4>2. QED
        BY <1>1, <1>5, <2>0, <3>0, <3>2, <4>1 DEF InTime
    <3>3. QED
      BY <3>1, <3>2
  <2>4. IdSoon'
    BY <1>1, <1>3, <1>5, <1>9, <2>0, KeysOfNotices DEF IdSoon, TakenAway, Context, AskedFor
  <2>5. NoticeSoon'
    <3>1. CASE k = "health"
      BY <1>1, <1>9, <2>0, <3>1, KeysOfNotices DEF NoticeSoon, NoticeIsTrue, TakenAway
    <3>2. CASE k # "health"
      BY <1>1, <1>3, <1>5, <2>0, <3>2, KeysOfNotices DEF NoticeSoon, NoticeIsTrue, AskedFor
    <3>3. QED
      BY <3>1, <3>2
  <2>6. BuildsAreTrue'
    BY <1>1, <2>0, KeysOfNotices DEF BuildsAreTrue
  <2>7. QED
    BY <2>1, <2>2, <2>3, <2>4, <2>5, <2>6
<1>10. QED
  BY <1>0, <1>7, <1>8, <1>9, RefreshMeans DEF TakeKey

(* The build is in: it has the key that it was made for, or has not.       *)
LEMMA FinishBuildStep == ASSUME ProgrammeInv, FinishBuild PROVE ProgrammeInv'
PROOF
<1>. USE DEF ProgrammeInv
<1>. DEFINE k == work.key
<1>. DEFINE c == work.about
<1>. DEFINE a == work.age
<1>1. PICK up \in SUBSET Routine :
        LET build == [about |-> c, age |-> a, keys |-> Built(c, up)]
        IN  cache' = build /\ UseBuild(k, build)
  BY DEF FinishBuild
<1>2. /\ UNCHANGED <<mode, health, pending, wake, phase, todo, spent, changes, failures>>
      /\ work.kind = "build" /\ work # NoWork /\ work \in Works
      /\ k \in Keys /\ c \in Contexts /\ a \in Nat /\ k # "id" /\ Working(k)
  BY DEF FinishBuild, NoWork, ProgrammeTyped, Works, BuildsAreTrue, Working
<1>3. /\ cache' \in [about : Abouts, age : Nat, keys : SUBSET Keys]
      /\ "health" \in cache'.keys <=> cache'.about.health # "normal"
      /\ cache'.about = c
  BY <1>1, <1>2, BuiltKeys DEF Abouts
<1>. HIDE DEF k, c, a
<1>4. \/ /\ work' = [key |-> k, about |-> c, age |-> a, kind |-> "render"] /\ store' = store
         /\ k = "health" => c.health # "normal"
      \/ /\ work' = NoWork /\ store' = [store EXCEPT ![k] = Placeholder(k)]
         /\ k = "health" => c.health = "normal"
  BY <1>1, <1>3 DEF UseBuild, MarkPlaceholder
<1>5. /\ store \in [Keys -> Entries] /\ spent \in Nat /\ CacheTTL \in Nat
  BY KeysOfNotices DEF ProgrammeTyped
<1>6. CASE /\ work' = [key |-> k, about |-> c, age |-> a, kind |-> "render"] /\ store' = store
           /\ k = "health" => c.health # "normal"
  <2>1. ProgrammeTyped'
    BY <1>2, <1>3, <1>6 DEF ProgrammeTyped, Works
  <2>2. Paced'
    BY <1>2, <1>5, <1>6 DEF Paced, a
  <2>3. \A j \in Keys : Working(j)' <=> Working(j)
    BY <1>2, <1>6 DEF Working, k
  <2>4. \A j \in Routine : InTime(j)'
    BY <1>2, <1>6, <2>3, KeysOfNotices DEF InTime, Late, a
  <2>5. IdSoon'
    BY <1>2, <1>6, <2>3, KeysOfNotices DEF IdSoon, AskedFor, Context, Working, k
  <2>6. NoticeSoon'
    BY <1>2, <1>6, <2>3, KeysOfNotices DEF NoticeSoon, NoticeIsTrue, AskedFor, k, c
  <2>7. BuildsAreTrue'
    BY <1>2, <1>3, <1>6 DEF BuildsAreTrue, Working
  <2>8. QED
    BY <2>1, <2>2, <2>4, <2>5, <2>6, <2>7
<1>7. CASE /\ work' = NoWork /\ store' = [store EXCEPT ![k] = Placeholder(k)]
           /\ k = "health" => c.health = "normal"
  <2>0. /\ Placeholder(k) \in Entries /\ ~Placeholder(k).ready /\ Placeholder(k).since = Interval[k]
        /\ store'[k] = Placeholder(k) /\ \A j \in Keys : j # k => store'[j] = store[j]
        /\ \A j \in Keys : ~Working(j)'
        /\ \A j \in Keys : j # k => ~Working(j)
    BY <1>2, <1>5, <1>7, NewEntries DEF Working, NoWork, k
  <2>1. ProgrammeTyped'
    BY <1>2, <1>3, <1>7, <2>0 DEF ProgrammeTyped
  <2>2. Paced'
    BY <1>2, <1>5, <1>7, <2>0, KeysOfNotices DEF Paced
  <2>3. ASSUME NEW j \in Routine PROVE InTime(j)'
    <3>0. j \in Keys
      BY KeysOfNotices
    <3>1. CASE j = k
      BY <2>0, <3>0, <3>1 DEF InTime
    <3>2. CASE j # k
      <4>1. Late(j)' = Late(j)
        BY <1>2, <2>0, <3>0, <3>2 DEF Late
      <4>2. QED
        BY <1>2, <2>0, <3>0, <3>2, <4>1 DEF InTime
    <3>3. QED
      BY <3>1, <3>2
  <2>4. IdSoon'
    BY <1>2, <2>0, KeysOfNotices DEF IdSoon, AskedFor, Context
  <2>5. NoticeSoon'
    <3>1. CASE k = "health"
      BY <1>2, <1>7, <2>0, <3>1, KeysOfNotices DEF NoticeSoon, NoticeIsTrue, AskedFor, c
    <3>2. CASE k # "health"
      BY <1>2, <2>0, <3>2, KeysOfNotices DEF NoticeSoon, NoticeIsTrue, AskedFor
    <3>3. QED
      BY <3>1, <3>2
  <2>6. BuildsAreTrue'
    BY <1>2, <1>3, <2>0, KeysOfNotices DEF BuildsAreTrue
  <2>7. QED
    BY <2>1, <2>2, <2>3, <2>4, <2>5, <2>6
<1>8. QED
  BY <1>4, <1>6, <1>7

LEMMA RenderedStep == ASSUME ProgrammeInv, Rendered PROVE ProgrammeInv'
PROOF
<1>. USE DEF ProgrammeInv
<1>. DEFINE k == work.key
<1>. DEFINE c == work.about
<1>1. /\ UNCHANGED <<mode, health, cache, pending, wake, phase, todo, spent, changes, failures>>
      /\ work.kind = "render" /\ work # NoWork /\ work \in Works /\ work' = NoWork
      /\ k \in Keys /\ c \in Contexts /\ Working(k) /\ work.age \in Nat
      /\ phase # "asleep" /\ work.age <= CacheTTL + spent /\ spent <= MaxPass
  BY DEF Rendered, NoWork, ProgrammeTyped, Works, Working, Paced
<1>2. /\ store \in [Keys -> Entries] /\ spent \in Nat /\ CacheTTL \in Nat /\ MaxPass \in Nat
      /\ \A j \in Keys : Interval[j] \in Nat \ {0}
  BY KeysOfNotices DEF ProgrammeTyped
<1>3. /\ store'[k] \in Entries /\ store'[k].ready /\ store'[k].since = 0 /\ store'[k].about = c
      /\ k \in Routine => store'[k].age = work.age
      /\ \A j \in Keys : j # k => store'[j] = store[j]
      /\ \A j \in Keys : ~Working(j)'
      /\ \A j \in Keys : j # k => ~Working(j)
      /\ store' \in [Keys -> Entries]
  BY <1>1, <1>2, NewEntries DEF Rendered, Working, NoWork
<1>4. ProgrammeTyped'
  BY <1>1, <1>3 DEF ProgrammeTyped
<1>5. Paced'
  BY <1>1, <1>2, <1>3 DEF Paced
<1>6. ASSUME NEW j \in Routine PROVE InTime(j)'
  <2>0. j \in Keys
    BY KeysOfNotices
  <2>1. CASE j = k
    <3>1. store'[j].age <= store'[j].since + CacheTTL + MaxPass /\ store'[j].since < Interval[j]
      BY <1>1, <1>2, <1>3, <2>0, <2>1
    <3>2. QED
      BY <3>1 DEF InTime
  <2>2. CASE j # k
    <3>1. Late(j)' = Late(j)
      BY <1>1, <1>3, <2>0, <2>2 DEF Late
    <3>2. QED
      BY <1>1, <1>3, <2>0, <2>2, <3>1 DEF InTime
  <2>3. QED
    BY <2>1, <2>2
<1>7. IdSoon'
  <2>1. CASE k = "id"
    BY <1>1, <1>3, <2>1, KeysOfNotices DEF IdSoon, AskedFor, Context, Working
  <2>2. CASE k # "id"
    BY <1>1, <1>3, <2>2, KeysOfNotices DEF IdSoon, AskedFor, Context
  <2>3. QED
    BY <2>1, <2>2
<1>8. NoticeSoon'
  <2>1. CASE k = "health"
    BY <1>1, <1>3, <2>1, KeysOfNotices DEF NoticeSoon, NoticeIsTrue, AskedFor, BuildsAreTrue
  <2>2. CASE k # "health"
    BY <1>1, <1>3, <2>2, KeysOfNotices DEF NoticeSoon, NoticeIsTrue, AskedFor
  <2>3. QED
    BY <2>1, <2>2
<1>9. BuildsAreTrue'
  BY <1>1, <1>3, KeysOfNotices DEF BuildsAreTrue
<1>10. QED
  BY <1>4, <1>5, <1>6, <1>7, <1>8, <1>9

(* After a failure only what is typed and paced is left to keep.           *)
LEMMA WorkFailsStep == ASSUME ProgrammeInv, WorkFails PROVE ProgrammeInv'
PROOF
<1>. USE DEF ProgrammeInv, WorkFails
<1>1. failures' # 0 /\ failures' \in Nat
  BY DEF ProgrammeTyped
<1>2. ProgrammeTyped' /\ Paced'
  BY <1>1 DEF ProgrammeTyped, Paced
<1>3. (\A k \in Routine : InTime(k)') /\ IdSoon' /\ NoticeSoon'
  BY <1>1 DEF InTime, IdSoon, NoticeSoon
<1>4. BuildsAreTrue'
  BY DEF BuildsAreTrue, Working, NoWork
<1>5. QED
  BY <1>2, <1>3, <1>4

(* Time passes: a segment and its products age alike.                      *)
LEMMA ProgrammeTickStep == ASSUME ProgrammeInv, ProgrammeTick PROVE ProgrammeInv'
PROOF
<1>. USE DEF ProgrammeInv
<1>1. /\ store \in [Keys -> Entries] /\ spent \in Nat /\ CacheTTL \in Nat /\ MaxPass \in Nat
      /\ TickLen \in Nat /\ \A k \in Keys : Interval[k] \in Nat \ {0}
  BY KeysOfNotices DEF ProgrammeTyped
<1>2. /\ UNCHANGED <<mode, health, pending, wake, phase, todo, changes, failures>>
      /\ spent' = spent + 1
      /\ work' = IF work = NoWork THEN work ELSE [work EXCEPT !.age = @ + 1]
  BY DEF ProgrammeTick
<1>3. IF phase = "asleep" THEN ~wake /\ spent < TickLen ELSE work # NoWork /\ spent < MaxPass
  BY DEF ProgrammeTick
<1>4. ASSUME NEW k \in Keys
      PROVE  /\ store'[k] \in Entries
             /\ store'[k].ready = store[k].ready /\ store'[k].about = store[k].about
             /\ store'[k].since = IF store[k].since < Interval[k] THEN store[k].since + 1 ELSE store[k].since
             /\ store[k].ready /\ k \in Routine => store'[k].age <= store[k].age + 1
  <2>1. store[k] \in Entries /\ Interval[k] \in Nat
    BY <1>1
  <2>2. Aged(store[k].age, k) \in Nat /\ Aged(store[k].age, k) <= store[k].age + 1
    BY <2>1 DEF Aged, Entries
  <2>. DEFINE since == IF store[k].since < Interval[k] THEN store[k].since + 1 ELSE store[k].since
  <2>. DEFINE age == IF store[k].ready /\ k \in Routine THEN Aged(store[k].age, k) ELSE 0
  <2>3. store'[k] = [store[k] EXCEPT !.since = since, !.age = age]
    BY DEF ProgrammeTick
  <2>4. since \in Nat /\ age \in Nat /\ (store[k].ready /\ k \in Routine => age <= store[k].age + 1)
    BY <2>1, <2>2 DEF Entries
  <2>5. since = IF store[k].since < Interval[k] THEN store[k].since + 1 ELSE store[k].since
    OBVIOUS
  <2>. HIDE DEF since, age
  <2>6. QED
    BY <2>1, <2>3, <2>4, <2>5 DEF Entries
<1>5. store' \in [Keys -> Entries]
  BY <1>4 DEF ProgrammeTick
<1>6. cache' \in [about : Abouts, age : Nat, keys : SUBSET Keys] /\ cache'.about = cache.about /\ cache'.keys = cache.keys
  <2>. DEFINE age == IF cache = NoCache \/ cache.age >= CacheTTL THEN cache.age ELSE cache.age + 1
  <2>1. cache' = [cache EXCEPT !.age = age]
    BY DEF ProgrammeTick
  <2>2. age \in Nat
    BY DEF ProgrammeTyped
  <2>. HIDE DEF age
  <2>3. QED
    BY <2>1, <2>2 DEF ProgrammeTyped
<1>7. /\ work' \in Works \cup {NoWork}
      /\ work' = NoWork <=> work = NoWork
      /\ work # NoWork => work'.age = work.age + 1
      /\ work'.key = work.key /\ work'.about = work.about /\ work'.kind = work.kind
  <2>1. CASE work = NoWork
    BY <1>2, <2>1
  <2>2. CASE work # NoWork
    <3>1. work \in Works /\ work' = [work EXCEPT !.age = @ + 1]
      BY <1>2, <2>2 DEF ProgrammeTyped
    <3>2. work' \in Works /\ work'.age = work.age + 1
          /\ work'.key = work.key /\ work'.about = work.about /\ work'.kind = work.kind
      BY <3>1 DEF Works
    <3>3. QED
      BY <2>2, <3>2, ContextTyped
  <2>3. QED
    BY <2>1, <2>2
<1>8. \A k \in Keys : Working(k)' <=> Working(k)
  BY <1>7 DEF Working
<1>9. ProgrammeTyped'
  BY <1>1, <1>2, <1>5, <1>6, <1>7 DEF ProgrammeTyped
<1>10. Paced'
  <2>1. phase' = "asleep" => todo' = <<>> /\ work' = NoWork /\ spent' <= TickLen
    BY <1>1, <1>2, <1>7, <1>3 DEF Paced
  <2>2. phase' # "asleep" => spent' <= MaxPass
    BY <1>1, <1>2, <1>3
  <2>3. \A k \in Keys : store'[k].since <= Interval[k]
    BY <1>1, <1>4 DEF Paced, Entries
  <2>4. work' # NoWork => work'.age <= CacheTTL + spent'
    BY <1>1, <1>2, <1>7 DEF Paced, ProgrammeTyped, Works
  <2>5. QED
    BY <1>2, <2>1, <2>2, <2>3, <2>4 DEF Paced
<1>11. ASSUME NEW k \in Routine PROVE InTime(k)'
  <2>0. k \in Keys /\ store[k] \in Entries /\ store'[k] \in Entries /\ Interval[k] \in Nat
    BY <1>1, <1>4, KeysOfNotices
  <2>1. Late(k) \in Nat /\ Late(k)' = Late(k) + 1
    BY <1>1, <1>2, <1>8, <2>0 DEF Late
  <2>2. QED
    BY <1>1, <1>2, <1>4, <1>8, <2>0, <2>1 DEF InTime, Entries
<1>12. IdSoon' /\ NoticeSoon'
  BY <1>2, <1>4, <1>7, <1>8, KeysOfNotices DEF IdSoon, NoticeSoon, NoticeIsTrue, AskedFor, Context
<1>13. BuildsAreTrue'
  BY <1>6, <1>7, <1>8, KeysOfNotices DEF BuildsAreTrue
<1>14. QED
  BY <1>9, <1>10, <1>11, <1>12, <1>13

LEMMA ProgrammeInitially == ProgrammeInit => ProgrammeInv
PROOF
<1>. SUFFICES ASSUME ProgrammeInit PROVE ProgrammeInv
  OBVIOUS
<1>1. ProgrammeTyped
  BY FS_EmptySet, OrderIsOfKeys, NewEntries DEF ProgrammeInit, ProgrammeTyped, NoCache, Abouts
<1>2. Paced
  BY NewEntries, KeysOfNotices DEF ProgrammeInit, Paced
<1>3. \A k \in Routine : InTime(k)
  BY OrderIsOfKeys, KeysOfNotices DEF ProgrammeInit, InTime
<1>4. IdSoon /\ NoticeSoon
  BY OrderIsOfKeys, KeysOfNotices DEF ProgrammeInit, IdSoon, NoticeSoon, AskedFor
<1>5. BuildsAreTrue
  BY DEF ProgrammeInit, BuildsAreTrue, Working, NoWork, NoCache
<1>6. QED
  BY <1>1, <1>2, <1>3, <1>4, <1>5 DEF ProgrammeInv

LEMMA ProgrammeInductive == ProgrammeInv /\ [ProgrammeNext]_programmeVars => ProgrammeInv'
PROOF
  BY ProgrammeUnchanged, WakeUpStep, TakeKeyStep, NextPhaseStep, FinishBuildStep, RenderedStep,
     WorkFailsStep, ModeChangesStep, HealthChangesStep, ProductArrivesStep, ProgrammeRestartStep,
     ProgrammeTickStep DEF ProgrammeNext

(* Without failed builds and renders, no routine segment is played that is *)
(* older than its interval and what the refresher needs to notice, and     *)
(* when a pass is done the identification and the notice of lost feeds say *)
(* what the station is in, whatever changed while a build or a render was  *)
(* awaited: for any keys, order and intervals.                             *)
THEOREM ProgrammeStaysCurrent == ProgrammeSpec => []ProgrammeIsCurrent
PROOF
<1>1. ProgrammeInv => ProgrammeIsCurrent
  <2>. SUFFICES ASSUME ProgrammeInv PROVE NothingOutdated /\ NoticesAreCurrent
    BY DEF ProgrammeIsCurrent
  <2>. USE DEF ProgrammeInv
  <2>1. ASSUME failures = 0, phase # "cold", NEW k \in Routine, store[k].ready
        PROVE  store[k].age <= Interval[k] + CacheTTL + TickLen + 3 * MaxPass
    <3>1. /\ store[k] \in Entries /\ spent \in Nat /\ CacheTTL \in Nat /\ MaxPass \in Nat
          /\ TickLen \in Nat /\ Interval[k] \in Nat
      BY KeysOfNotices DEF ProgrammeTyped
    <3>2. Late(k) \in Int /\ Late(k) <= MaxPass + TickLen + MaxPass
      BY <2>1, <3>1 DEF Late, Paced
    <3>3. \/ store[k].since < Interval[k] /\ store[k].age <= store[k].since + CacheTTL + MaxPass
          \/ store[k].age <= Interval[k] + CacheTTL + MaxPass + Late(k)
      BY <2>1 DEF InTime
    <3>4. QED
      BY <3>1, <3>2, <3>3 DEF Entries
  <2>2. ASSUME failures = 0, Quiet PROVE /\ store["id"].ready /\ store["id"].about = Context
                                         /\ NoticeIsTrue
    <3>1. pending = {} /\ \A k \in Keys : ~AskedFor(k) /\ ~Working(k)
      BY <2>2, NoneLeft DEF Quiet, Paced, AskedFor, Working, NoWork
    <3>2. QED
      BY <2>2, <3>1, KeysOfNotices DEF IdSoon, NoticeSoon
  <2>3. QED
    BY <2>1, <2>2 DEF NothingOutdated, NoticesAreCurrent, NoticeIsTrue
<1>2. QED
  BY <1>1, ProgrammeInitially, ProgrammeInductive, PTL DEF ProgrammeSpec

-----------------------------------------------------------------------------
(* The places a product is for                                             *)

Places == {"idle", "next", "zonecounty", "mareas", "service"}

TargetsTyped ==
    /\ zonecounty \in {"unloaded", "empty", "good", "torn"}
    /\ failed \in [Zones -> Nat]
    /\ at \in [Callers -> Places] /\ DOMAIN zones = Callers
    /\ everGood \in BOOLEAN /\ unread \in BOOLEAN

(* The crosswalk is loaded under the lock, and a zone is only looked for   *)
(* elsewhere, or given up, when it was loaded.                             *)
LoadedOnce == lock # "free" => zonecounty = "unloaded"

NoneGivenUp ==
    zonecounty = "unloaded" =>
        /\ refused = {} /\ \A z \in Zones : failed[z] = 0
        /\ \A c \in Callers : at[c] \notin {"mareas", "service"}

(* With a crosswalk that could be read, what is looked for elsewhere or    *)
(* left alone for a while is no zone of it.                                *)
Served == ZonesOf(dbx)

OthersElsewhere ==
    ~unread =>
        /\ zonecounty # "unloaded" => ZonesOf(zonecounty) = Served
        /\ refused \cap Served = {}
        /\ \A z \in Served : failed[z] = 0
        /\ \A c \in Callers : at[c] \in {"mareas", "service"} => Zone(c) \notin Served

LEMMA ServedAreZones == Served \subseteq Forecast /\ Forecast \subseteq Zones
PROOF
  BY TargetsAssumption DEF Served, ZonesOf

TargetsInv ==
    /\ TargetsTyped
    /\ everGood <=> dbx = "good"
    /\ LoadedOnce /\ NoneGivenUp /\ OthersElsewhere

LEMMA LookupStep == ASSUME TargetsInv, NEW c \in Callers, Lookup(c) PROVE TargetsInv'
PROOF
<1>1. /\ UNCHANGED <<mapVars, failed, everGood, unread, receipts, starts>>
      /\ at[c] = "next"
      /\ \/ Found(c) /\ UNCHANGED refused
         \/ failed[Zone(c)] > 0 /\ NotFound(c)
         \/ GoTo(c, "zonecounty") /\ UNCHANGED refused
  BY DEF Lookup
<1>2. CASE Found(c) /\ UNCHANGED refused
  BY <1>1, <1>2 DEF TargetsInv, TargetsTyped, Places, LoadedOnce, NoneGivenUp, OthersElsewhere, Served,
     Found, Done, Zone, mapVars
<1>3. CASE failed[Zone(c)] > 0 /\ NotFound(c)
  <2>1. Forecast \subseteq Zones
    BY TargetsAssumption
  <2>2. ~unread => Zone(c) \notin Served
    BY <1>3 DEF TargetsInv, OthersElsewhere
  <2>3. Zone(c) \in Forecast => zonecounty # "unloaded"
    BY <1>3, <2>1 DEF TargetsInv, NoneGivenUp
  <2>4. QED
    BY <1>1, <1>3, <2>2, <2>3 DEF TargetsInv, TargetsTyped, Places, LoadedOnce, NoneGivenUp, OthersElsewhere, Served,
       NotFound, Done, Zone, mapVars
<1>4. CASE GoTo(c, "zonecounty") /\ UNCHANGED refused
  BY <1>1, <1>4 DEF TargetsInv, TargetsTyped, Places, LoadedOnce, NoneGivenUp, OthersElsewhere, Served,
     GoTo, Zone, mapVars
<1>5. QED
  BY <1>1, <1>2, <1>3, <1>4

LEMMA ConsultStep == ASSUME TargetsInv, NEW c \in Callers, Consult(c) PROVE TargetsInv'
PROOF
<1>1. /\ UNCHANGED <<mapVars, failed, refused, everGood, unread, receipts, starts>>
      /\ at[c] \in {"zonecounty", "mareas"} /\ zonecounty # "unloaded"
      /\ \/ Found(c)
         \/ /\ GoTo(c, "mareas") \/ GoTo(c, "service")
            /\ ~unread => Zone(c) \notin Served
  BY DEF Consult, TargetsInv, TargetsTyped, NoneGivenUp, OthersElsewhere
<1>2. CASE Found(c)
  BY <1>1, <1>2 DEF TargetsInv, TargetsTyped, Places, LoadedOnce, NoneGivenUp, OthersElsewhere, Served,
     Found, Done, Zone, mapVars
<1>3. CASE /\ GoTo(c, "mareas") \/ GoTo(c, "service")
           /\ ~unread => Zone(c) \notin Served
  BY <1>1, <1>3 DEF TargetsInv, TargetsTyped, Places, LoadedOnce, NoneGivenUp, OthersElsewhere, Served,
     GoTo, Zone, mapVars
<1>4. QED
  BY <1>1, <1>2, <1>3

LEMMA AskServiceStep == ASSUME TargetsInv, NEW c \in Callers, AskService(c) PROVE TargetsInv'
PROOF
<1>1. /\ UNCHANGED <<mapVars, everGood, unread, receipts, starts>>
      /\ at[c] = "service" /\ zonecounty # "unloaded"
      /\ ~unread => Zone(c) \notin Served
      /\ \/ Found(c) /\ UNCHANGED <<failed, refused>>
         \/ NotFound(c) /\ failed' = [failed EXCEPT ![Zone(c)] = Backoff]
  BY DEF AskService, TargetsInv, NoneGivenUp, OthersElsewhere
<1>2. CASE Found(c) /\ UNCHANGED <<failed, refused>>
  BY <1>1, <1>2 DEF TargetsInv, TargetsTyped, Places, LoadedOnce, NoneGivenUp, OthersElsewhere, Served,
     Found, Done, Zone, mapVars
<1>3. CASE NotFound(c) /\ failed' = [failed EXCEPT ![Zone(c)] = Backoff]
  <2>1. Backoff \in Nat /\ Forecast \subseteq Zones
    BY TargetsAssumption
  <2>2. failed' \in [Zones -> Nat] /\ \A z \in Zones : z # Zone(c) => failed'[z] = failed[z]
    BY <1>3, <2>1 DEF TargetsInv, TargetsTyped
  <2>3. /\ at' = [at EXCEPT ![c] = "next"] /\ DOMAIN zones' = Callers
        /\ \A d \in Callers : d # c => zones'[d] = zones[d]
        /\ Zone(c) \notin Forecast => refused' = refused
    BY <1>3 DEF NotFound, Done, TargetsInv, TargetsTyped
  <2>4. TargetsTyped'
    BY <1>1, <2>2, <2>3 DEF TargetsInv, TargetsTyped, Places, mapVars
  <2>5. OthersElsewhere'
    <3>1. Served' = Served /\ Served \subseteq Zones
      BY <1>1, ServedAreZones DEF mapVars, Served
    <3>2. ~unread => refused' \cap Served = {}
      BY <1>1, <1>3 DEF TargetsInv, OthersElsewhere, NotFound
    <3>3. QED
      BY <1>1, <2>1, <2>2, <2>3, <3>1, <3>2 DEF TargetsInv, TargetsTyped, OthersElsewhere, Zone, mapVars
  <2>6. QED
    BY <1>1, <2>4, <2>5 DEF TargetsInv, LoadedOnce, NoneGivenUp, mapVars
<1>4. QED
  BY <1>1, <1>2, <1>3

LEMMA ReceiveStep == ASSUME TargetsInv, NEW c \in Callers, Receive(c) PROVE TargetsInv'
PROOF
<1>1. PICK p \in Products : zones' = [zones EXCEPT ![c] = Expand(p)]
  BY DEF Receive
<1>2. DOMAIN zones' = Callers /\ \A d \in Callers : d # c => zones'[d] = zones[d]
  BY <1>1 DEF TargetsInv, TargetsTyped
<1>3. QED
  BY <1>2 DEF Receive, TargetsInv, TargetsTyped, Places, LoadedOnce, NoneGivenUp,
     OthersElsewhere, Served, Zone, mapVars

LEMMA TargetsStep == ASSUME TargetsInv, NEW c \in Callers, Targets(c) PROVE TargetsInv'
PROOF
  BY DEF Targets, TargetsInv, TargetsTyped, Places, LoadedOnce, NoneGivenUp, OthersElsewhere, Served,
         Zone, mapVars

LEMMA LockStep == ASSUME TargetsInv, NEW c \in Callers, LockZonecounty(c) PROVE TargetsInv'
PROOF
  BY DEF LockZonecounty, TargetsInv, TargetsTyped, Places, LoadedOnce, NoneGivenUp, OthersElsewhere, Served,
         Zone, callerVars

(* The map is loaded for the first time in this process: whoever looked    *)
(* for a zone still waits for it.                                          *)
LEMMA LoadStep == ASSUME TargetsInv, NEW c \in Callers, LoadZonecounty(c) PROVE TargetsInv'
PROOF
<1>1. lock # "free"
  BY TargetsAssumption DEF LoadZonecounty
<1>2. /\ refused = {} /\ \A z \in Zones : failed[z] = 0
      /\ \A d \in Callers : at[d] \notin {"mareas", "service"}
  BY <1>1 DEF TargetsInv, LoadedOnce, NoneGivenUp
<1>3. PICK readable \in BOOLEAN :
        /\ zonecounty' = IF dbx' \in {"good", "torn"} /\ readable THEN dbx' ELSE "empty"
        /\ unread' = ~readable
  BY DEF LoadZonecounty
<1>4. dbx' = dbx \/ dbx' \in {"good", "torn"}
  BY DEF LoadZonecounty, TryFetch
<1>5. everGood' \in BOOLEAN /\ (everGood' <=> dbx' = "good")
  BY <1>4 DEF LoadZonecounty, TargetsInv, TargetsTyped
<1>6. /\ Served' \subseteq Zones
      /\ ~unread' => ZonesOf(zonecounty') = Served'
  BY <1>3, TargetsAssumption DEF Served, ZonesOf
<1>7. UNCHANGED <<failed, at, zones, refused>> /\ lock' = "free"
  BY DEF LoadZonecounty, callerVars
<1>8. QED
  BY <1>2, <1>3, <1>5, <1>6, <1>7 DEF TargetsInv, TargetsTyped, LoadedOnce, NoneGivenUp, OthersElsewhere

LEMMA LoadMareasStep == ASSUME TargetsInv, NEW c \in Callers, LoadMareas(c) PROVE TargetsInv'
PROOF
  BY DEF LoadMareas, TargetsInv, TargetsTyped, Places, LoadedOnce, NoneGivenUp, OthersElsewhere, Served,
         Zone, callerVars

LEMMA TargetsTickStep == ASSUME TargetsInv, TargetsTick PROVE TargetsInv'
PROOF
<1>1. failed' \in [Zones -> Nat] /\ \A z \in Zones : failed[z] = 0 => failed'[z] = 0
  BY DEF TargetsTick, TargetsInv, TargetsTyped
<1>2. Served' = Served /\ Served \subseteq Zones
  BY ServedAreZones DEF TargetsTick, mapVars, Served
<1>3. QED
  BY <1>1, <1>2 DEF TargetsTick, TargetsInv, TargetsTyped, Places, LoadedOnce, NoneGivenUp,
     OthersElsewhere, Zone, mapVars, callerVars

LEMMA TargetsRestartStep == ASSUME TargetsInv, TargetsRestart PROVE TargetsInv'
PROOF
<1>1. Served' = Served /\ Served \subseteq Zones
  BY ServedAreZones DEF TargetsRestart, Served
<1>2. QED
  BY <1>1 DEF TargetsRestart, TargetsInv, TargetsTyped, Places, LoadedOnce, NoneGivenUp, OthersElsewhere

LEMMA TargetsInductive == TargetsInv /\ [TargetsNext]_targetVars => TargetsInv'
PROOF
<1>1. TargetsInv /\ UNCHANGED targetVars => TargetsInv'
  BY DEF TargetsInv, TargetsTyped, LoadedOnce, NoneGivenUp, OthersElsewhere, Served, Zone,
         targetVars, mapVars, callerVars
<1>2. QED
  BY <1>1, LookupStep, ConsultStep, AskServiceStep, ReceiveStep, TargetsStep, LockStep, LoadStep,
     LoadMareasStep, TargetsTickStep, TargetsRestartStep DEF TargetsNext

(* Whatever the downloads answer and however the tasks take turns: a good  *)
(* crosswalk gives way to none that does not parse, and while the file can *)
(* be read no zone that it has is given up, for any zones, products and    *)
(* tasks.                                                                  *)
LEMMA CrosswalkIsKept == TargetsSpec => []CrosswalkServes
PROOF
<1>1. TargetsInit => TargetsInv
  <2>1. Forecast \subseteq Zones
    BY TargetsAssumption
  <2>. SUFFICES ASSUME TargetsInit PROVE TargetsInv
    OBVIOUS
  <2>3. /\ zonecounty = "unloaded" /\ lock = "free" /\ failed = [z \in Zones |-> 0]
        /\ at = [c \in Callers |-> "idle"] /\ zones = [c \in Callers |-> <<>>]
        /\ refused = {} /\ unread = FALSE
    BY DEF TargetsInit
  <2>4. everGood = (dbx = "good")
    BY DEF TargetsInit
  <2>5. everGood \in BOOLEAN
    BY <2>4, Zenon
  <2>6. everGood <=> dbx = "good"
    BY <2>4, Zenon
  <2>7. TargetsTyped
    BY <2>3, <2>5 DEF TargetsTyped, Places
  <2>8. QED
    BY <2>1, <2>3, <2>6, <2>7, ServedAreZones DEF TargetsInv, LoadedOnce, NoneGivenUp, OthersElsewhere
<1>2. TargetsInv => CrosswalkServes
  BY DEF TargetsInv, TargetsTyped, OthersElsewhere, Served, CrosswalkServes
<1>3. QED
  BY <1>1, <1>2, TargetsInductive, PTL DEF TargetsSpec

(* The months, in order. *)
LEMMA DaysInOrder ==
    /\ \A m \in DOMAIN Days : m \in Nat /\ Days[m] \in 28 .. 31 /\ DayNo(m, 1) \in Nat
    /\ \A m \in DOMAIN Days : \A d \in 1 .. Days[m] : DayNo(m, d) = DayNo(m, 1) + d - 1
    /\ \A m, n \in DOMAIN Days : m < n => DayNo(m, 1) + Days[m] <= DayNo(n, 1)
    /\ \A m \in DOMAIN Days : m + 1 \in DOMAIN Days => DayNo(m + 1, 1) = DayNo(m, 1) + Days[m]
    /\ DOMAIN Days = 1 .. Len(Days) /\ Len(Days) \in Nat
PROOF
<1>1. Days \in Seq(28 .. 31)
  BY DaysAssumption
<1>2. DOMAIN Days = 1 .. Len(Days) /\ Len(Days) \in Nat /\ \A m \in 1 .. Len(Days) : Days[m] \in 28 .. 31
  BY <1>1
<1>3. QED
  BY <1>2, DaysAssumption

LEMMA SameDay ==
    ASSUME NEW a \in Nat, NEW e \in Int, NEW d \in Int, d = e - a + 1
    PROVE  /\ a + d - 1 = e
           /\ \A b \in Nat, y \in Int : y = b + d - 1 => y - e = b - a
OBVIOUS

LEMMA MonthOfDay ==
    ASSUME NEW m \in DOMAIN Days, NEW e \in Int, DayNo(m, 1) <= e, e < DayNo(m, 1) + Days[m]
    PROVE  MonthOf(e) = m
PROOF
<1>1. ASSUME NEW n \in DOMAIN Days, DayNo(n, 1) <= e, e < DayNo(n, 1) + Days[n] PROVE n = m
  <2>1. m < n => DayNo(m, 1) + Days[m] <= DayNo(n, 1)
    BY DaysInOrder
  <2>2. n < m => DayNo(n, 1) + Days[n] <= DayNo(m, 1)
    BY DaysInOrder
  <2>3. /\ m \in Nat /\ n \in Nat /\ DayNo(m, 1) \in Nat /\ DayNo(n, 1) \in Nat
        /\ Days[m] \in Nat /\ Days[n] \in Nat
    BY DaysInOrder
  <2>4. QED
    BY <1>1, <2>1, <2>2, <2>3
<1>2. QED
  BY <1>1 DEF MonthOf

(* Of the months around, the day of an expiry within a fortnight is        *)
(* closest in the right one: elsewhere it is four weeks away, or more.     *)
LEMMA ClosestIsRight ==
    ASSUME NEW r \in 2 .. Len(Days) - 1, NEW ref \in Int, MonthOf(ref) = r,
           DayNo(r, 1) <= ref, ref < DayNo(r, 1) + Days[r],
           NEW e \in ref - 13 .. ref + 13
    PROVE  Resolve(e - DayNo(MonthOf(e), 1) + 1, ref) = e
PROOF
<1>1. /\ r \in DOMAIN Days /\ r - 1 \in DOMAIN Days /\ r + 1 \in DOMAIN Days /\ (r - 1) + 1 = r
      /\ e \in Int /\ ref \in Int /\ ref - e <= 13 /\ e - ref <= 13
  BY DaysInOrder
<1>2. \E n \in {r, r + 1, r - 1} : DayNo(n, 1) <= e /\ e < DayNo(n, 1) + Days[n]
  <2>0. \A m \in DOMAIN Days : m + 1 \in DOMAIN Days => DayNo(m + 1, 1) = DayNo(m, 1) + Days[m]
    BY DaysInOrder
  <2>1. /\ DayNo(r, 1) = DayNo(r - 1, 1) + Days[r - 1]
        /\ DayNo(r + 1, 1) = DayNo(r, 1) + Days[r]
    BY <1>1, <2>0
  <2>2. /\ Days[r - 1] \in 28 .. 31 /\ Days[r] \in 28 .. 31 /\ Days[r + 1] \in 28 .. 31
        /\ DayNo(r - 1, 1) \in Nat /\ DayNo(r, 1) \in Nat /\ DayNo(r + 1, 1) \in Nat
    BY <1>1, DaysInOrder
  <2>3. CASE e < DayNo(r, 1)
    <3>1. DayNo(r - 1, 1) <= e /\ e < DayNo(r - 1, 1) + Days[r - 1]
      BY <1>1, <2>1, <2>2, <2>3
    <3>2. QED
      BY <3>1
  <2>4. CASE DayNo(r, 1) <= e /\ e < DayNo(r + 1, 1)
    BY <2>1, <2>4
  <2>5. CASE DayNo(r + 1, 1) <= e
    <3>1. e < DayNo(r + 1, 1) + Days[r + 1]
      BY <1>1, <2>1, <2>2, <2>5
    <3>2. QED
      BY <2>5, <3>1
  <2>6. QED
    BY <1>1, <2>2, <2>3, <2>4, <2>5
<1>3. PICK m \in {r, r + 1, r - 1} : DayNo(m, 1) <= e /\ e < DayNo(m, 1) + Days[m]
  BY <1>2
<1>4. m \in DOMAIN Days /\ MonthOf(e) = m
  BY <1>1, <1>3, MonthOfDay
<1>. DEFINE d == e - DayNo(m, 1) + 1
<1>. DEFINE months == {r, r + 1, r - 1} \cap DOMAIN Days
<1>. DEFINE dates == {DayNo(n, d) : n \in {o \in months : d <= Days[o]}}
<1>. DEFINE Apart(x) == IF x < ref THEN ref - x ELSE x - ref
<1>5. d \in Int /\ 1 <= d /\ d <= Days[m] /\ d = e - DayNo(m, 1) + 1
  <2>1. PICK a \in Nat, l \in Nat : a = DayNo(m, 1) /\ l = Days[m]
    BY <1>4, DaysInOrder
  <2>2. a <= e /\ e < a + l
    BY <1>3, <2>1
  <2>3. e - a + 1 \in Int /\ 1 <= e - a + 1 /\ e - a + 1 <= l
    BY <1>1, <2>2
  <2>4. QED
    BY <2>1, <2>3
<1>. HIDE DEF d
<1>6. ASSUME NEW n \in months, d <= Days[n]
      PROVE  DayNo(n, d) \in Int /\ (DayNo(n, d) = e \/ 28 <= DayNo(n, d) - e \/ 28 <= e - DayNo(n, d))
  <2>1. n \in DOMAIN Days /\ d \in 1 .. Days[n]
    BY <1>5, <1>6, DaysInOrder
  <2>2. PICK a \in Nat, b \in Nat, y \in Int : a = DayNo(m, 1) /\ b = DayNo(n, 1) /\ y = DayNo(n, d)
    <3>1. DayNo(n, 1) \in Nat /\ DayNo(m, 1) \in Nat /\ DayNo(n, d) = DayNo(n, 1) + d - 1
      BY <1>4, <2>1, DaysInOrder
    <3>2. QED
      BY <1>5, <3>1
  <2>3. y = b + d - 1 /\ d = e - a + 1
    BY <1>5, <2>1, <2>2, DaysInOrder
  <2>4. y - e = b - a
    <3>1. e \in Int /\ d \in Int
      BY <1>1, <1>5
    <3>2. QED
      BY <2>3, <3>1, SameDay
  <2>5. /\ m < n => a + Days[m] <= b
        /\ n < m => b + Days[n] <= a
        /\ m \in Nat /\ n \in Nat /\ Days[m] \in 28 .. 31 /\ Days[n] \in 28 .. 31
    BY <1>4, <2>1, <2>2, DaysInOrder
  <2>6. y = e \/ 28 <= y - e \/ 28 <= e - y
    <3>1. m < n => 28 <= b - a
      BY <2>5
    <3>2. n < m => 28 <= a - b
      BY <2>5
    <3>3. n = m => b = a
      BY <2>2
    <3>4. e - y = a - b /\ (b = a => y = e)
      BY <1>1, <2>4
    <3>5. QED
      BY <2>4, <2>5, <3>1, <3>2, <3>3, <3>4
  <2>7. QED
    BY <2>2, <2>6
<1>7. e \in dates
  <2>1. m \in months /\ DayNo(m, d) = DayNo(m, 1) + d - 1
    BY <1>3, <1>4, <1>5, DaysInOrder
  <2>2. DayNo(m, 1) + d - 1 = e
    <3>1. PICK a \in Nat : a = DayNo(m, 1)
      BY <1>4, DaysInOrder
    <3>2. d = e - a + 1
      BY <1>5, <3>1
    <3>3. QED
      BY <1>5, <3>1, <3>2, SameDay
  <2>3. QED
    BY <1>5, <2>1, <2>2
<1>8. \A x \in dates : x \in Int /\ (x = e \/ 28 <= x - e \/ 28 <= e - x)
  BY <1>6
<1>. HIDE DEF dates, months
<1>9. ASSUME NEW x \in dates PROVE Apart(e) <= Apart(x) /\ (Apart(x) <= Apart(e) => x = e)
  <2>1. x \in Int /\ (x = e \/ 28 <= x - e \/ 28 <= e - x)
    BY <1>8
  <2>2. Apart(e) \in Int /\ Apart(e) <= 13
    BY <1>1
  <2>3. CASE x = e
    BY <2>2, <2>3
  <2>4. CASE x # e
    <3>1. 14 <= Apart(x)
      BY <1>1, <2>1, <2>4
    <3>2. Apart(x) \in Int
      BY <1>1, <2>1
    <3>. HIDE DEF Apart
    <3>3. QED
      BY <2>2, <3>1, <3>2
  <2>5. QED
    BY <2>3, <2>4
<1>10. (CHOOSE x \in dates : \A y \in dates : Apart(x) <= Apart(y)) = e
  <2>1. \A x \in dates : (\A y \in dates : Apart(x) <= Apart(y)) <=> x = e
    BY <1>7, <1>9
  <2>. HIDE DEF Apart
  <2>2. QED
    BY <1>7, <2>1
<1>11. Resolve(d, ref) = CHOOSE x \in dates : \A y \in dates : Apart(x) <= Apart(y)
  BY DEF Resolve, dates, months
<1>12. QED
  BY <1>4, <1>10, <1>11 DEF d

(* An expiry within a fortnight of the product is found, over the ends of  *)
(* months and years (resolve_ugc_expires), for any calendar.               *)
LEMMA ExpiriesAreFound == ExpiryResolved
PROOF
<1>. SUFFICES ASSUME NEW m \in 2 .. Len(Days) - 1, NEW d \in 1 .. Days[m],
                     NEW e \in DayNo(m, d) - 13 .. DayNo(m, d) + 13
              PROVE  Resolve(e - DayNo(MonthOf(e), 1) + 1, DayNo(m, d)) = e
  BY DEF ExpiryResolved
<1>1. /\ m \in DOMAIN Days /\ DayNo(m, d) = DayNo(m, 1) + d - 1 /\ DayNo(m, 1) \in Nat
      /\ Days[m] \in Nat
  BY DaysInOrder
<1>2. DayNo(m, d) \in Int /\ DayNo(m, 1) <= DayNo(m, d) /\ DayNo(m, d) < DayNo(m, 1) + Days[m]
  BY <1>1
<1>3. MonthOf(DayNo(m, d)) = m
  BY <1>1, <1>2, MonthOfDay
<1>4. QED
  BY <1>2, <1>3, ClosestIsRight

(* The crosswalk is kept, and products expire when they say.               *)
THEOREM TargetsAreFound == TargetsSpec => []TargetsHold
PROOF
<1>1. CrosswalkServes => TargetsHold
  BY ExpiriesAreFound DEF TargetsHold
<1>2. QED
  BY <1>1, CrosswalkIsKept, PTL

-----------------------------------------------------------------------------
(* Public notices                                                          *)

(* The last moment of month m, and one more.                               *)
MonthEnd(m) == MonthStart[m] + DayLen * Months[m]

LEMMA MonthsInOrder ==
    /\ \A m \in DOMAIN Months : m \in Nat /\ MonthStart[m] \in Int /\ MonthEnd(m) \in Int
                                /\ MonthStart[m] < MonthEnd(m)
    /\ \A m, o \in DOMAIN Months : m < o => MonthEnd(m) <= MonthStart[o]
    /\ \A m, o \in DOMAIN Months : m + 1 = o => MonthEnd(m) = MonthStart[o]
    /\ \A m, o \in DOMAIN Months : \A p \in Nat : m < p /\ p < o => p \in DOMAIN Months
PROOF
<1>1. DOMAIN Months = 1 .. Len(Months) /\ Len(Months) \in Nat
  BY CalendarAssumption
<1>2. ASSUME NEW m \in DOMAIN Months PROVE DayLen * Months[m] \in Nat /\ DayLen * Months[m] > 0
  <2>1. Months[m] \in Nat \ {0} /\ DayLen \in Nat \ {0}
    BY CalendarAssumption, NoticesAssumption
  <2>2. QED
    BY <2>1
<1>3. \A m \in DOMAIN Months : MonthStart[m] \in Int
  BY CalendarAssumption
<1>4. \A m, o \in DOMAIN Months :
        m < o => MonthEnd(m) <= MonthStart[o] /\ (o = m + 1 => MonthEnd(m) = MonthStart[o])
  BY CalendarAssumption DEF MonthEnd
<1>5. \A m \in DOMAIN Months : MonthEnd(m) \in Int /\ MonthStart[m] < MonthEnd(m)
  BY <1>2, <1>3 DEF MonthEnd
<1>6. QED
  BY <1>1, <1>3, <1>4, <1>5

LEMMA MonthOfTime ==
    ASSUME NEW n \in Notices, NEW u \in {Text[n].at, Text[n].until}
    PROVE  /\ InMonth(u) \in DOMAIN Months
           /\ MonthStart[InMonth(u)] <= u /\ u < MonthEnd(InMonth(u))
PROOF
<1>1. \E m \in DOMAIN Months : MonthStart[m] <= u /\ u < MonthStart[m] + DayLen * Months[m]
  BY CalendarAssumption
<1>2. QED
  BY <1>1 DEF InMonth, MonthEnd

(* The day of the month by which a code gives the end of a statement is    *)
(* found again, in this month or the next.                                 *)
LEMMA EndIsFound ==
    ASSUME NEW n \in Notices
    PROVE  UgcExpiry(Code(Text[n].until), Text[n].at) = Text[n].until
PROOF
<1>. DEFINE a == Text[n].at
<1>. DEFINE u == Text[n].until
<1>. DEFINE i == InMonth(a)
<1>. DEFINE j == InMonth(u)
<1>. DEFINE code == Code(u)
<1>. DEFINE months == {o \in DOMAIN Months : Distance(o, i) <= 1 /\ code < DayLen * Months[o]}
<1>. DEFINE times == {MonthStart[m] + code : m \in months}
<1>. DEFINE future == {s \in times : s >= a}
<1>1. a \in Nat /\ u \in Nat /\ a <= u /\ \A m \in DOMAIN Months : u - a < MonthEnd(m) - MonthStart[m]
  <2>1. a \in Nat /\ u \in Nat /\ a <= u /\ \A m \in DOMAIN Months : u - a < DayLen * Months[m]
    BY CalendarAssumption, NoticesAssumption
  <2>2. ASSUME NEW m \in DOMAIN Months PROVE MonthEnd(m) - MonthStart[m] = DayLen * Months[m]
    <3>1. DayLen * Months[m] \in Int /\ MonthStart[m] \in Int
      BY CalendarAssumption, NoticesAssumption
    <3>2. QED
      BY <3>1 DEF MonthEnd
  <2>3. QED
    BY <2>1, <2>2
<1>2. /\ i \in DOMAIN Months /\ MonthStart[i] <= a /\ a < MonthEnd(i)
      /\ j \in DOMAIN Months /\ MonthStart[j] <= u /\ u < MonthEnd(j)
  BY MonthOfTime
<1>3. code = u - MonthStart[j]
  BY DEF Code
<1>4. \A o \in DOMAIN Months : code < DayLen * Months[o] <=> MonthStart[o] + code < MonthEnd(o)
  <2>. SUFFICES ASSUME NEW o \in DOMAIN Months
                PROVE  code < DayLen * Months[o] <=> MonthStart[o] + code < MonthEnd(o)
    OBVIOUS
  <2>1. DayLen * Months[o] \in Int
    BY CalendarAssumption, NoticesAssumption
  <2>. HIDE DEF u, i, j, code
  <2>2. MonthStart[o] \in Int /\ code \in Int
    BY <1>1, <1>2, <1>3, MonthsInOrder
  <2>3. QED
    BY <2>1, <2>2 DEF MonthEnd
<1>. HIDE DEF a, u, i, j, code
<1>5. i \in Nat /\ j \in Nat /\ (j = i \/ j = i + 1)
  <2>1. i \in Nat /\ j \in Nat
    BY <1>2, MonthsInOrder
  <2>2. ~(j < i)
    BY <1>1, <1>2, MonthsInOrder
  <2>3. ~(i + 1 < j)
    <3>1. SUFFICES ASSUME i + 1 < j PROVE FALSE
      OBVIOUS
    <3>2. i + 1 \in DOMAIN Months
      BY <1>2, <2>1, <3>1, MonthsInOrder
    <3>3. MonthEnd(i) = MonthStart[i + 1] /\ MonthEnd(i + 1) <= MonthStart[j]
      BY <1>2, <2>1, <3>1, <3>2, MonthsInOrder
    <3>4. QED
      BY <1>1, <1>2, <3>2, <3>3, MonthsInOrder
  <2>4. QED
    BY <2>1, <2>2, <2>3
<1>6. u \in future
  <2>1. Distance(j, i) <= 1
    BY <1>5 DEF Distance
  <2>2. MonthStart[j] \in Int /\ MonthStart[j] + code = u
    BY <1>1, <1>2, <1>3, MonthsInOrder
  <2>3. j \in months
    BY <1>2, <1>4, <2>1, <2>2
  <2>4. QED
    BY <1>1, <2>2, <2>3
<1>7. ASSUME NEW s \in future PROVE s \in Int /\ u <= s
  <2>1. PICK m \in months : s = MonthStart[m] + code
    OBVIOUS
  <2>2. m \in DOMAIN Months /\ m \in Nat /\ s < MonthEnd(m) /\ MonthStart[m] \in Int /\ code \in Int
    BY <1>1, <1>2, <1>3, <1>4, <2>1, MonthsInOrder
  <2>3. m + 1 = i \/ m = i \/ m = i + 1
    <3>1. Distance(m, i) <= 1
      OBVIOUS
    <3>2. QED
      BY <1>5, <2>2, <3>1 DEF Distance
  <2>4. s >= a /\ s \in Int
    BY <2>1, <2>2
  <2>5. CASE m + 1 = i
    BY <1>1, <1>2, <2>2, <2>4, <2>5, MonthsInOrder
  <2>6. CASE m = j
    BY <1>1, <1>3, <2>1, <2>2, <2>6
  <2>7. CASE m = i /\ j = i + 1
    <3>1. MonthStart[j] = MonthEnd(i) /\ MonthEnd(i) \in Int
      BY <1>2, <2>7, MonthsInOrder
    <3>2. u = s + (MonthEnd(i) - MonthStart[i])
      BY <1>1, <1>3, <2>1, <2>2, <2>7, <3>1
    <3>3. u - a < MonthEnd(i) - MonthStart[i]
      BY <1>1, <1>2
    <3>4. QED
      BY <1>1, <2>2, <2>4, <2>7, <3>1, <3>2, <3>3
  <2>8. CASE m = i + 1 /\ j = i
    BY <1>1, <1>2, <1>3, <2>1, <2>2, <2>4, <2>8, MonthsInOrder
  <2>9. QED
    BY <1>5, <2>3, <2>5, <2>6, <2>7, <2>8
<1>8. Nearest(future, a) = u
  <2>1. \A s \in future : Distance(s, a) = s - a
    BY <1>1, <1>7 DEF Distance
  <2>2. \A s \in future : Distance(u, a) <= Distance(s, a)
    BY <1>1, <1>6, <1>7, <2>1
  <2>3. \A s \in future : s # u => ~(Distance(s, a) <= Distance(u, a))
    BY <1>1, <1>6, <1>7, <2>1
  <2>. HIDE DEF future
  <2>4. QED
    BY <1>6, <2>2, <2>3 DEF Nearest
<1>9. UgcExpiry(code, a) = Nearest(IF future = {} THEN times ELSE future, a)
  BY DEF UgcExpiry, i
<1>10. QED
  BY <1>6, <1>8, <1>9 DEF a, u, code

Offered(n) == \E m \in Notices \ {n} : /\ Text[m].office = Text[n].office
                                       /\ Distance(Text[n].at, Text[m].at) <= Tolerance

(* The API has statements of the office that is asked, a key is reserved   *)
(* for a statement that came into the tracker, and the properties.         *)
NoticesInv ==
    /\ handled \subseteq Notices
    /\ latest \in [Range(Offices) -> SUBSET Notices]
    /\ \A o \in Range(Offices) : \A m \in latest[o] : Text[m].office = o
    /\ \A r \in reserved : r[1] \in announced
    /\ \A n \in due \ announced : Offered(n)
    /\ \A e \in entries : e.notice \in Notices
    /\ NoneIsProlonged

LEMMA TrueEnd ==
    ASSUME NEW n \in Notices, NEW fallback \in {Undated, Text[n].at}, Audio(n, fallback, now)
    PROVE  Expiry(n, Issued(n, fallback), now) =
             IF Text[n].coded THEN Text[n].until ELSE Text[n].at + Default
PROOF
<1>1. Issued(n, fallback) # Undated
  BY DEF Audio, Fresh
<1>2. Issued(n, fallback) = Text[n].at
  BY <1>1 DEF Issued
<1>3. QED
  BY <1>1, <1>2, EndIsFound DEF Expiry

(* What a decision to speak does: the statement is among those announced,  *)
(* and its entry ends when it does.                                        *)
LEMMA QueueSpeaks ==
    ASSUME NoticesInv, NEW n \in Notices, NEW source, NEW fallback \in {Undated, Text[n].at},
           Queue(n, source, fallback)
    PROVE  /\ announced \subseteq announced'
           /\ Audio(n, fallback, now) => n \in announced'
           /\ \A r \in reserved' : r[1] \in announced'
           /\ \A e \in entries' : e.notice \in Notices
           /\ NoneIsProlonged'
PROOF
<1>1. Key(n, source)[1] = n
  BY DEF Key
<1>2. CASE Audio(n, fallback, now) /\ Key(n, source) \notin reserved
  <2>1. /\ reserved' = reserved \cup {Key(n, source)} /\ announced' = announced \cup {n}
        /\ entries' = {e \in entries : e.key # Key(n, source)}
                        \cup {[key |-> Key(n, source), notice |-> n,
                               expires |-> Expiry(n, Issued(n, fallback), now)]}
    BY <1>2 DEF Queue
  <2>2. ASSUME NEW e \in entries'
        PROVE  /\ e.notice \in Notices
               /\ e.expires = IF Text[e.notice].coded THEN Text[e.notice].until
                              ELSE Text[e.notice].at + Default
    <3>1. CASE e \in entries
      BY <3>1 DEF NoticesInv, NoneIsProlonged
    <3>2. CASE e = [key |-> Key(n, source), notice |-> n,
                    expires |-> Expiry(n, Issued(n, fallback), now)]
      BY <1>2, <3>2, TrueEnd
    <3>3. QED
      BY <2>1, <3>1, <3>2
  <2>3. NoneIsProlonged'
    BY <2>2 DEF NoneIsProlonged
  <2>4. \A r \in reserved' : r[1] \in announced'
    BY <1>1, <2>1 DEF NoticesInv
  <2>5. QED
    BY <2>1, <2>2, <2>3, <2>4
<1>3. CASE ~(Audio(n, fallback, now) /\ Key(n, source) \notin reserved)
  <2>1. UNCHANGED <<reserved, entries, announced>>
    BY <1>3 DEF Queue
  <2>2. Audio(n, fallback, now) => n \in announced
    BY <1>1, <1>3 DEF NoticesInv
  <2>3. QED
    BY <2>1, <2>2 DEF NoticesInv, NoneIsProlonged
<1>4. QED
  BY <1>2, <1>3

(* The text of the wire is replaced by one of the API that passes for it.  *)
LEMMA HandleStep ==
    ASSUME NoticesInv, NEW n \in Notices, NEW answers \in BOOLEAN, Handle(n, answers)
    PROVE  NoticesInv'
PROOF
<1>. DEFINE other == IF answers THEN {m \in latest[Text[n].office] : SameIssuance(n, m)} ELSE {}
<1>1. /\ UNCHANGED <<now, coming, latest, offices>> /\ handled' = {}
      /\ due' = IF Audio(n, Undated, now) THEN due \cup {n} ELSE due
      /\ \/ other = {} /\ Queue(n, "wire", Undated)
         \/ \E m \in other : Queue(m, "api", Undated)
  BY DEF Handle
<1>2. Text[n].office \in Range(Offices)
  BY NoticesAssumption
<1>3. PICK m \in Notices, source \in {"wire", "api"} :
        /\ Queue(m, source, Undated)
        /\ m # n => Text[m].office = Text[n].office /\ Distance(Text[n].at, Text[m].at) <= Tolerance
  <2>1. CASE other = {} /\ Queue(n, "wire", Undated)
    BY <2>1
  <2>2. ASSUME NEW m \in other, Queue(m, "api", Undated)
        PROVE  m \in Notices /\ Text[m].office = Text[n].office
               /\ Distance(Text[n].at, Text[m].at) <= Tolerance
    BY <1>2 DEF NoticesInv, SameIssuance
  <2>3. QED
    BY <1>1, <2>1, <2>2
<1>4. /\ announced \subseteq announced'
      /\ Audio(m, Undated, now) => m \in announced'
      /\ \A r \in reserved' : r[1] \in announced'
      /\ \A e \in entries' : e.notice \in Notices
      /\ NoneIsProlonged'
  BY <1>3, QueueSpeaks
<1>5. Audio(n, Undated, now) => n \in announced' \/ Offered(n)
  BY <1>3, <1>4 DEF Offered
<1>6. \A x \in due' \ announced' : Offered(x)
  BY <1>1, <1>4, <1>5 DEF NoticesInv
<1>7. QED
  BY <1>1, <1>4, <1>6 DEF NoticesInv

LEMMA BackfillStep ==
    ASSUME NoticesInv, offices \in Seq(Range(Offices)), NEW answers \in BOOLEAN, Backfill(answers)
    PROVE  NoticesInv'
PROOF
<1>1. /\ UNCHANGED <<now, coming, handled, latest>> /\ Head(offices) \in Range(Offices)
      /\ \/ UNCHANGED <<reserved, entries, announced, due>>
         \/ \E m \in latest[Head(offices)] :
              /\ Queue(m, "api", Text[m].at)
              /\ due' = IF Audio(m, Text[m].at, now) THEN due \cup {m} ELSE due
  BY DEF Backfill
<1>2. CASE UNCHANGED <<reserved, entries, announced, due>>
  BY <1>1, <1>2 DEF NoticesInv, NoneIsProlonged
<1>3. ASSUME NEW m \in latest[Head(offices)], Queue(m, "api", Text[m].at),
             due' = IF Audio(m, Text[m].at, now) THEN due \cup {m} ELSE due
      PROVE  NoticesInv'
  <2>1. m \in Notices
    BY <1>1 DEF NoticesInv
  <2>2. /\ announced \subseteq announced'
        /\ Audio(m, Text[m].at, now) => m \in announced'
        /\ \A r \in reserved' : r[1] \in announced'
        /\ \A e \in entries' : e.notice \in Notices
        /\ NoneIsProlonged'
    BY <1>3, <2>1, QueueSpeaks
  <2>3. \A x \in due' \ announced' : Offered(x)
    BY <1>3, <2>2 DEF NoticesInv
  <2>4. QED
    BY <1>1, <2>2, <2>3 DEF NoticesInv
<1>4. QED
  BY <1>1, <1>2, <1>3

OfficesInv == offices \in Seq(Range(Offices))

LEMMA OfficesAreListed == Offices \in Seq(Range(Offices))
PROOF
<1>1. Offices \in Seq(STRING)
  BY NoticesAssumption
<1>2. \A i \in 1 .. Len(Offices) : Offices[i] \in Range(Offices)
  BY <1>1, InRange
<1>3. QED
  BY <1>1, <1>2

LEMMA PublishStep ==
    ASSUME NoticesInv, NEW n \in Notices, Publish(n)
    PROVE  NoticesInv'
PROOF
<1>1. Text[n].office \in Range(Offices)
  BY NoticesAssumption
<1>2. latest' = [latest EXCEPT ![Text[n].office] = {n}]
      /\ UNCHANGED <<handled, reserved, entries, due, announced>>
  BY DEF Publish
<1>3. QED
  BY <1>1, <1>2 DEF NoticesInv, NoneIsProlonged

LEMMA NoticesInductive ==
    NoticesInv /\ OfficesInv /\ [NoticesNext]_noticeVars => NoticesInv' /\ OfficesInv'
PROOF
<1>. SUFFICES ASSUME NoticesInv, OfficesInv, [NoticesNext]_noticeVars
              PROVE  NoticesInv' /\ OfficesInv'
  OBVIOUS
<1>1. OfficesInv'
  <2>1. CASE \E b \in BOOLEAN : Backfill(b)
    BY <2>1 DEF OfficesInv, Backfill
  <2>2. CASE offices' \in {offices, Offices, <<>>}
    <3>1. \A q \in {offices, Offices, <<>>} : q \in Seq(Range(Offices))
      <4>1. <<>> \in Seq(Range(Offices))
        OBVIOUS
      <4>2. QED
        BY <4>1, OfficesAreListed, Zenon DEF OfficesInv
    <3>2. QED
      BY <2>2, <3>1, Zenon DEF OfficesInv
  <2>3. CASE \E n \in Notices : \/ Publish(n)
                                \/ \E b \in BOOLEAN : Deliver(n, b) \/ Handle(n, b)
    BY <2>2, <2>3 DEF Publish, Deliver, Handle
  <2>4. CASE BeginBackfill \/ NoticesTick \/ NoticesRestart
    BY <2>2, <2>4 DEF BeginBackfill, NoticesTick, NoticesRestart
  <2>5. CASE UNCHANGED noticeVars
    BY <2>2, <2>5 DEF noticeVars
  <2>6. QED
    BY <2>1, <2>3, <2>4, <2>5 DEF NoticesNext
<1>2. ASSUME NEW n \in Notices, NEW b \in BOOLEAN, Publish(n) \/ Deliver(n, b) \/ Handle(n, b)
      PROVE  NoticesInv'
  <2>1. CASE Deliver(n, b)
    BY <2>1 DEF Deliver, NoticesInv, NoneIsProlonged
  <2>2. QED
    BY <1>2, <2>1, PublishStep, HandleStep
<1>3. CASE \E b \in BOOLEAN : Backfill(b)
  BY <1>1, <1>3, BackfillStep DEF OfficesInv
<1>4. CASE BeginBackfill
  BY <1>1, <1>4 DEF BeginBackfill, NoticesInv, NoneIsProlonged
<1>5. CASE NoticesTick
  BY <1>1, <1>5 DEF NoticesTick, NoticesInv, NoneIsProlonged
<1>6. CASE NoticesRestart
  BY <1>1, <1>6 DEF NoticesRestart, NoticesInv, NoneIsProlonged
<1>7. CASE UNCHANGED noticeVars
  BY <1>1, <1>7 DEF NoticesInv, NoneIsProlonged, noticeVars
<1>8. QED
  BY <1>1, <1>2, <1>3, <1>4, <1>5, <1>6, <1>7 DEF NoticesNext

(* For any statements, offices, subtypes and calendar: a statement that was *)
(* fit to be spoken when it came is announced, unless another of its office *)
(* passes for it, and an entry ends when its statement does, whichever of  *)
(* the wire, the API and the loop brought it, and however often.           *)
THEOREM NoticesAreHeard == NoticesSpec => []NoticesHold
PROOF
<1>1. NoticesInit => NoticesInv /\ OfficesInv
  <2>. SUFFICES ASSUME NoticesInit PROVE NoticesInv /\ OfficesInv
    OBVIOUS
  <2>1. latest = [o \in Range(Offices) |-> {}] /\ handled = {} /\ offices = <<>>
        /\ reserved = {} /\ entries = {} /\ due = {}
    BY DEF NoticesInit
  <2>2. QED
    BY <2>1 DEF NoticesInv, OfficesInv, NoneIsProlonged
<1>2. NoticesInv => NoticesHold
  BY DEF NoticesInv, NoticesHold, FitIsSpoken, Offered
<1>3. QED
  BY <1>1, <1>2, NoticesInductive, PTL DEF NoticesSpec

-----------------------------------------------------------------------------
(* The client of Liquidsoap                                                *)

(* What is found in the help of a script to push with leads to the planes  *)
(* that the script has for the kinds.                                      *)
NamesAreTrue ==
    \A s \in Scripts : \A i \in Planes :
        LET prefix == PlanePrefixes(Range(s.help))[i]
            own == IF i <= Len(s.planes) THEN i ELSE Len(s.planes)
        IN  {p \in DOMAIN s.planes : prefix \in s.planes[p]} = {own}

(* The cycle is flushed by the safe reset only.                            *)
OnlySafeResets == \A c \in Calls : c.does # "flush"

Requests == [kind : Planes, sure : BOOLEAN]

TelnetTyped ==
    /\ script \in Scripts
    /\ line \in [Planes -> Seq(Requests)]
    /\ sure \in BOOLEAN
    /\ DOMAIN threads = Threads
    /\ \A i \in Threads : threads[i].plane \in Planes /\ threads[i].does # "flush"
    /\ \A i \in Threads : threads[i].step = "send" => threads[i].does \in {"push", "reset", "status"}
    /\ \A i \in Threads : threads[i].step = "ensure" => threads[i].does \in {"push", "reset", "status"}

(* What was discovered, from whatever part of a help: commands to push     *)
(* with, and the reset and the status if the script has them.              *)
CommandsTyped ==
    \A f \in commands :
        /\ \A i \in Planes : f.push[i].verb \in {"push", "push_b64"}
        /\ f.reset \subseteq {Reset} /\ f.status \subseteq {Status}

(* What is sure is what the script that runs has.                          *)
SureIsKnown == sure => commands \subseteq {Discovered(Range(script.help))}

TelnetInv == TelnetTyped /\ CommandsTyped /\ SureIsKnown /\ PushesArrive /\ skips = {}

LEMMA WholeHelp == ASSUME NEW s \in Scripts PROVE Answer(s, Len(s.help)) = Range(s.help)
PROOF
<1>1. s.help \in Seq(Range(s.help))
  BY TelnetAssumption
<1>2. SubSeq(s.help, 1, Len(s.help)) = s.help
  BY <1>1
<1>3. QED
  BY <1>2 DEF Answer

LEMMA DiscoveredTyped ==
    ASSUME NEW cmds
    PROVE  LET f == Discovered(cmds)
           IN  /\ \A i \in Planes : /\ f.push[i].verb \in {"push", "push_b64"}
                                    /\ f.push[i].prefix = PlanePrefixes(cmds)[i]
               /\ f.reset \subseteq {Reset} /\ f.status \subseteq {Status}
PROOF
  BY DEF Discovered, Command, PushVerb, Planes

(* The plane that a request gets to is the own one if it is sure.          *)
LEMMA OwnPlane ==
    ASSUME NamesAreTrue, TelnetInv, NEW f \in commands, NEW i \in Planes, sure
    PROVE  PlaneOf(f.push[i].prefix) = Own(i)
PROOF
<1>1. f.push[i].prefix = PlanePrefixes(Range(script.help))[i]
  BY DiscoveredTyped DEF TelnetInv, SureIsKnown
<1>2. {p \in DOMAIN script.planes : f.push[i].prefix \in script.planes[p]} = {Own(i)}
  BY <1>1 DEF NamesAreTrue, TelnetInv, TelnetTyped, Own
<1>3. \A p : (p \in DOMAIN script.planes /\ f.push[i].prefix \in script.planes[p]) <=> p = Own(i)
  BY <1>2
<1>4. QED
  BY <1>3 DEF PlaneOf

LEMMA PushKeeps ==
    ASSUME TelnetInv, NEW plane, NEW kind \in Planes, Push(plane, kind),
           sure => plane = Own(kind), UNCHANGED <<script, sure>>
    PROVE  line' \in [Planes -> Seq(Requests)] /\ PushesArrive' /\ skips' = {}
PROOF
<1>1. line' = [line EXCEPT ![plane] = Append(@, [kind |-> kind, sure |-> sure])]
      /\ UNCHANGED <<skips, killed>>
  BY DEF Push, TelnetInv
<1>. DEFINE r == [kind |-> kind, sure |-> sure]
<1>2. r \in Requests
  BY DEF Requests, TelnetInv, TelnetTyped
<1>3. ASSUME NEW p \in Planes
      PROVE  line'[p] \in Seq(Requests) /\ \A q \in Range(line'[p]) : q.sure => p = Own(q.kind)
  <2>1. line[p] \in Seq(Requests) /\ \A q \in Range(line[p]) : q.sure => p = Own(q.kind)
    BY DEF TelnetInv, TelnetTyped, PushesArrive
  <2>2. CASE p # plane
    BY <1>1, <2>1, <2>2 DEF TelnetInv, TelnetTyped
  <2>3. CASE p = plane
    <3>1. line'[p] = Append(line[p], r)
      BY <1>1, <2>3 DEF TelnetInv, TelnetTyped
    <3>2. \A q \in Range(Append(line[p], r)) : q \in Range(line[p]) \/ q = r
      BY <1>2, <2>1, RangeOfAppend
    <3>3. QED
      BY <1>2, <2>1, <2>3, <3>1, <3>2
  <2>4. QED
    BY <2>2, <2>3
<1>4. line' \in [Planes -> Seq(Requests)]
  BY <1>1, <1>3 DEF TelnetInv, TelnetTyped
<1>5. \A i \in Planes : Own(i)' = Own(i)
  BY DEF Own
<1>6. PushesArrive'
  <2>1. ASSUME NEW p \in Planes, NEW q \in Range(line'[p]), q.sure PROVE p = Own(q.kind)'
    <3>1. q \in Requests
      BY <1>3, InRange
    <3>2. QED
      BY <1>3, <1>5, <2>1, <3>1 DEF Requests
  <2>2. QED
    BY <1>1, <2>1 DEF PushesArrive, TelnetInv
<1>7. QED
  BY <1>1, <1>4, <1>6 DEF TelnetInv

LEMMA SendStep ==
    ASSUME NamesAreTrue, TelnetInv, NEW i \in Threads, NEW arrives \in BOOLEAN, Send(i, arrives)
    PROVE  TelnetInv'
PROOF
<1>1. /\ threads[i].step = "send" /\ threads' = [threads EXCEPT ![i] = NoCall]
      /\ UNCHANGED <<script, commands, sure>>
      /\ threads[i].plane \in Planes /\ threads[i].does \in {"push", "reset", "status"}
  BY DEF Send, TelnetInv, TelnetTyped
<1>2. PICK f \in commands :
        \/ \E cmd \in CommandsOf(threads[i], f) : Execute(cmd, threads[i].plane)
        \/ UNCHANGED <<line, skips, killed>>
  BY DEF Send
<1>. DEFINE kind == threads[i].plane
<1>3. ASSUME NEW cmd \in CommandsOf(threads[i], f), Execute(cmd, kind)
      PROVE  line' \in [Planes -> Seq(Requests)] /\ PushesArrive' /\ skips' = {}
  <2>1. /\ \A p \in Planes : f.push[p].verb \in {"push", "push_b64"}
        /\ f.reset \subseteq {Reset} /\ f.status \subseteq {Status}
    BY <1>2 DEF TelnetInv, CommandsTyped
  <2>2. \/ cmd = f.push[kind] /\ cmd.verb \in {"push", "push_b64"}
        \/ cmd = Reset \/ cmd = Status
    BY <1>1, <1>3, <2>1 DEF CommandsOf, SafeReset
  <2>3. Reset.verb = "reset" /\ Status.verb = "status"
    BY DEF Reset, Status, Command
  <2>4. CASE UNCHANGED <<line, skips, killed>>
    BY <1>1, <2>4 DEF TelnetInv, TelnetTyped, PushesArrive, Own
  <2>5. CASE cmd = Reset /\ line' = [line EXCEPT ![1] = <<>>] /\ UNCHANGED <<skips, killed>>
    <3>1. \A p \in Planes : line'[p] \in {line[p], <<>>}
      BY <2>5 DEF TelnetInv, TelnetTyped
    <3>2. line' \in [Planes -> Seq(Requests)]
      <4>1. <<>> \in Seq(Requests)
        OBVIOUS
      <4>2. \A p \in Planes : line'[p] \in Seq(Requests)
        BY <3>1, <4>1 DEF TelnetInv, TelnetTyped
      <4>3. line' = [p \in Planes |-> line'[p]]
        BY <2>5 DEF TelnetInv, TelnetTyped
      <4>4. QED
        BY <4>2, <4>3
    <3>3. \A p \in Planes : Range(line'[p]) \subseteq Range(line[p])
      BY <3>1, NoneLeft
    <3>4. QED
      BY <1>1, <2>5, <3>2, <3>3 DEF TelnetInv, PushesArrive, Own
  <2>6. CASE cmd = f.push[kind] /\ Push(PlaneOf(cmd.prefix), kind)
    <3>1. sure => PlaneOf(cmd.prefix) = Own(kind)
      BY <1>1, <1>2, <2>6, OwnPlane
    <3>2. QED
      BY <1>1, <2>6, <3>1, PushKeeps
  <2>7. QED
    BY <1>3, <2>2, <2>3, <2>4, <2>5, <2>6 DEF Execute
<1>4. line' \in [Planes -> Seq(Requests)] /\ PushesArrive' /\ skips' = {}
  <2>1. CASE UNCHANGED <<line, skips, killed>>
    BY <1>1, <2>1 DEF TelnetInv, TelnetTyped, PushesArrive, Own
  <2>2. QED
    BY <1>2, <1>3, <2>1
<1>5. TelnetTyped'
  <2>1. NoCall.plane \in Planes /\ NoCall.does = "none" /\ NoCall.step = "idle"
    BY DEF NoCall, Planes
  <2>2. QED
    BY <1>1, <1>4, <2>1 DEF TelnetInv, TelnetTyped
<1>6. CommandsTyped' /\ SureIsKnown'
  BY <1>1 DEF TelnetInv, CommandsTyped, SureIsKnown
<1>7. QED
  BY <1>4, <1>5, <1>6 DEF TelnetInv

LEMMA EnsureStep ==
    ASSUME TelnetInv, NEW i \in Threads, NEW n \in 0 .. Len(script.help), Ensure(i, n)
    PROVE  TelnetInv'
PROOF
<1>1. /\ UNCHANGED <<script, line, skips, killed>> /\ threads[i].step = "ensure"
      /\ \/ threads' = [threads EXCEPT ![i].step = "send"]
         \/ threads' = [threads EXCEPT ![i] = NoCall]
      /\ \/ UNCHANGED <<commands, sure>>
         \/ /\ commands' = {Discovered(Answer(script, n))}
            /\ sure' = (n = Len(script.help))
  BY DEF Ensure
<1>2. NoCall.plane \in Planes /\ NoCall.does = "none" /\ NoCall.step = "idle"
  BY DEF NoCall, Planes
<1>3. sure' \in BOOLEAN
  <2>1. CASE sure' = (n = Len(script.help))
    BY <2>1, Zenon
  <2>2. QED
    BY <1>1, <2>1 DEF TelnetInv, TelnetTyped
<1>4. TelnetTyped'
  <2>0. DOMAIN threads = Threads
    BY DEF TelnetInv, TelnetTyped
  <2>1. CASE threads' = [threads EXCEPT ![i].step = "send"]
    <3>1. DOMAIN threads' = Threads
      BY <2>0, <2>1
    <3>2. /\ \A j \in Threads : j # i => threads'[j] = threads[j]
          /\ threads'[i].does = threads[i].does /\ threads'[i].plane = threads[i].plane
      BY <2>0, <2>1
    <3>3. QED
      BY <1>1, <1>3, <3>1, <3>2 DEF TelnetInv, TelnetTyped
  <2>2. CASE threads' = [threads EXCEPT ![i] = NoCall]
    BY <1>1, <1>2, <1>3, <2>2 DEF TelnetInv, TelnetTyped
  <2>3. QED
    BY <1>1, <2>1, <2>2
<1>5. CASE UNCHANGED <<commands, sure>>
  BY <1>1, <1>4, <1>5 DEF TelnetInv, CommandsTyped, SureIsKnown, PushesArrive, Own
<1>6. CASE commands' = {Discovered(Answer(script, n))} /\ sure' = (n = Len(script.help))
  <2>1. CommandsTyped'
    BY <1>6, DiscoveredTyped DEF CommandsTyped
  <2>2. script \in Scripts
    BY DEF TelnetInv, TelnetTyped
  <2>3. sure' => n = Len(script.help)
    BY <1>6, Zenon
  <2>4. SureIsKnown'
    <3>1. CASE n = Len(script.help)
      BY <1>1, <1>6, <2>2, <3>1, WholeHelp DEF SureIsKnown
    <3>2. QED
      BY <2>3, <3>1 DEF SureIsKnown
  <2>5. QED
    BY <1>1, <1>4, <2>1, <2>4 DEF TelnetInv, PushesArrive, Own
<1>7. QED
  BY <1>1, <1>5, <1>6

LEMMA CallStep ==
    ASSUME OnlySafeResets, TelnetInv, NEW i \in Threads, NEW c \in Calls, Call(i, c)
    PROVE  TelnetInv'
PROOF
<1>1. c.plane \in Planes /\ c.does \in {"push", "reset", "status"}
  BY TelnetAssumption DEF OnlySafeResets, Planes
<1>2. TelnetTyped'
  BY <1>1 DEF Call, TelnetInv, TelnetTyped
<1>3. QED
  BY <1>2 DEF Call, TelnetInv, CommandsTyped, SureIsKnown, PushesArrive, Own

LEMMA PlayStep == ASSUME TelnetInv, Play PROVE TelnetInv'
PROOF
<1>1. PICK p \in Planes : line[p] # <<>> /\ line' = [line EXCEPT ![p] = Tail(@)]
  BY DEF Play
<1>2. line[p] \in Seq(Requests)
  BY DEF TelnetInv, TelnetTyped
<1>3. Tail(line[p]) \in Seq(Requests) /\ Range(Tail(line[p])) \subseteq Range(line[p])
  <2>1. ASSUME NEW j \in 1 .. Len(Tail(line[p])) PROVE Tail(line[p])[j] \in Range(line[p])
    <3>1. j + 1 \in 1 .. Len(line[p]) /\ Tail(line[p])[j] = line[p][j + 1]
      BY <1>1, <1>2
    <3>2. QED
      BY <1>2, <3>1, InRange
  <2>2. Tail(line[p]) \in Seq(Requests)
    BY <1>1, <1>2
  <2>3. ASSUME NEW x \in Range(Tail(line[p])) PROVE x \in Range(line[p])
    <3>1. PICK j \in 1 .. Len(Tail(line[p])) : x = Tail(line[p])[j]
      BY <2>2, InRange
    <3>2. QED
      BY <2>1, <3>1
  <2>4. QED
    BY <2>2, <2>3
<1>4. line' \in [Planes -> Seq(Requests)] /\ \A q \in Planes : Range(line'[q]) \subseteq Range(line[q])
  BY <1>1, <1>3 DEF TelnetInv, TelnetTyped
<1>5. UNCHANGED <<script, skips, commands, sure, threads, killed>>
  BY DEF Play
<1>6. QED
  BY <1>4, <1>5 DEF TelnetInv, TelnetTyped, CommandsTyped, SureIsKnown, PushesArrive, Own

LEMMA RestartsStep ==
    ASSUME TelnetInv, (\E s \in Scripts : ServerRestart(s)) \/ ProcessRestart
    PROVE  TelnetInv'
PROOF
<1>1. ASSUME NEW s \in Scripts, ServerRestart(s) PROVE TelnetInv'
  <2>1. /\ script' = s /\ line' = [p \in Planes |-> <<>>] /\ skips' = {}
        /\ UNCHANGED <<commands, threads, killed>>
    BY <1>1 DEF ServerRestart
  <2>2. sure' = (sure /\ s = script)
    BY <1>1 DEF ServerRestart
  <2>3. sure' \in BOOLEAN /\ (sure' => sure /\ s = script)
    BY <2>2, Zenon
  <2>4. TelnetTyped'
    BY <2>1, <2>3 DEF TelnetInv, TelnetTyped
  <2>5. PushesArrive'
    BY <2>1, NoneLeft DEF TelnetInv, PushesArrive
  <2>6. QED
    BY <2>1, <2>3, <2>4, <2>5 DEF TelnetInv, CommandsTyped, SureIsKnown
<1>2. CASE ProcessRestart
  <2>1. NoCall.plane \in Planes /\ NoCall.does = "none" /\ NoCall.step = "idle"
    BY DEF NoCall, Planes
  <2>2. QED
    BY <1>2, <2>1 DEF ProcessRestart, TelnetInv, TelnetTyped, CommandsTyped, SureIsKnown, PushesArrive, Own
<1>3. QED
  BY <1>1, <1>2

LEMMA TelnetInductive ==
    ASSUME NamesAreTrue, OnlySafeResets
    PROVE  TelnetInv /\ [TelnetNext]_telnetVars => TelnetInv'
PROOF
<1>1. TelnetInv /\ UNCHANGED telnetVars => TelnetInv'
  BY DEF TelnetInv, TelnetTyped, CommandsTyped, SureIsKnown, PushesArrive, Own, telnetVars
<1>2. QED
  BY <1>1, CallStep, EnsureStep, SendStep, PlayStep, RestartsStep DEF TelnetNext

(* With scripts whose names are true and the safe reset of the cycle:      *)
(* whatever scripts follow one another, however threads take turns and     *)
(* wherever answers are cut off, a request that was pushed with commands   *)
(* of all the help gets to the plane of its kind, and no skip waits for    *)
(* one that is pushed later.                                               *)
THEOREM PushesGetThere ==
    ASSUME NamesAreTrue, OnlySafeResets
    PROVE  TelnetSpec => []PushesArrive
PROOF
<1>1. TelnetInit => TelnetInv
  <2>. SUFFICES ASSUME TelnetInit PROVE TelnetInv
    OBVIOUS
  <2>1. /\ script \in Scripts /\ line = [p \in Planes |-> <<>>] /\ skips = {}
        /\ commands = {} /\ sure = FALSE /\ threads = [i \in Threads |-> NoCall] /\ killed = FALSE
    BY DEF TelnetInit
  <2>2. NoCall.plane \in Planes /\ NoCall.does = "none" /\ NoCall.step = "idle"
    BY DEF NoCall, Planes
  <2>3. TelnetTyped
    <3>1. <<>> \in Seq(Requests)
      OBVIOUS
    <3>2. line \in [Planes -> Seq(Requests)]
      BY <2>1, <3>1
    <3>3. QED
      BY <2>1, <2>2, <3>2 DEF TelnetTyped
  <2>4. PushesArrive
    <3>1. \A p \in Planes : line[p] = <<>>
      BY <2>1
    <3>2. QED
      BY <2>1, <3>1, NoneLeft DEF PushesArrive
  <2>5. QED
    BY <2>1, <2>3, <2>4 DEF TelnetInv, CommandsTyped, SureIsKnown
<1>2. TelnetInv => PushesArrive
  BY DEF TelnetInv
<1>3. QED
  BY <1>1, <1>2, TelnetInductive, PTL DEF TelnetSpec

-----------------------------------------------------------------------------
(* The rotation                                                            *)

Segments == STRING \cup {"id", "time", "alert"}

(* The longest rotation, in segments.                                      *)
Longest == 2 + Cardinality(Alerts) + Len(Base)

(* The segments played since k was last played, at least.                  *)
Plays(k) == Pace * waited[k] + played

(* When k is due in the focus, and what may still be played before.        *)
Deadline(k) == Pace * (Turn + GapOf(k)) + Longest

RotationTyped ==
    /\ active \subseteq Alerts /\ ready \subseteq Deferred
    /\ heightened \in BOOLEAN /\ focused \in BOOLEAN
    /\ order \in Seq(Segments) /\ Len(order) <= Longest
    /\ last \in [Deferred -> Nat] /\ \A k \in Deferred : last[k] <= GapOf(k)
    /\ played \in 0 .. Pace
    /\ waited \in [Deferred -> Nat] /\ unplayed \in [Deferred -> Nat] /\ steady \in Nat

(* A segment that the present rotation has comes in time.  One that it has *)
(* not was played in it, if it is no rotation of the focus; otherwise it   *)
(* waits for its gap, and then for the next rotation.                      *)
ComesInTime(k) ==
    IF k \in Range(order) THEN \E i \in 1 .. Len(order) : order[i] = k /\ Plays(k) + i <= Deadline(k) + Longest
    ELSE IF ~focused THEN Plays(k) + Len(order) <= Pace + Longest
    ELSE IF last[k] < GapOf(k) THEN waited[k] <= Turn + last[k]
    ELSE Plays(k) + Len(order) <= Deadline(k)

RotationInv ==
    /\ RotationTyped
    /\ \A k \in Deferred : k \notin ready => waited[k] = 0
    /\ \A k \in Deferred : ComesInTime(k)

LEMMA GapsArePositive == ASSUME NEW k \in Deferred PROVE GapOf(k) \in Nat \ {0}
PROOF
<1>1. \E j \in DOMAIN Gap : Gap[j][1] = k
  BY DEF Deferred
<1>2. PICK j \in DOMAIN Gap : j = CHOOSE i \in DOMAIN Gap : Gap[i][1] = k
  BY <1>1
<1>3. Gap[j] \in STRING \X (Nat \ {0})
  BY FocusAssumption
<1>4. Gap[j][2] \in Nat \ {0}
  BY <1>3
<1>5. GapOf(k) = Gap[j][2]
  BY <1>2 DEF GapOf
<1>6. QED
  BY <1>4, <1>5

LEMMA TurnLasts ==
    /\ Longest \in Nat /\ Turn \in Nat \ {0} /\ Longest < Pace * Turn
    /\ Pace \in Nat \ {0}
PROOF
<1>1. Longest \in Nat /\ Pace \in Nat \ {0}
  BY FocusAssumption, FS_CardinalityType DEF Longest
<1>2. Turn = (Longest \div Pace) + 1
  BY DEF Turn, Longest
<1>. HIDE DEF Longest
<1>3. Longest \div Pace \in Nat /\ Longest < Pace * ((Longest \div Pace) + 1)
  BY <1>1
<1>4. QED
  BY <1>1, <1>2, <1>3

LEMMA PaceTimes ==
    ASSUME NEW a \in Nat, NEW b \in Nat
    PROVE  /\ Pace * a \in Nat /\ Pace * b \in Nat
           /\ a <= b => Pace * a <= Pace * b
           /\ a < b => Pace * a + Pace <= Pace * b
           /\ Pace * (a + b) = Pace * a + Pace * b
PROOF
<1>1. Pace \in Nat
  BY TurnLasts
<1>2. QED
  BY <1>1

LEMMA RoomForAll ==
    ASSUME NEW p \in Nat, NEW pace \in Nat, NEW longest \in Nat, NEW d \in Nat, NEW i \in Nat,
           p <= pace, pace <= d, i <= longest
    PROVE  p + i <= pace + longest /\ p + i <= d + longest /\ p + i <= (d + longest) + longest
OBVIOUS

LEMMA RoomAtTheEnd ==
    ASSUME NEW w \in Nat, NEW p \in Nat, NEW pace \in Nat, NEW longest \in Nat, NEW d \in Nat,
           w + p <= pace + longest, pace <= d
    PROVE  w + p <= d + longest /\ \A x \in Nat : longest < x => ~(x + pace <= w)
OBVIOUS

(* What was just played, or waits from now, or is not ready, is in time.   *)
LEMMA WaitsFromNow ==
    ASSUME RotationTyped', NEW k \in Deferred, waited'[k] = 0
    PROVE  ComesInTime(k)'
PROOF
<1>. DEFINE d == Pace * (Turn + GapOf(k))
<1>1. Longest \in Nat /\ Turn \in Nat \ {0} /\ Pace \in Nat \ {0} /\ GapOf(k) \in Nat \ {0}
  BY TurnLasts, GapsArePositive
<1>2. d \in Nat /\ Pace <= d
  <2>1. Pace * 1 <= Pace * (Turn + GapOf(k)) /\ Pace * (Turn + GapOf(k)) \in Nat
    BY <1>1, PaceTimes
  <2>2. QED
    BY <1>1, <2>1
<1>3. PICK p \in Nat : p = played' /\ p <= Pace
  BY <1>1 DEF RotationTyped
<1>4. Plays(k)' = p
  <2>1. Plays(k)' = Pace * 0 + p
    BY <1>3 DEF Plays
  <2>2. Pace * 0 + p = p
    BY <1>1
  <2>3. QED
    BY <2>1, <2>2, Zenon
<1>5. Deadline(k)' = d + Longest
  BY DEF Deadline, GapOf, Turn, Longest
<1>6. order' \in Seq(Segments) /\ Len(order') <= Longest /\ last'[k] \in Nat
  BY DEF RotationTyped, Longest
<1>. HIDE DEF d
<1>7. \A i \in Nat : i <= Longest => p + i <= Pace + Longest /\ p + i <= d + Longest
                                   /\ p + i <= (d + Longest) + Longest
  BY <1>1, <1>2, <1>3, RoomForAll
<1>8. CASE k \in Range(order')
  <2>1. PICK i \in 1 .. Len(order') : order'[i] = k
    BY <1>6, <1>8, InRange
  <2>2. i \in Nat /\ i <= Longest
    BY <1>1, <1>6, <2>1
  <2>3. Plays(k)' + i <= Deadline(k)' + Longest
    BY <1>4, <1>5, <1>7, <2>2
  <2>4. QED
    BY <1>8, <2>1, <2>3 DEF ComesInTime, Longest
<1>9. CASE k \notin Range(order')
  <2>1. Plays(k)' + Len(order') <= Pace + Longest /\ Plays(k)' + Len(order') <= Deadline(k)'
    BY <1>4, <1>5, <1>6, <1>7
  <2>2. waited'[k] <= Turn + last'[k]
    BY <1>1, <1>6
  <2>3. QED
    BY <1>9, <2>1, <2>2 DEF ComesInTime, GapOf, Turn, Longest
<1>10. QED
  BY <1>8, <1>9

(* Whoever waits can still wait for a whole rotation.                      *)
LEMMA InTimeAtTheEnd ==
    ASSUME RotationInv, order = <<>>, NEW k \in Deferred
    PROVE  /\ Plays(k) <= Deadline(k) /\ Plays(k) \in Nat /\ Deadline(k) \in Nat
           /\ ~focused => waited[k] <= Turn
PROOF
<1>. DEFINE d == Pace * (Turn + GapOf(k))
<1>. DEFINE w == Pace * waited[k]
<1>1. /\ Longest \in Nat /\ Turn \in Nat \ {0} /\ Pace \in Nat \ {0} /\ GapOf(k) \in Nat \ {0}
      /\ Longest < Pace * Turn
      /\ waited[k] \in Nat /\ last[k] \in Nat /\ played \in 0 .. Pace
      /\ Turn + GapOf(k) \in Nat
  BY TurnLasts, GapsArePositive DEF RotationInv, RotationTyped
<1>2. /\ d \in Nat /\ w \in Nat /\ Pace * Turn \in Nat
      /\ Pace <= d
      /\ Turn < waited[k] => Pace * Turn + Pace <= w
      /\ waited[k] < Turn + GapOf(k) => w + Pace <= d
  <2>1. Pace * 1 <= Pace * (Turn + GapOf(k)) /\ Pace * 1 = Pace
    BY <1>1, PaceTimes
  <2>2. QED
    BY <1>1, <2>1, PaceTimes
<1>3. Plays(k) = w + played /\ Deadline(k) = d + Longest
  BY DEF Plays, Deadline
<1>. HIDE DEF d, w
<1>4. k \notin Range(order) /\ Len(order) = 0
  BY NoneLeft
<1>5. CASE ~focused
  <2>1. Plays(k) + Len(order) <= Pace + Longest
    BY <1>4, <1>5 DEF RotationInv, ComesInTime
  <2>2. PICK p \in Nat : p = played /\ p <= Pace
    BY <1>1
  <2>3. w + p <= Pace + Longest
    BY <1>1, <1>2, <1>3, <1>4, <2>1, <2>2
  <2>4. w + p <= d + Longest /\ ~(Pace * Turn + Pace <= w)
    BY <1>1, <1>2, <2>3, RoomAtTheEnd
  <2>5. waited[k] <= Turn
    BY <1>1, <1>2, <2>4
  <2>6. Plays(k) = w + p /\ Plays(k) \in Nat /\ Deadline(k) \in Nat
    BY <1>1, <1>2, <1>3, <2>2
  <2>7. QED
    BY <1>3, <2>4, <2>5, <2>6
<1>6. CASE focused /\ last[k] < GapOf(k)
  <2>1. waited[k] <= Turn + last[k]
    BY <1>4, <1>6 DEF RotationInv, ComesInTime
  <2>2. waited[k] < Turn + GapOf(k)
    BY <1>1, <1>6, <2>1
  <2>3. QED
    BY <1>1, <1>2, <1>3, <1>6, <2>2
<1>7. CASE focused /\ ~(last[k] < GapOf(k))
  <2>1. Plays(k) + Len(order) <= Deadline(k)
    BY <1>4, <1>7 DEF RotationInv, ComesInTime
  <2>2. Plays(k) \in Nat /\ Deadline(k) \in Nat
    BY <1>1, <1>2, <1>3
  <2>3. QED
    BY <1>4, <1>7, <2>1, <2>2
<1>8. QED
  BY <1>5, <1>6, <1>7

LEMMA ActiveIsFinite ==
    ASSUME RotationTyped
    PROVE  Cardinality(active) \in Nat /\ Cardinality(active) <= Cardinality(Alerts)
PROOF
<1>1. IsFiniteSet(Alerts) /\ active \subseteq Alerts
  BY FocusAssumption DEF RotationTyped
<1>2. QED
  BY <1>1, FS_Subset, FS_CardinalityType

LEMMA PostponedTyped ==
    ASSUME RotationTyped
    PROVE  /\ Postponed \in [Deferred -> UNION {0 .. GapOf(k) : k \in Deferred}]
           /\ \A k \in Deferred : Postponed[k] \in Nat /\ Postponed[k] <= GapOf(k)
PROOF
<1>1. ASSUME NEW k \in Deferred PROVE Postponed[k] \in 0 .. GapOf(k)
  BY GapsArePositive DEF Postponed, RotationTyped
<1>2. Postponed \in [Deferred -> UNION {0 .. GapOf(k) : k \in Deferred}]
  BY <1>1 DEF Postponed
<1>3. QED
  BY <1>1, <1>2, GapsArePositive

(* A new rotation has every deferred key, or, in the focus, those due.     *)
LEMMA RebuiltHas ==
    ASSUME RotationTyped
    PROVE  /\ Rebuilt \in Seq(Segments) /\ Rebuilt # <<>> /\ Len(Rebuilt) <= Longest
           /\ \A k \in Deferred : k \in Range(Rebuilt) \/ (FocusOn /\ Postponed[k] < GapOf(k))
PROOF
<1>. DEFINE head == <<"id", "time">> \o [i \in 1 .. Cardinality(active) |-> "alert"]
<1>. DEFINE content == IF FocusOn THEN Focus \o DueNow(Postponed) ELSE Base
<1>1. head \in Seq(Segments) /\ Len(head) = 2 + Cardinality(active)
  <2>. DEFINE n == Cardinality(active)
  <2>. DEFINE s == [i \in 1 .. n |-> "alert"]
  <2>1. n \in Nat
    BY ActiveIsFinite
  <2>. HIDE DEF n
  <2>2. s \in Seq(Segments) /\ Len(s) = n
    BY <2>1 DEF Segments
  <2>. HIDE DEF s
  <2>3. <<"id", "time">> \in Seq(Segments) /\ Len(<<"id", "time">>) = 2
    BY DEF Segments
  <2>4. \A r \in Seq(Segments) : r \o s \in Seq(Segments) /\ Len(r \o s) = Len(r) + Len(s)
    BY <2>2
  <2>5. <<"id", "time">> \o s \in Seq(Segments) /\ Len(<<"id", "time">> \o s) = 2 + n
    BY <2>2, <2>3, <2>4
  <2>6. QED
    BY <2>5 DEF s, n
<1>0. \A q \in Seq(STRING) : q \in Seq(Segments)
  BY DEF Segments
<1>2. /\ DueNow(Postponed) \in Seq(Segments) /\ Len(DueNow(Postponed)) <= Len(Gap)
      /\ Range(DueNow(Postponed)) = {k \in Deferred : Postponed[k] >= GapOf(k)}
  BY <1>0, PostponedTyped, DueAssumption
<1>3. /\ Base \in Seq(Segments) /\ Focus \in Seq(Segments) /\ Gap \in Seq(STRING \X (Nat \ {0}))
      /\ Deferred \subseteq Range(Base) /\ Len(Focus) + Len(Gap) <= Len(Base)
  BY <1>0, FocusAssumption
<1>4. content \in Seq(Segments) /\ Len(content) <= Len(Base)
  <2>1. Focus \o DueNow(Postponed) \in Seq(Segments)
        /\ Len(Focus \o DueNow(Postponed)) = Len(Focus) + Len(DueNow(Postponed))
    BY <1>2, <1>3
  <2>2. Len(Focus) \in Nat /\ Len(DueNow(Postponed)) \in Nat /\ Len(Gap) \in Nat /\ Len(Base) \in Nat
    BY <1>2, <1>3
  <2>3. CASE FocusOn
    <3>1. content = Focus \o DueNow(Postponed)
      BY <2>3
    <3>. HIDE DEF content
    <3>2. QED
      BY <1>2, <1>3, <2>1, <2>2, <3>1
  <2>4. CASE ~FocusOn
    BY <1>3, <2>4
  <2>5. QED
    BY <2>3, <2>4
<1>5. Rebuilt = head \o content
  BY <1>1, <1>4 DEF Rebuilt
<1>6. ASSUME NEW k \in Deferred, ~(FocusOn /\ Postponed[k] < GapOf(k)) PROVE k \in Range(content)
  <2>1. CASE FocusOn
    <3>1. k \in Range(DueNow(Postponed))
      BY <1>2, <1>6, <2>1, PostponedTyped, GapsArePositive
    <3>2. QED
      BY <1>2, <1>3, <2>1, <3>1, RangeOfJoin
  <2>2. CASE ~FocusOn
    BY <1>3, <2>2
  <2>3. QED
    BY <2>1, <2>2
<1>. HIDE DEF head, content
<1>7. /\ Rebuilt \in Seq(Segments) /\ Len(Rebuilt) = Len(head) + Len(content)
      /\ Range(content) \subseteq Range(Rebuilt)
  BY <1>1, <1>4, <1>5, RangeOfJoin
<1>8. Len(Rebuilt) <= Longest /\ Len(Rebuilt) >= 2
  <2>1. Len(content) \in Nat /\ Cardinality(Alerts) \in Nat /\ Len(Base) \in Nat
    BY <1>3, <1>4, FocusAssumption, FS_CardinalityType
  <2>2. QED
    BY <1>1, <1>4, <1>7, <2>1, ActiveIsFinite DEF Longest
<1>9. QED
  BY <1>6, <1>7, <1>8

(* A step of the rotation: what is left comes one sooner.                  *)
LEMMA OneSooner ==
    ASSUME NEW r \in Seq(Segments), r # <<>>, NEW k, Head(r) # k
    PROVE  /\ Tail(r) \in Seq(Segments) /\ Len(Tail(r)) = Len(r) - 1 /\ Len(r) \in Nat
           /\ \A i \in 1 .. Len(r) : r[i] = k => i - 1 \in 1 .. Len(Tail(r)) /\ Tail(r)[i - 1] = k
           /\ k \in Range(Tail(r)) => k \in Range(r)
PROOF
<1>1. Tail(r) \in Seq(Segments) /\ Len(Tail(r)) = Len(r) - 1 /\ Len(r) \in Nat /\ Head(r) = r[1]
  OBVIOUS
<1>2. \A i \in 1 .. Len(Tail(r)) : Tail(r)[i] = r[i + 1] /\ i + 1 \in 1 .. Len(r)
  OBVIOUS
<1>3. ASSUME NEW i \in 1 .. Len(r), r[i] = k PROVE i - 1 \in 1 .. Len(Tail(r)) /\ Tail(r)[i - 1] = k
  <2>1. i # 1
    BY <1>1, <1>3
  <2>2. i - 1 \in 1 .. Len(Tail(r)) /\ (i - 1) + 1 = i
    BY <1>1, <1>3, <2>1
  <2>3. QED
    BY <1>2, <1>3, <2>2
<1>4. ASSUME k \in Range(Tail(r)) PROVE k \in Range(r)
  <2>1. PICK i \in 1 .. Len(Tail(r)) : k = Tail(r)[i]
    BY <1>1, <1>4, InRange
  <2>2. QED
    BY <1>2, <2>1, InRange
<1>5. QED
  BY <1>1, <1>3, <1>4

(* One segment more was played, at most.                                   *)
LEMMA OnePlay ==
    ASSUME RotationTyped, RotationTyped', NEW k \in Deferred, waited'[k] = waited[k], played' <= played + 1
    PROVE  Plays(k) \in Nat /\ Plays(k)' \in Nat /\ Plays(k)' <= Plays(k) + 1
PROOF
<1>1. PICK w \in Nat : w = waited[k] /\ Pace * w \in Nat
  <2>1. waited[k] \in Nat
    BY DEF RotationTyped
  <2>2. PICK w \in Nat : w = waited[k]
    BY <2>1
  <2>3. Pace * w \in Nat
    BY PaceTimes
  <2>4. QED
    BY <2>2, <2>3
<1>2. PICK p \in Nat, q \in Nat : p = played /\ q = played' /\ q <= p + 1
  BY TurnLasts DEF RotationTyped
<1>3. Plays(k) = Pace * w + p /\ Plays(k)' = Pace * w + q
  BY <1>1, <1>2 DEF Plays
<1>4. \A m \in Nat : m + p \in Nat /\ m + q \in Nat /\ m + q <= (m + p) + 1
  BY <1>2
<1>5. QED
  BY <1>1, <1>3, <1>4

LEMMA DeadlineIsNat == ASSUME NEW k \in Deferred PROVE Deadline(k) \in Nat /\ Deadline(k)' = Deadline(k)
PROOF
<1>1. Deadline(k)' = Deadline(k)
  BY DEF Deadline, Turn, GapOf, Longest
<1>2. Pace * (Turn + GapOf(k)) \in Nat
  BY TurnLasts, GapsArePositive, PaceTimes
<1>3. QED
  BY <1>1, <1>2, TurnLasts DEF Deadline

LEMMA Sooner ==
    ASSUME NEW a \in Nat, NEW b \in Nat, NEW i \in Nat, NEW d \in Nat, b <= a + 1, a + i <= d
    PROVE  b + (i - 1) <= d
OBVIOUS

LEMMA PlayTyped ==
    ASSUME RotationInv, PlayNext
    PROVE  /\ RotationTyped' /\ played' <= played + 1
           /\ \E r \in Seq(Segments) :
                /\ r = (IF order = <<>> THEN Rebuilt ELSE order)
                /\ r # <<>> /\ Len(r) <= Longest /\ order' = Tail(r)
                /\ \A k \in Deferred :
                     /\ k = Head(r) /\ k \in ready => waited'[k] = 0 /\ unplayed'[k] = 0
                     /\ k # Head(r) => /\ waited'[k] = waited[k] /\ unplayed'[k] = unplayed[k]
                                       /\ last'[k] = IF order = <<>> THEN Postponed[k] ELSE last[k]
                     /\ k \notin ready => waited'[k] = 0 /\ unplayed'[k] = unplayed[k]
PROOF
<1>1. RotationTyped /\ \A k \in Deferred : k \notin ready => waited[k] = 0
  BY DEF RotationInv
<1>2. PICK r \in Seq(Segments) :
        r = (IF order = <<>> THEN Rebuilt ELSE order) /\ r # <<>> /\ Len(r) <= Longest
  BY <1>1, RebuiltHas DEF RotationTyped
<1>. DEFINE times == IF order = <<>> THEN Postponed ELSE last
<1>. DEFINE h == Head(r)
<1>3. times \in [Deferred -> Nat] /\ \A k \in Deferred : times[k] <= GapOf(k)
  BY <1>1, PostponedTyped DEF RotationTyped, Postponed
<1>4. /\ order' = Tail(r)
      /\ IF h \in ready
           THEN /\ last' = [times EXCEPT ![h] = 0]
                /\ unplayed' = [unplayed EXCEPT ![h] = 0] /\ waited' = [waited EXCEPT ![h] = 0]
           ELSE last' = times /\ UNCHANGED <<unplayed, waited>>
      /\ UNCHANGED <<active, heightened, ready, steady>>
      /\ focused' = IF order = <<>> THEN FocusOn ELSE focused
      /\ played' = IF played < Pace THEN played + 1 ELSE played
  BY <1>2, Zenon DEF PlayNext
<1>. HIDE DEF times, h
<1>5. FocusOn \in BOOLEAN
  BY <1>1 DEF FocusOn, RotationTyped
<1>6. /\ last' \in [Deferred -> Nat]
      /\ waited' \in [Deferred -> Nat] /\ unplayed' \in [Deferred -> Nat]
      /\ \A k \in Deferred : last'[k] <= GapOf(k)
      /\ \A k \in Deferred : k # h => /\ waited'[k] = waited[k] /\ unplayed'[k] = unplayed[k]
                                       /\ last'[k] = times[k]
      /\ \A k \in Deferred : k = h /\ k \in ready => waited'[k] = 0 /\ unplayed'[k] = 0
      /\ \A k \in Deferred : k \notin ready => waited'[k] = waited[k] /\ unplayed'[k] = unplayed[k]
  <2>1. /\ waited \in [Deferred -> Nat] /\ unplayed \in [Deferred -> Nat]
        /\ \A k \in Deferred : 0 <= GapOf(k)
    BY <1>1, GapsArePositive DEF RotationTyped
  <2>2. CASE h \in ready
    <3>1. /\ last' = [times EXCEPT ![h] = 0]
          /\ unplayed' = [unplayed EXCEPT ![h] = 0] /\ waited' = [waited EXCEPT ![h] = 0]
      BY <1>4, <2>2
    <3>2. \A k \in Deferred :
            /\ last'[k] = IF k = h THEN 0 ELSE times[k]
            /\ waited'[k] = IF k = h THEN 0 ELSE waited[k]
            /\ unplayed'[k] = IF k = h THEN 0 ELSE unplayed[k]
      BY <1>3, <2>1, <3>1
    <3>3. last' \in [Deferred -> Nat] /\ waited' \in [Deferred -> Nat] /\ unplayed' \in [Deferred -> Nat]
      BY <1>3, <2>1, <3>1
    <3>4. QED
      BY <1>3, <2>1, <2>2, <3>2, <3>3
  <2>3. CASE h \notin ready
    BY <1>3, <1>4, <2>1, <2>3
  <2>4. QED
    BY <2>2, <2>3
<1>7. played' \in 0 .. Pace /\ played' <= played + 1
  BY <1>1, <1>4, TurnLasts DEF RotationTyped
<1>8. Tail(r) \in Seq(Segments) /\ Len(Tail(r)) <= Len(r) /\ Len(r) \in Nat /\ Len(Tail(r)) \in Nat
  BY <1>2
<1>9. Len(order') <= Longest
  BY <1>2, <1>4, <1>8, TurnLasts
<1>10. RotationTyped'
  <2>1. focused' \in BOOLEAN
    BY <1>1, <1>4, <1>5 DEF RotationTyped
  <2>2. QED
    BY <1>1, <1>4, <1>6, <1>7, <1>8, <1>9, <2>1 DEF RotationTyped, Longest, GapOf
<1>11. QED
  BY <1>1, <1>2, <1>4, <1>6, <1>7, <1>10 DEF times, h

LEMMA PlayNextStep == ASSUME RotationInv, PlayNext PROVE RotationInv'
PROOF
<1>1. RotationTyped /\ RotationTyped' /\ played' <= played + 1 /\ ready' = ready
  BY PlayTyped DEF RotationInv, PlayNext
<1>2. PICK r \in Seq(Segments) :
        /\ r = (IF order = <<>> THEN Rebuilt ELSE order)
        /\ r # <<>> /\ Len(r) <= Longest /\ order' = Tail(r)
        /\ \A k \in Deferred :
             /\ k = Head(r) /\ k \in ready => waited'[k] = 0 /\ unplayed'[k] = 0
             /\ k # Head(r) => /\ waited'[k] = waited[k] /\ unplayed'[k] = unplayed[k]
                               /\ last'[k] = IF order = <<>> THEN Postponed[k] ELSE last[k]
             /\ k \notin ready => waited'[k] = 0 /\ unplayed'[k] = unplayed[k]
  BY PlayTyped
<1>3. ASSUME NEW k \in Deferred, waited'[k] # 0 PROVE ComesInTime(k)'
  <2>1. /\ Head(r) # k /\ k \in ready /\ waited'[k] = waited[k]
        /\ last'[k] = IF order = <<>> THEN Postponed[k] ELSE last[k]
    BY <1>2, <1>3
  <2>2. Plays(k) \in Nat /\ Plays(k)' \in Nat /\ Plays(k)' <= Plays(k) + 1
    BY <1>1, <2>1, OnePlay
  <2>3. Deadline(k) \in Nat /\ Deadline(k)' = Deadline(k) /\ Longest \in Nat
    BY DeadlineIsNat, TurnLasts
  <2>. DEFINE d == Deadline(k) + Longest
  <2>4. d \in Nat /\ (Deadline(k) + Longest)' = d
    BY <2>3 DEF Longest
  <2>5. /\ Len(order') = Len(r) - 1 /\ Len(r) \in Nat
        /\ \A i \in 1 .. Len(r) : r[i] = k => i - 1 \in 1 .. Len(order') /\ order'[i - 1] = k
        /\ k \in Range(order') => k \in Range(r)
        /\ order' \in Seq(Segments)
    BY <1>2, <2>1, OneSooner
  <2>6. ComesInTime(k)
    BY DEF RotationInv
  <2>7. ASSUME NEW i \in 1 .. Len(r), r[i] = k, Plays(k) + i <= d PROVE ComesInTime(k)'
    <3>1. i - 1 \in 1 .. Len(order') /\ order'[i - 1] = k
      BY <2>5, <2>7
    <3>2. k \in Range(order')
      BY <2>5, <3>1, InRange
    <3>3. Plays(k)' + (i - 1) <= d
      <4>. HIDE DEF d
      <4>1. QED
        BY <2>2, <2>4, <2>5, <2>7, Sooner
    <3>4. \E j \in 1 .. Len(order') : order'[j] = k /\ Plays(k)' + j <= (Deadline(k) + Longest)'
      BY <2>4, <3>1, <3>3
    <3>5. QED
      BY <3>2, <3>4 DEF ComesInTime
  <2>8. CASE order # <<>>
    <3>1. r = order /\ last'[k] = last[k] /\ focused' = focused /\ Turn' = Turn /\ GapOf(k)' = GapOf(k)
      BY <1>2, <2>1, <2>8 DEF PlayNext, Turn, GapOf
    <3>2. CASE k \in Range(order)
      BY <2>6, <2>7, <3>1, <3>2 DEF ComesInTime
    <3>3. CASE k \notin Range(order)
      <4>1. k \notin Range(order')
        BY <2>5, <3>1, <3>3
      <4>2. Len(order) = Len(order') + 1 /\ Len(order') \in Nat
        BY <2>5, <3>1
      <4>3. ASSUME NEW e \in Nat, Plays(k) + Len(order) <= e PROVE Plays(k)' + Len(order') <= e
        BY <2>2, <4>2, <4>3
      <4>4. CASE ~focused
        <5>1. Plays(k) + Len(order) <= Pace + Longest /\ Pace + Longest \in Nat
          BY <2>6, <3>3, <4>4, TurnLasts DEF ComesInTime
        <5>2. QED
          BY <3>1, <4>1, <4>3, <4>4, <5>1 DEF ComesInTime, Longest
      <4>5. CASE focused /\ last[k] < GapOf(k)
        <5>1. waited'[k] <= Turn + last'[k]
          BY <2>1, <2>6, <3>1, <3>3, <4>5 DEF ComesInTime
        <5>2. QED
          BY <3>1, <4>1, <4>5, <5>1 DEF ComesInTime
      <4>6. CASE focused /\ ~(last[k] < GapOf(k))
        <5>1. Plays(k) + Len(order) <= Deadline(k)
          BY <2>6, <3>3, <4>6 DEF ComesInTime
        <5>2. Plays(k)' + Len(order') <= Deadline(k)'
          BY <2>3, <4>3, <5>1
        <5>3. QED
          BY <3>1, <4>1, <4>6, <5>2 DEF ComesInTime
      <4>7. QED
        BY <4>4, <4>5, <4>6
    <3>4. QED
      BY <3>2, <3>3
  <2>9. CASE order = <<>>
    <3>1. /\ r = Rebuilt /\ last'[k] = Postponed[k] /\ focused' = FocusOn /\ Turn' = Turn
          /\ GapOf(k)' = GapOf(k)
      BY <1>2, <2>1, <2>9 DEF PlayNext, Turn, GapOf
    <3>2. Plays(k) <= Deadline(k) /\ (~focused => waited[k] <= Turn)
      BY <2>9, InTimeAtTheEnd
    <3>3. CASE k \in Range(r)
      <4>1. PICK i \in 1 .. Len(r) : k = r[i]
        BY <3>3, InRange
      <4>2. Plays(k) + i <= Deadline(k) + Longest
        BY <1>2, <2>2, <2>3, <2>5, <3>2, <4>1
      <4>3. QED
        BY <2>7, <4>1, <4>2
    <3>4. CASE k \notin Range(r)
      <4>1. FocusOn /\ Postponed[k] < GapOf(k)
        BY <1>1, <3>1, <3>4, RebuiltHas
      <4>2. k \notin Range(order')
        BY <2>5, <3>4
      <4>3. waited[k] <= Turn + Postponed[k]
        <5>1. CASE focused
          <6>1. Postponed[k] = last[k]
            BY <5>1 DEF Postponed
          <6>2. k \notin Range(order)
            BY <2>9, NoneLeft
          <6>3. QED
            BY <2>6, <4>1, <5>1, <6>1, <6>2 DEF ComesInTime
        <5>2. CASE ~focused
          <6>1. Postponed[k] \in Nat /\ waited[k] \in Nat /\ Turn \in Nat
            BY <1>1, PostponedTyped, TurnLasts DEF RotationTyped
          <6>2. QED
            BY <3>2, <5>2, <6>1
        <5>3. QED
          BY <5>1, <5>2
      <4>4. QED
        BY <2>1, <3>1, <4>1, <4>2, <4>3 DEF ComesInTime
    <3>5. QED
      BY <3>3, <3>4
  <2>10. QED
    BY <2>8, <2>9
<1>4. \A k \in Deferred : ComesInTime(k)'
  BY <1>1, <1>3, WaitsFromNow
<1>5. \A k \in Deferred : k \notin ready' => waited'[k] = 0
  BY <1>1, <1>2
<1>6. QED
  BY <1>1, <1>4, <1>5 DEF RotationInv

(* Who waits when the rotation starts again waits from now.                *)
LEMMA StartAgainStep ==
    ASSUME RotationInv, StartAgain, UNCHANGED <<ready, last, played, unplayed>>,
           active' \subseteq Alerts, heightened' \in BOOLEAN, steady' \in Nat
    PROVE  RotationInv'
PROOF
<1>1. order' = <<>> /\ waited' = [k \in Deferred |-> 0] /\ focused' = focused
  BY DEF StartAgain, FromNow
<1>2. <<>> \in Seq(Segments) /\ Len(<<>>) <= Longest
  BY TurnLasts
<1>3. RotationTyped'
  BY <1>1, <1>2 DEF RotationInv, RotationTyped, Longest, GapOf
<1>4. \A k \in Deferred : waited'[k] = 0
  BY <1>1
<1>5. QED
  BY <1>3, <1>4, WaitsFromNow DEF RotationInv

LEMMA AlertChangesStep == ASSUME RotationInv, AlertChanges PROVE RotationInv'
PROOF
<1>1. StartAgain /\ UNCHANGED <<heightened, ready, last, played, unplayed>>
  BY DEF AlertChanges
<1>2. active' \subseteq Alerts /\ heightened' \in BOOLEAN /\ steady' \in Nat
  BY DEF AlertChanges, SteadyOrNot, RotationInv, RotationTyped
<1>3. QED
  BY <1>1, <1>2, StartAgainStep

LEMMA ModeFlipsStep == ASSUME RotationInv, ModeFlips PROVE RotationInv'
PROOF
<1>1. /\ UNCHANGED <<active, ready, last, played, unplayed>>
      /\ heightened' \in BOOLEAN /\ steady' \in Nat
  BY DEF ModeFlips, SteadyOrNot, RotationInv, RotationTyped
<1>2. CASE StartAgain
  BY <1>1, <1>2, StartAgainStep DEF RotationInv, RotationTyped
<1>3. CASE UNCHANGED <<order, focused, waited>>
  BY <1>1, <1>3
     DEF RotationInv, RotationTyped, ComesInTime, Plays, Deadline, Turn, GapOf, Longest
<1>4. QED
  BY <1>2, <1>3 DEF ModeFlips

LEMMA InterruptedStep == ASSUME RotationInv, Interrupted PROVE RotationInv'
PROOF
<1>1. StartAgain /\ UNCHANGED <<active, heightened, ready, last, played, unplayed, steady>>
  BY DEF Interrupted
<1>2. QED
  BY <1>1, StartAgainStep DEF RotationInv, RotationTyped

LEMMA ReadyChangesStep == ASSUME RotationInv, ReadyChanges PROVE RotationInv'
PROOF
<1>1. PICK c \in Deferred :
        /\ ready' = IF c \in ready THEN ready \ {c} ELSE ready \cup {c}
        /\ waited' = [waited EXCEPT ![c] = 0] /\ unplayed' = [unplayed EXCEPT ![c] = 0]
  BY DEF ReadyChanges
<1>2. UNCHANGED <<active, heightened, order, focused, last, played, steady>>
  BY DEF ReadyChanges
<1>3. waited' \in [Deferred -> Nat] /\ waited'[c] = 0 /\ \A k \in Deferred : k # c => waited'[k] = waited[k]
  BY <1>1 DEF RotationInv, RotationTyped
<1>4. RotationTyped'
  <2>1. unplayed' \in [Deferred -> Nat]
    BY <1>1 DEF RotationInv, RotationTyped
  <2>2. QED
    BY <1>1, <1>2, <1>3, <2>1 DEF RotationInv, RotationTyped, Longest, GapOf
<1>5. ASSUME NEW k \in Deferred, k # c PROVE ComesInTime(k)'
  <2>1. waited'[k] = waited[k] /\ ComesInTime(k)
    BY <1>3, <1>5 DEF RotationInv
  <2>2. QED
    BY <1>2, <2>1 DEF ComesInTime, Plays, Deadline, Turn, GapOf, Longest
<1>6. ComesInTime(c)'
  BY <1>3, <1>4, WaitsFromNow
<1>7. ASSUME NEW k \in Deferred, k \notin ready' PROVE waited'[k] = 0
  <2>1. k = c \/ k \notin ready
    BY <1>1, <1>7
  <2>2. QED
    BY <1>3, <2>1 DEF RotationInv
<1>8. QED
  BY <1>4, <1>5, <1>6, <1>7 DEF RotationInv

(* A unit of time ends with Pace plays at least: who waits a unit more has *)
(* the same plays behind.                                                  *)
LEMMA RotationTickStep == ASSUME RotationInv, RotationTick PROVE RotationInv'
PROOF
<1>1. /\ played = Pace /\ played' = 0
      /\ last' = [k \in Deferred |-> IF last[k] < GapOf(k) THEN last[k] + 1 ELSE last[k]]
      /\ waited' = [k \in Deferred |-> IF k \in ready /\ waited[k] <= Patience(k) THEN waited[k] + 1 ELSE waited[k]]
      /\ unplayed' = [k \in Deferred |-> IF k \in ready /\ unplayed[k] <= Patience(k) THEN unplayed[k] + 1 ELSE unplayed[k]]
      /\ steady' = IF \E k \in Deferred : steady <= Patience(k) THEN steady + 1 ELSE steady
      /\ UNCHANGED <<active, heightened, ready, order, focused>>
  BY DEF RotationTick, Later
<1>2. RotationTyped /\ \A k \in Deferred : GapOf(k) \in Nat \ {0}
  BY GapsArePositive DEF RotationInv
<1>3. ASSUME NEW k \in Deferred
      PROVE  /\ last'[k] \in Nat /\ last'[k] <= GapOf(k)
             /\ last'[k] = IF last[k] < GapOf(k) THEN last[k] + 1 ELSE last[k]
             /\ waited'[k] \in Nat /\ waited'[k] <= waited[k] + 1
             /\ k \notin ready => waited'[k] = waited[k]
  BY <1>1, <1>2 DEF RotationTyped
<1>4. RotationTyped'
  <2>1. last' \in [Deferred -> Nat] /\ waited' \in [Deferred -> Nat]
    BY <1>1, <1>3
  <2>2. played' \in 0 .. Pace
    BY <1>1, TurnLasts
  <2>3. unplayed' \in [Deferred -> Nat] /\ steady' \in Nat
    BY <1>1, <1>2 DEF RotationTyped
  <2>4. QED
    BY <1>1, <1>2, <1>3, <2>1, <2>2, <2>3 DEF RotationTyped, Longest, GapOf
<1>5. ASSUME NEW k \in Deferred PROVE ComesInTime(k)'
  <2>1. PICK w \in Nat, v \in Nat : w = waited[k] /\ v = waited'[k] /\ v <= w + 1
    BY <1>2, <1>3 DEF RotationTyped
  <2>2. Pace * w \in Nat /\ Pace * v \in Nat /\ Pace * v <= Pace * w + Pace /\ Pace \in Nat
    <3>0. w + 1 \in Nat /\ 1 \in Nat
      OBVIOUS
    <3>1. Pace * v <= Pace * (w + 1) /\ Pace * (w + 1) = Pace * w + Pace * 1
      BY <2>1, <3>0, PaceTimes
    <3>2. Pace * 1 = Pace /\ Pace \in Nat
      BY TurnLasts
    <3>3. QED
      BY <2>1, <3>1, <3>2, PaceTimes
  <2>3. Plays(k) = Pace * w + Pace /\ Plays(k)' = Pace * v
    BY <1>1, <2>1, <2>2 DEF Plays
  <2>4. Plays(k) \in Nat /\ Plays(k)' \in Nat /\ Plays(k)' <= Plays(k)
    BY <2>2, <2>3
  <2>5. Deadline(k) \in Nat /\ Deadline(k)' = Deadline(k) /\ Longest \in Nat
    BY DeadlineIsNat, TurnLasts
  <2>6. order \in Seq(Segments) /\ order' = order /\ Len(order) \in Nat /\ Len(order) <= Longest
    BY <1>1, <1>2 DEF RotationTyped
  <2>7. \A n, e \in Nat : Plays(k) + n <= e => Plays(k)' + n <= e
    BY <2>4
  <2>8. ComesInTime(k) /\ focused' = focused
    BY <1>1 DEF RotationInv
  <2>9. Turn' = Turn /\ GapOf(k)' = GapOf(k) /\ Longest' = Longest /\ Turn \in Nat
    BY TurnLasts DEF Turn, GapOf, Longest
  <2>10. CASE k \in Range(order)
    <3>1. PICK i \in 1 .. Len(order) : order[i] = k /\ Plays(k) + i <= Deadline(k) + Longest
      BY <2>8, <2>10 DEF ComesInTime
    <3>2. Plays(k)' + i <= Deadline(k) + Longest
      BY <2>5, <2>7, <3>1
    <3>3. QED
      BY <2>5, <2>6, <2>9, <2>10, <3>1, <3>2 DEF ComesInTime
  <2>11. CASE k \notin Range(order) /\ ~focused
    <3>1. Plays(k) + Len(order) <= Pace + Longest
      BY <2>8, <2>11 DEF ComesInTime
    <3>2. Plays(k)' + Len(order) <= Pace + Longest
      BY <2>2, <2>5, <2>6, <2>7, <3>1
    <3>3. QED
      BY <2>6, <2>8, <2>9, <2>11, <3>2 DEF ComesInTime
  <2>12. CASE k \notin Range(order) /\ focused /\ last[k] < GapOf(k)
    <3>1. waited[k] <= Turn + last[k] /\ last'[k] = last[k] + 1 /\ last[k] \in Nat
      BY <1>2, <1>3, <2>8, <2>12 DEF ComesInTime, RotationTyped
    <3>2. waited'[k] <= Turn + last'[k]
      BY <2>1, <2>9, <3>1
    <3>3. CASE last'[k] < GapOf(k)
      BY <2>6, <2>8, <2>9, <2>12, <3>2, <3>3 DEF ComesInTime
    <3>4. CASE ~(last'[k] < GapOf(k))
      <4>1. v <= Turn + GapOf(k) /\ Turn + GapOf(k) \in Nat
        BY <1>2, <1>3, <2>1, <2>9, <3>1, <3>2
      <4>2. Pace * v <= Pace * (Turn + GapOf(k)) /\ Pace * (Turn + GapOf(k)) \in Nat
        BY <2>1, <4>1, PaceTimes
      <4>3. Plays(k)' + Len(order) <= Deadline(k)
        <5>. DEFINE m == Pace * (Turn + GapOf(k))
        <5>1. Deadline(k) = m + Longest /\ Plays(k)' <= m /\ m \in Nat
          BY <2>3, <4>2 DEF Deadline
        <5>. HIDE DEF m
        <5>2. QED
          BY <2>4, <2>5, <2>6, <5>1
      <4>4. QED
        BY <2>5, <2>6, <2>8, <2>9, <2>12, <3>4, <4>3 DEF ComesInTime
    <3>5. QED
      BY <3>3, <3>4
  <2>13. CASE k \notin Range(order) /\ focused /\ ~(last[k] < GapOf(k))
    <3>1. Plays(k) + Len(order) <= Deadline(k) /\ last'[k] = last[k]
      BY <1>3, <2>8, <2>13 DEF ComesInTime
    <3>2. Plays(k)' + Len(order) <= Deadline(k)
      BY <2>5, <2>6, <2>7, <3>1
    <3>3. QED
      BY <2>5, <2>6, <2>8, <2>9, <2>13, <3>1, <3>2 DEF ComesInTime
  <2>14. QED
    BY <2>10, <2>11, <2>12, <2>13
<1>6. ASSUME NEW k \in Deferred, k \notin ready' PROVE waited'[k] = 0
  BY <1>1, <1>3, <1>6 DEF RotationInv
<1>7. QED
  BY <1>4, <1>5, <1>6 DEF RotationInv

LEMMA RotationInitially == RotationInit => RotationInv
PROOF
<1>. SUFFICES ASSUME RotationInit PROVE RotationInv
  OBVIOUS
<1>. USE DEF RotationInit
<1>1. RotationTyped
  <2>1. <<>> \in Seq(Segments) /\ Len(<<>>) <= Longest /\ 0 \in 0 .. Pace
    BY TurnLasts
  <2>2. [k \in Deferred |-> 0] \in [Deferred -> Nat] /\ \A k \in Deferred : [j \in Deferred |-> 0][k] <= GapOf(k)
    BY GapsArePositive
  <2>3. QED
    BY <2>1, <2>2 DEF RotationTyped
<1>2. ASSUME NEW k \in Deferred PROVE ComesInTime(k)
  <2>1. Plays(k) = 0
    BY TurnLasts DEF Plays
  <2>2. k \notin Range(order) /\ ~focused /\ Len(order) = 0
    BY NoneLeft
  <2>3. QED
    BY <2>1, <2>2, TurnLasts DEF ComesInTime
<1>3. QED
  BY <1>1, <1>2 DEF RotationInv

LEMMA RotationInductive == RotationInv /\ [RotationNext]_rotationVars => RotationInv'
PROOF
<1>1. ASSUME RotationInv, UNCHANGED rotationVars PROVE RotationInv'
  BY <1>1
     DEF rotationVars, histories, RotationInv, RotationTyped, ComesInTime, Plays, Deadline, Turn, GapOf, Longest
<1>2. QED
  BY <1>1, PlayNextStep, AlertChangesStep, ModeFlipsStep, InterruptedStep, ReadyChangesStep,
     RotationTickStep
     DEF RotationNext

LEMMA RotationComesRound == ASSUME RotationInv, NEW k \in Deferred PROVE waited[k] <= Patience(k)
PROOF
<1>. DEFINE m == Pace * (Turn + GapOf(k))
<1>. DEFINE t2 == Pace * (2 * Turn)
<1>. DEFINE w == Pace * waited[k]
<1>1. /\ Longest \in Nat /\ Turn \in Nat \ {0} /\ Pace \in Nat \ {0} /\ GapOf(k) \in Nat \ {0}
      /\ waited[k] \in Nat /\ played \in 0 .. Pace /\ last[k] \in Nat
      /\ Len(order) \in Nat /\ Longest < Pace * Turn
  BY TurnLasts, GapsArePositive DEF RotationInv, RotationTyped
<1>2. ComesInTime(k)
  BY DEF RotationInv
<1>3. m \in Nat /\ t2 \in Nat /\ w \in Nat /\ Pace <= m
  <2>1. Turn + GapOf(k) \in Nat /\ 2 * Turn \in Nat /\ 1 <= Turn + GapOf(k)
    BY <1>1
  <2>2. Pace * 1 <= Pace * (Turn + GapOf(k)) /\ Pace * 1 = Pace
    BY <1>1, <2>1, PaceTimes
  <2>3. QED
    BY <1>1, <2>1, <2>2, PaceTimes
<1>4. 2 * Longest < t2
  <2>1. 2 * Turn = Turn + Turn
    BY <1>1
  <2>2. t2 = Pace * Turn + Pace * Turn /\ Pace * Turn \in Nat
    BY <1>1, <2>1, PaceTimes
  <2>3. \A x \in Nat : Longest < x => 2 * Longest < x + x
    BY <1>1
  <2>4. QED
    BY <1>1, <2>2, <2>3
<1>5. Patience(k) < waited[k] => m + t2 + Pace <= w
  <2>1. Patience(k) = (Turn + GapOf(k)) + 2 * Turn /\ Patience(k) \in Nat
    BY <1>1 DEF Patience
  <2>2. Pace * Patience(k) = m + t2
    BY <1>1, <2>1, PaceTimes
  <2>3. QED
    BY <1>1, <2>1, <2>2, PaceTimes
<1>6. Plays(k) = w + played /\ Deadline(k) = m + Longest
  BY DEF Plays, Deadline
<1>7. waited[k] <= Turn + GapOf(k) => w <= m
  BY <1>1, PaceTimes
<1>8. waited[k] \in Nat /\ Patience(k) \in Nat
  BY <1>1 DEF Patience
<1>. HIDE DEF m, t2, w
<1>9. w <= m + 2 * Longest
  <2>1. CASE k \in Range(order)
    <3>1. PICK i \in 1 .. Len(order) : Plays(k) + i <= Deadline(k) + Longest
      BY <1>2, <2>1 DEF ComesInTime
    <3>2. QED
      BY <1>1, <1>3, <1>6, <3>1
  <2>2. CASE k \notin Range(order) /\ ~focused
    <3>1. Plays(k) + Len(order) <= Pace + Longest
      BY <1>2, <2>2 DEF ComesInTime
    <3>2. QED
      BY <1>1, <1>3, <1>6, <3>1
  <2>3. CASE k \notin Range(order) /\ focused /\ last[k] < GapOf(k)
    <3>1. waited[k] <= Turn + last[k]
      BY <1>2, <2>3 DEF ComesInTime
    <3>2. QED
      BY <1>1, <1>3, <1>7, <2>3, <3>1
  <2>4. CASE k \notin Range(order) /\ focused /\ ~(last[k] < GapOf(k))
    <3>1. Plays(k) + Len(order) <= Deadline(k)
      BY <1>2, <2>4 DEF ComesInTime
    <3>2. QED
      BY <1>1, <1>3, <1>6, <3>1
  <2>5. QED
    BY <2>1, <2>2, <2>3, <2>4
<1>10. ~(m + t2 + Pace <= w)
  BY <1>1, <1>3, <1>4, <1>9
<1>11. QED
  BY <1>5, <1>8, <1>10

(* From here on a segment is in every new rotation, if it was not played   *)
(* and there was the same focus, or none, for so long.                     *)
Settled(k) == GapOf(k) + Turn

Overdue(k) == Settled(k) <= unplayed[k] /\ Settled(k) <= steady

(* A focus that was not entered yet is entered when this rotation is over. *)
EntersSoon == FocusOn /\ ~focused => Pace * steady + played + Len(order) <= Pace + Longest

(* A segment is postponed by its own play, or by entering the focus, which *)
(* is no later than a rotation after there was one.                        *)
PostponedOnce ==
    FocusOn /\ focused =>
        \A k \in Deferred :
            \/ GapOf(k) <= last[k]
            \/ unplayed[k] <= last[k]
            \/ steady <= last[k] + Turn

(* For m units it was overdue, and the rotation did not start again: by    *)
(* then a rotation that has it has begun, and then it was played.          *)
ComesNext(k, m) ==
    /\ waited[k] <= m \/ unplayed[k] <= Settled(k) + m \/ steady <= Settled(k) + m
    /\ \/ k \notin Range(order) /\ Pace * m + played + Len(order) <= Pace + Longest
       \/ \E i \in 1 .. Len(order) :
             order[i] = k /\ Pace * m + played + i <= (Pace + Longest) + Longest

OverdueInv ==
    /\ \A k \in Deferred : k \notin ready => unplayed[k] = 0
    /\ EntersSoon /\ PostponedOnce
    /\ \A k \in Deferred : Overdue(k) => \E m \in Nat : ComesNext(k, m)

LEMMA SettledIsNat ==
    ASSUME NEW k \in Deferred
    PROVE  Settled(k) \in Nat \ {0} /\ Settled(k)' = Settled(k)
PROOF
<1>1. GapOf(k) \in Nat \ {0} /\ Turn \in Nat \ {0}
  BY GapsArePositive, TurnLasts
<1>2. QED
  BY <1>1 DEF Settled, GapOf, Turn

(* The count begins: less than a rotation is left before the one that has  *)
(* it, or it is in this one.                                               *)
LEMMA CountBegins ==
    ASSUME RotationTyped', NEW k \in Deferred,
           waited'[k] <= 0 \/ unplayed'[k] <= Settled(k) + 0 \/ steady' <= Settled(k) + 0
    PROVE  \E m \in Nat : ComesNext(k, m)'
PROOF
<1>1. /\ Longest \in Nat /\ Pace \in Nat /\ Pace * 0 = 0 /\ Longest' = Longest
      /\ Settled(k)' = Settled(k)
  BY TurnLasts, SettledIsNat DEF Longest
<1>2. /\ order' \in Seq(Segments) /\ Len(order') \in Nat /\ Len(order') <= Longest
      /\ played' \in Nat /\ played' <= Pace
  BY <1>1 DEF RotationTyped
<1>3. CASE k \in Range(order')
  <2>1. PICK i \in 1 .. Len(order') : k = order'[i]
    BY <1>2, <1>3, InRange
  <2>2. Pace * 0 + played' + i <= (Pace + Longest) + Longest
    <3>. DEFINE p == played'
    <3>1. p \in Nat /\ p <= Pace /\ i \in Nat /\ i <= Longest
      BY <1>1, <1>2, <2>1
    <3>. HIDE DEF p
    <3>2. p + i <= (Pace + Longest) + Longest
      BY <1>1, <3>1
    <3>3. 0 + p = p
      BY <3>1
    <3>4. QED
      BY <1>1, <3>2, <3>3 DEF p
  <2>3. ComesNext(k, 0)'
    BY <1>1, <2>1, <2>2 DEF ComesNext
  <2>4. QED
    BY <2>3
<1>4. CASE k \notin Range(order')
  <2>1. 0 + played' + Len(order') <= Pace + Longest
    BY <1>1, <1>2
  <2>2. ComesNext(k, 0)'
    BY <1>1, <1>4, <2>1 DEF ComesNext
  <2>3. QED
    BY <2>2
<1>5. QED
  BY <1>3, <1>4

(* A new rotation has what is overdue.                                     *)
LEMMA OverdueIsIn ==
    ASSUME RotationInv, OverdueInv, order = <<>>, NEW k \in Deferred, Overdue(k)
    PROVE  k \in Range(Rebuilt)
PROOF
<1>1. RotationTyped
  BY DEF RotationInv
<1>2. /\ GapOf(k) \in Nat \ {0} /\ Turn \in Nat \ {0} /\ steady \in Nat /\ last[k] \in Nat
      /\ unplayed[k] \in Nat
      /\ GapOf(k) + Turn <= steady /\ GapOf(k) + Turn <= unplayed[k]
  BY <1>1, GapsArePositive, TurnLasts DEF RotationTyped, Overdue, Settled
<1>3. CASE FocusOn /\ ~focused
  <2>1. Pace * steady + played + Len(order) <= Pace + Longest
    BY <1>3 DEF OverdueInv, EntersSoon
  <2>2. Len(order) = 0
    OBVIOUS
  <2>3. Turn < steady
    BY <1>2
  <2>4. Pace * Turn + Pace <= Pace * steady /\ Pace * Turn \in Nat /\ Pace * steady \in Nat
    BY <1>2, <2>3, PaceTimes
  <2>5. Longest < Pace * Turn /\ Longest \in Nat /\ Pace \in Nat /\ played \in Nat
    BY <1>1, TurnLasts DEF RotationTyped
  <2>. DEFINE x == Pace * steady
              y == Pace * Turn
  <2>6. x + played <= Pace + Longest /\ y + Pace <= x /\ Longest < y /\ x \in Nat /\ y \in Nat
    BY <2>1, <2>2, <2>4, <2>5
  <2>. HIDE DEF x, y
  <2>7. FALSE
    BY <2>5, <2>6
  <2>8. QED
    BY <2>7
<1>4. CASE FocusOn /\ focused
  <2>1. Postponed[k] = last[k]
    BY <1>4 DEF Postponed
  <2>2. GapOf(k) <= last[k] \/ unplayed[k] <= last[k] \/ steady <= last[k] + Turn
    BY <1>4 DEF OverdueInv, PostponedOnce
  <2>3. ~(last[k] < GapOf(k))
    BY <1>2, <2>2
  <2>4. QED
    BY <1>1, <2>1, <2>3, RebuiltHas
<1>5. CASE ~FocusOn
  BY <1>1, <1>5, RebuiltHas
<1>6. QED
  BY <1>3, <1>4, <1>5

(* Entering the focus is no later than a rotation after there was one.     *)
LEMMA EntersInTime ==
    ASSUME RotationTyped, EntersSoon, order = <<>>, FocusOn, ~focused
    PROVE  steady <= Turn
PROOF
<1>1. Pace * steady + played + Len(order) <= Pace + Longest /\ Len(order) = 0
  BY DEF EntersSoon
<1>2. /\ steady \in Nat /\ Turn \in Nat /\ Longest \in Nat /\ Pace \in Nat /\ played \in Nat
      /\ Longest < Pace * Turn
  BY TurnLasts DEF RotationTyped
<1>3. Turn < steady => Pace * Turn + Pace <= Pace * steady
  BY <1>2, PaceTimes
<1>4. Pace * Turn \in Nat /\ Pace * steady \in Nat
  BY <1>2, PaceTimes
<1>. DEFINE x == Pace * steady
            y == Pace * Turn
<1>5. /\ x + played <= Pace + Longest /\ Longest < y /\ x \in Nat /\ y \in Nat
      /\ Turn < steady => y + Pace <= x
  BY <1>1, <1>2, <1>3, <1>4
<1>. HIDE DEF x, y
<1>6. ~(y + Pace <= x)
  BY <1>2, <1>5
<1>7. QED
  BY <1>2, <1>5, <1>6

LEMMA PlayNextOverdue == ASSUME RotationInv, OverdueInv, PlayNext PROVE OverdueInv'
PROOF
<1>1. /\ RotationTyped /\ RotationTyped' /\ played' <= played + 1
      /\ ready' = ready /\ steady' = steady /\ active' = active /\ heightened' = heightened
  BY PlayTyped DEF RotationInv, PlayNext
<1>2. PICK r \in Seq(Segments) :
        /\ r = (IF order = <<>> THEN Rebuilt ELSE order)
        /\ r # <<>> /\ Len(r) <= Longest /\ order' = Tail(r)
        /\ \A k \in Deferred :
             /\ k = Head(r) /\ k \in ready => waited'[k] = 0 /\ unplayed'[k] = 0
             /\ k # Head(r) => /\ waited'[k] = waited[k] /\ unplayed'[k] = unplayed[k]
                               /\ last'[k] = IF order = <<>> THEN Postponed[k] ELSE last[k]
             /\ k \notin ready => waited'[k] = 0 /\ unplayed'[k] = unplayed[k]
  BY PlayTyped
<1>3. /\ Longest \in Nat /\ Turn \in Nat /\ Pace \in Nat /\ Longest' = Longest /\ Turn' = Turn
      /\ played \in Nat /\ played' \in Nat /\ steady \in Nat
      /\ Len(r) \in Nat /\ Len(order') = Len(r) - 1 /\ Len(order') \in Nat
      /\ order' \in Seq(Segments)
      /\ FocusOn' = FocusOn
      /\ focused' = IF order = <<>> THEN FocusOn ELSE focused
  <2>1. /\ Len(r) \in Nat /\ Len(Tail(r)) = Len(r) - 1 /\ Len(Tail(r)) \in Nat
        /\ Tail(r) \in Seq(Segments)
    BY <1>2
  <2>2. FocusOn' = FocusOn
    BY <1>1 DEF FocusOn
  <2>3. focused' = IF order = <<>> THEN FocusOn ELSE focused
    BY DEF PlayNext
  <2>4. QED
    BY <1>1, <1>2, <2>1, <2>2, <2>3, TurnLasts DEF RotationTyped, Longest, Turn
<1>4. \A k \in Deferred : k \notin ready' => unplayed'[k] = 0
  BY <1>1, <1>2 DEF OverdueInv
<1>5. EntersSoon'
  <2>. SUFFICES ASSUME FocusOn, ~focused'
                PROVE  Pace * steady + played' + Len(order') <= Pace + Longest
    BY <1>1, <1>3 DEF EntersSoon
  <2>1. order # <<>> /\ ~focused /\ r = order
    BY <1>2, <1>3
  <2>2. Pace * steady + played + Len(order) <= Pace + Longest
    BY <2>1 DEF OverdueInv, EntersSoon
  <2>. DEFINE x == Pace * steady
  <2>3. x \in Nat /\ x + played + Len(order) <= Pace + Longest
    BY <1>3, <2>2, PaceTimes
  <2>. HIDE DEF x
  <2>4. x + played' + Len(order') <= Pace + Longest
    BY <1>1, <1>3, <2>1, <2>3
  <2>5. QED
    BY <2>4 DEF x
<1>6. PostponedOnce'
  <2>. SUFFICES ASSUME FocusOn, focused', NEW k \in Deferred
                PROVE  \/ GapOf(k) <= last'[k]
                       \/ unplayed'[k] <= last'[k]
                       \/ steady <= last'[k] + Turn
    BY <1>1, <1>3 DEF PostponedOnce, GapOf, Turn
  <2>1. last'[k] \in Nat /\ last[k] \in Nat
    BY <1>1 DEF RotationTyped
  <2>2. CASE unplayed'[k] = 0
    BY <2>1, <2>2
  <2>3. CASE unplayed'[k] # 0
    <3>1. k # Head(r) \/ k \notin ready
      BY <1>2, <2>3
    <3>2. k \in ready
      BY <1>1, <1>4, <2>3
    <3>3. unplayed'[k] = unplayed[k] /\ last'[k] = IF order = <<>> THEN Postponed[k] ELSE last[k]
      BY <1>2, <3>1, <3>2
    <3>4. CASE focused
      <4>1. last'[k] = last[k]
        BY <3>3, <3>4 DEF Postponed
      <4>2. QED
        BY <3>3, <3>4, <4>1 DEF OverdueInv, PostponedOnce
    <3>5. CASE ~focused
      <4>1. order = <<>>
        BY <1>3, <3>5
      <4>2. steady <= Turn
        BY <1>1, <3>5, <4>1, EntersInTime DEF OverdueInv
      <4>3. QED
        BY <1>3, <2>1, <4>2
    <3>6. QED
      BY <3>4, <3>5
  <2>4. QED
    BY <2>2, <2>3
<1>7. ASSUME NEW k \in Deferred, Overdue(k)' PROVE \E m \in Nat : ComesNext(k, m)'
  <2>1. unplayed'[k] # 0 /\ Settled(k)' = Settled(k) /\ Settled(k) \in Nat \ {0}
    BY <1>7, SettledIsNat DEF Overdue
  <2>2. /\ k # Head(r) /\ waited'[k] = waited[k] /\ unplayed'[k] = unplayed[k]
    BY <1>1, <1>2, <1>4, <2>1
  <2>3. Overdue(k)
    BY <1>1, <1>7, <2>1, <2>2 DEF Overdue
  <2>4. PICK m \in Nat : ComesNext(k, m)
    BY <2>3 DEF OverdueInv
  <2>5. waited'[k] <= m \/ unplayed'[k] <= Settled(k)' + m \/ steady' <= Settled(k)' + m
    BY <1>1, <2>1, <2>2, <2>4 DEF ComesNext
  <2>6. /\ \A i \in 1 .. Len(r) : r[i] = k => i - 1 \in 1 .. Len(order') /\ order'[i - 1] = k
        /\ k \in Range(order') => k \in Range(r)
    BY <1>2, <2>2, OneSooner
  <2>. DEFINE x == Pace * m
  <2>7. x \in Nat
    BY <1>3, PaceTimes
  <2>8. ASSUME NEW i \in 1 .. Len(r), r[i] = k, x + played + i <= (Pace + Longest) + Longest
        PROVE  ComesNext(k, m)'
    <3>1. i - 1 \in 1 .. Len(order') /\ order'[i - 1] = k
      BY <2>6, <2>8
    <3>2. x + played' + (i - 1) <= (Pace + Longest) + Longest
      <4>. DEFINE a == x + played
                  b == x + played'
                  d == (Pace + Longest) + Longest
      <4>. HIDE DEF x
      <4>1. a \in Nat /\ b \in Nat /\ d \in Nat /\ b <= a + 1
        <5>. DEFINE q == played'
        <5>1. q \in Nat /\ q <= played + 1 /\ played \in Nat
          BY <1>1, <1>3
        <5>. HIDE DEF q
        <5>2. x + q \in Nat /\ x + played \in Nat /\ x + q <= (x + played) + 1
          BY <2>7, <5>1
        <5>3. d \in Nat
          BY <1>3
        <5>4. QED
          BY <5>2, <5>3 DEF q
      <4>2. i \in Nat /\ a + i <= d
        BY <1>3, <2>8
      <4>. HIDE DEF a, b, d
      <4>3. b + (i - 1) <= d
        BY <4>1, <4>2, Sooner
      <4>4. QED
        BY <4>3 DEF b, d
    <3>3. \E j \in 1 .. Len(order') : order'[j] = k /\ Pace * m + played' + j <= (Pace + Longest) + Longest
      BY <3>1, <3>2
    <3>4. QED
      BY <1>3, <2>5, <3>3 DEF ComesNext
  <2>9. CASE order = <<>>
    <3>1. r = Rebuilt /\ k \in Range(r)
      BY <1>2, <2>3, <2>9, OverdueIsIn
    <3>2. PICK i \in 1 .. Len(r) : k = r[i]
      BY <3>1, InRange
    <3>3. k \notin Range(order) /\ Len(order) = 0 /\ ~\E j \in 1 .. Len(order) : TRUE
      BY <2>9, NoneLeft
    <3>4. x + played + 0 <= Pace + Longest
      BY <2>4, <3>3 DEF ComesNext
    <3>5. x + played + i <= (Pace + Longest) + Longest
      <4>. HIDE DEF x
      <4>1. QED
        BY <1>2, <1>3, <2>7, <3>2, <3>4
    <3>6. QED
      BY <2>8, <3>2, <3>5
  <2>10. CASE order # <<>>
    <3>1. r = order
      BY <1>2, <2>10
    <3>2. CASE \E i \in 1 .. Len(order) :
                 order[i] = k /\ Pace * m + played + i <= (Pace + Longest) + Longest
      BY <2>8, <3>1, <3>2
    <3>3. CASE k \notin Range(order) /\ Pace * m + played + Len(order) <= Pace + Longest
      <4>1. k \notin Range(order')
        BY <2>6, <3>1, <3>3
      <4>2. x + played' + Len(order') <= Pace + Longest
        <5>1. x + played + Len(order) <= Pace + Longest
          BY <3>3
        <5>. HIDE DEF x
        <5>2. QED
          BY <1>1, <1>3, <2>7, <3>1, <5>1
      <4>3. ComesNext(k, m)'
        BY <1>3, <2>5, <4>1, <4>2 DEF ComesNext
      <4>4. QED
        BY <4>3
    <3>4. QED
      BY <2>4, <3>2, <3>3 DEF ComesNext
  <2>11. QED
    BY <2>9, <2>10
<1>8. QED
  BY <1>4, <1>5, <1>6, <1>7 DEF OverdueInv

(* A rotation that starts again postpones nothing; a change of the focus   *)
(* begins another count.                                                   *)
LEMMA StartAgainOverdue ==
    ASSUME RotationInv, OverdueInv, RotationTyped', UNCHANGED <<ready, last, played, unplayed>>,
           StartAgain \/ UNCHANGED <<order, focused, waited>>,
           steady' = IF FocusOn' = FocusOn THEN steady ELSE 0
    PROVE  OverdueInv'
PROOF
<1>1. /\ RotationTyped /\ focused' = focused
      /\ (order' = <<>> /\ waited' = [k \in Deferred |-> 0]) \/ UNCHANGED <<order, waited>>
  BY DEF StartAgain, FromNow, RotationInv
<1>2. /\ Longest \in Nat /\ Turn \in Nat /\ Pace \in Nat /\ Longest' = Longest /\ Turn' = Turn
      /\ played \in Nat /\ played <= Pace /\ steady \in Nat
      /\ Len(order) \in Nat /\ Len(order) <= Longest
      /\ Len(order') \in Nat /\ Len(order') <= Len(order)
  <2>1. order \in Seq(Segments) /\ (order' = <<>> => Len(order') = 0)
    BY <1>1 DEF RotationTyped
  <2>2. QED
    BY <1>1, <2>1, TurnLasts DEF RotationTyped, Longest, Turn
<1>3. \A k \in Deferred : k \notin ready' => unplayed'[k] = 0
  BY DEF OverdueInv
<1>4. CASE FocusOn' # FocusOn
  <2>1. steady' = 0 /\ Pace * 0 = 0
    BY <1>2, <1>4
  <2>2. EntersSoon'
    <3>1. 0 + played + Len(order') <= Pace + Longest
      BY <1>2
    <3>2. QED
      BY <1>2, <2>1, <3>1 DEF EntersSoon
  <2>3. PostponedOnce'
    <3>1. \A k \in Deferred : 0 <= last[k] + Turn
      BY <1>1, <1>2 DEF RotationTyped
    <3>2. QED
      BY <1>2, <2>1, <3>1 DEF PostponedOnce
  <2>4. \A k \in Deferred : ~Overdue(k)'
    BY <2>1, SettledIsNat DEF Overdue
  <2>5. QED
    BY <1>3, <2>2, <2>3, <2>4 DEF OverdueInv
<1>5. CASE FocusOn' = FocusOn
  <2>1. steady' = steady
    BY <1>5
  <2>2. EntersSoon'
    <3>. SUFFICES ASSUME FocusOn, ~focused
                  PROVE  Pace * steady + played + Len(order') <= Pace + Longest
      BY <1>1, <1>2, <1>5, <2>1 DEF EntersSoon
    <3>. DEFINE x == Pace * steady
    <3>1. x \in Nat /\ x + played + Len(order) <= Pace + Longest
      BY <1>2, PaceTimes DEF OverdueInv, EntersSoon
    <3>. HIDE DEF x
    <3>2. x + played + Len(order') <= Pace + Longest
      BY <1>2, <3>1
    <3>3. QED
      BY <3>2 DEF x
  <2>3. PostponedOnce'
    BY <1>1, <1>2, <1>5, <2>1 DEF OverdueInv, PostponedOnce, GapOf
  <2>4. ASSUME NEW k \in Deferred, Overdue(k)' PROVE \E m \in Nat : ComesNext(k, m)'
    <3>1. Overdue(k) /\ Settled(k)' = Settled(k)
      BY <2>1, <2>4, SettledIsNat DEF Overdue
    <3>2. CASE order' = <<>> /\ waited' = [j \in Deferred |-> 0]
      <4>1. waited'[k] <= 0
        BY <3>2
      <4>2. QED
        BY <4>1, CountBegins
    <3>3. CASE UNCHANGED <<order, waited>>
      <4>1. PICK m \in Nat : ComesNext(k, m)
        BY <3>1 DEF OverdueInv
      <4>2. ComesNext(k, m)'
        BY <1>2, <2>1, <3>1, <3>3, <4>1 DEF ComesNext
      <4>3. QED
        BY <4>2
    <3>4. QED
      BY <1>1, <3>2, <3>3
  <2>5. QED
    BY <1>3, <2>2, <2>3, <2>4 DEF OverdueInv
<1>6. QED
  BY <1>4, <1>5

LEMMA ReadyChangesOverdue == ASSUME RotationInv, OverdueInv, RotationTyped', ReadyChanges PROVE OverdueInv'
PROOF
<1>1. PICK c \in Deferred :
        /\ ready' = IF c \in ready THEN ready \ {c} ELSE ready \cup {c}
        /\ waited' = [waited EXCEPT ![c] = 0] /\ unplayed' = [unplayed EXCEPT ![c] = 0]
  BY DEF ReadyChanges
<1>2. UNCHANGED <<active, heightened, order, focused, last, played, steady>>
  BY DEF ReadyChanges
<1>3. /\ unplayed'[c] = 0
      /\ \A k \in Deferred : k # c => unplayed'[k] = unplayed[k] /\ waited'[k] = waited[k]
  BY <1>1 DEF RotationInv, RotationTyped
<1>4. FocusOn' = FocusOn /\ Longest' = Longest /\ Turn' = Turn
  BY <1>2 DEF FocusOn, Longest, Turn
<1>5. \A k \in Deferred : k \notin ready' => unplayed'[k] = 0
  BY <1>1, <1>3 DEF OverdueInv
<1>6. EntersSoon'
  BY <1>2, <1>4 DEF OverdueInv, EntersSoon
<1>7. PostponedOnce'
  <2>1. last[c] \in Nat
    BY DEF RotationInv, RotationTyped
  <2>2. unplayed'[c] <= last'[c]
    BY <1>2, <1>3, <2>1
  <2>3. QED
    BY <1>2, <1>3, <1>4, <2>2 DEF OverdueInv, PostponedOnce, GapOf
<1>8. ASSUME NEW k \in Deferred, Overdue(k)' PROVE \E m \in Nat : ComesNext(k, m)'
  <2>1. k # c /\ Settled(k)' = Settled(k)
    BY <1>3, <1>8, SettledIsNat DEF Overdue
  <2>2. PICK m \in Nat : ComesNext(k, m)
    BY <1>2, <1>3, <1>8, <2>1 DEF Overdue, OverdueInv
  <2>3. ComesNext(k, m)'
    BY <1>2, <1>3, <1>4, <2>1, <2>2 DEF ComesNext
  <2>4. QED
    BY <2>3
<1>9. QED
  BY <1>5, <1>6, <1>7, <1>8 DEF OverdueInv

LEMMA TickOverdue == ASSUME RotationInv, OverdueInv, RotationTyped', RotationTick PROVE OverdueInv'
PROOF
<1>1. /\ played = Pace /\ played' = 0
      /\ last' = [k \in Deferred |-> IF last[k] < GapOf(k) THEN last[k] + 1 ELSE last[k]]
      /\ UNCHANGED <<active, heightened, ready, order, focused>>
  BY DEF RotationTick
<1>2. /\ waited' = [k \in Deferred |-> IF k \in ready /\ waited[k] <= Patience(k) THEN waited[k] + 1 ELSE waited[k]]
      /\ unplayed' = [k \in Deferred |-> IF k \in ready /\ unplayed[k] <= Patience(k) THEN unplayed[k] + 1 ELSE unplayed[k]]
      /\ steady' = IF \E k \in Deferred : steady <= Patience(k) THEN steady + 1 ELSE steady
  BY DEF RotationTick, Later
<1>3. ASSUME NEW k \in Deferred
      PROVE  /\ waited[k] \in Nat /\ waited'[k] \in Nat /\ waited'[k] <= waited[k] + 1
             /\ unplayed[k] \in Nat /\ unplayed'[k] \in Nat /\ unplayed'[k] <= unplayed[k] + 1
             /\ last[k] \in Nat /\ last'[k] \in Nat /\ GapOf(k) \in Nat
             /\ last'[k] = IF last[k] < GapOf(k) THEN last[k] + 1 ELSE last[k]
             /\ k \notin ready => unplayed'[k] = unplayed[k]
  BY <1>1, <1>2, GapsArePositive DEF RotationInv, RotationTyped
<1>4. steady \in Nat /\ steady' \in Nat /\ steady' <= steady + 1
  BY <1>2 DEF RotationInv, RotationTyped
<1>5. /\ FocusOn' = FocusOn /\ Longest' = Longest /\ Turn' = Turn
      /\ Longest \in Nat /\ Pace \in Nat /\ Turn \in Nat
  BY <1>1, TurnLasts DEF FocusOn, Longest, Turn
<1>6. Len(order) \in Nat /\ order \in Seq(Segments)
  BY DEF RotationInv, RotationTyped
<1>7. ASSUME NEW a \in Nat, NEW b \in Nat, b <= a + 1
      PROVE  Pace * a \in Nat /\ Pace * b \in Nat /\ Pace * b <= Pace * a + Pace
  <2>1. Pace * b <= Pace * (a + 1) /\ Pace * (a + 1) = Pace * a + Pace * 1
    BY <1>7, PaceTimes
  <2>2. Pace * 1 = Pace
    BY <1>5
  <2>3. QED
    BY <2>1, <2>2, PaceTimes
<1>8. \A k \in Deferred : k \notin ready' => unplayed'[k] = 0
  BY <1>1, <1>3 DEF OverdueInv
<1>9. EntersSoon'
  <2>. SUFFICES ASSUME FocusOn, ~focused PROVE Pace * steady' + 0 + Len(order) <= Pace + Longest
    BY <1>1, <1>5 DEF EntersSoon
  <2>1. Pace * steady + Pace + Len(order) <= Pace + Longest
    BY <1>1 DEF OverdueInv, EntersSoon
  <2>. DEFINE x == Pace * steady
              y == Pace * steady'
  <2>2. x \in Nat /\ y \in Nat /\ y <= x + Pace /\ x + Pace + Len(order) <= Pace + Longest
    BY <1>4, <1>7, <2>1
  <2>. HIDE DEF x, y
  <2>3. y + 0 + Len(order) <= Pace + Longest
    BY <1>5, <1>6, <2>2
  <2>4. QED
    BY <2>3 DEF y
<1>10. PostponedOnce'
  <2>. SUFFICES ASSUME FocusOn, focused, NEW k \in Deferred
                PROVE  \/ GapOf(k) <= last'[k] \/ unplayed'[k] <= last'[k] \/ steady' <= last'[k] + Turn
    BY <1>1, <1>5 DEF PostponedOnce, GapOf
  <2>1. GapOf(k) <= last[k] \/ unplayed[k] <= last[k] \/ steady <= last[k] + Turn
    BY DEF OverdueInv, PostponedOnce
  <2>2. CASE last[k] < GapOf(k)
    <3>1. last'[k] = last[k] + 1
      BY <1>3, <2>2
    <3>2. QED
      BY <1>3, <1>4, <1>5, <2>1, <2>2, <3>1
  <2>3. CASE ~(last[k] < GapOf(k))
    BY <1>3, <2>3
  <2>4. QED
    BY <2>2, <2>3
<1>11. ASSUME NEW k \in Deferred, Overdue(k)' PROVE \E m \in Nat : ComesNext(k, m)'
  <2>1. Settled(k)' = Settled(k) /\ Settled(k) \in Nat
    BY SettledIsNat
  <2>2. CASE Overdue(k)
    <3>1. PICK m \in Nat : ComesNext(k, m)
      BY <2>2 DEF OverdueInv
    <3>2. \/ waited'[k] <= m + 1
          \/ unplayed'[k] <= Settled(k) + (m + 1)
          \/ steady' <= Settled(k) + (m + 1)
      <4>1. waited[k] <= m \/ unplayed[k] <= Settled(k) + m \/ steady <= Settled(k) + m
        BY <3>1 DEF ComesNext
      <4>2. QED
        BY <1>3, <1>4, <2>1, <4>1
    <3>3. Pace * m \in Nat /\ Pace * (m + 1) \in Nat /\ Pace * (m + 1) <= Pace * m + Pace
      BY <1>7
    <3>. DEFINE x == Pace * m
                y == Pace * (m + 1)
    <3>4. x \in Nat /\ y \in Nat /\ y <= x + Pace
      BY <3>3
    <3>5. ASSUME NEW i \in Nat, NEW e \in Nat, Pace * m + played + i <= e
          PROVE  Pace * (m + 1) + 0 + i <= e
      <4>1. x + Pace + i <= e
        BY <1>1, <3>5
      <4>. HIDE DEF x, y
      <4>2. y + 0 + i <= e
        BY <1>5, <3>4, <3>5, <4>1
      <4>3. QED
        BY <4>2 DEF y
    <3>. HIDE DEF x, y
    <3>6. CASE k \notin Range(order) /\ Pace * m + played + Len(order) <= Pace + Longest
      <4>1. Pace + Longest \in Nat
        BY <1>5
      <4>2. Pace * (m + 1) + 0 + Len(order) <= Pace + Longest
        BY <1>6, <3>5, <3>6, <4>1
      <4>3. ComesNext(k, m + 1)'
        BY <1>1, <1>5, <2>1, <3>2, <3>6, <4>2 DEF ComesNext
      <4>4. QED
        BY <4>3
    <3>7. CASE \E i \in 1 .. Len(order) :
                 order[i] = k /\ Pace * m + played + i <= (Pace + Longest) + Longest
      <4>1. PICK i \in 1 .. Len(order) :
              order[i] = k /\ Pace * m + played + i <= (Pace + Longest) + Longest
        BY <3>7
      <4>2. (Pace + Longest) + Longest \in Nat /\ i \in Nat
        BY <1>5, <1>6
      <4>3. Pace * (m + 1) + 0 + i <= (Pace + Longest) + Longest
        BY <3>5, <4>1, <4>2
      <4>4. ComesNext(k, m + 1)'
        BY <1>1, <1>5, <2>1, <3>2, <4>1, <4>3 DEF ComesNext
      <4>5. QED
        BY <4>4
    <3>8. QED
      BY <3>1, <3>6, <3>7 DEF ComesNext
  <2>3. CASE ~Overdue(k)
    <3>1. unplayed[k] < Settled(k) \/ steady < Settled(k)
      BY <1>3, <1>4, <2>1, <2>3 DEF Overdue
    <3>2. unplayed'[k] <= Settled(k) + 0 \/ steady' <= Settled(k) + 0
      BY <1>3, <1>4, <2>1, <3>1
    <3>3. QED
      BY <3>2, CountBegins
  <2>4. QED
    BY <2>2, <2>3
<1>12. QED
  BY <1>8, <1>9, <1>10, <1>11 DEF OverdueInv

LEMMA OverdueInductive ==
    RotationInv /\ OverdueInv /\ [RotationNext]_rotationVars => RotationInv' /\ OverdueInv'
PROOF
<1>. SUFFICES ASSUME RotationInv, OverdueInv, [RotationNext]_rotationVars PROVE OverdueInv'
  BY RotationInductive
<1>1. RotationTyped'
  BY RotationInductive DEF RotationInv
<1>2. CASE UNCHANGED rotationVars
  BY <1>2 DEF rotationVars, histories, OverdueInv, EntersSoon, PostponedOnce, Overdue, ComesNext,
              FocusOn, Settled, GapOf, Turn, Longest
<1>3. CASE AlertChanges
  BY <1>1, <1>3, StartAgainOverdue DEF AlertChanges, SteadyOrNot
<1>4. CASE ModeFlips
  BY <1>1, <1>4, StartAgainOverdue DEF ModeFlips, SteadyOrNot
<1>5. CASE Interrupted
  <2>1. FocusOn' = FocusOn
    BY <1>5 DEF Interrupted, FocusOn
  <2>2. QED
    BY <1>1, <1>5, <2>1, StartAgainOverdue DEF Interrupted
<1>6. QED
  BY <1>1, <1>2, <1>3, <1>4, <1>5, PlayNextOverdue, ReadyChangesOverdue, TickOverdue DEF RotationNext

LEMMA OverdueInitially == RotationInit => OverdueInv
PROOF
<1>. SUFFICES ASSUME RotationInit PROVE OverdueInv
  OBVIOUS
<1>1. \A k \in Deferred : unplayed[k] = 0
  BY DEF RotationInit
<1>2. \A k \in Deferred : ~Overdue(k)
  BY <1>1, SettledIsNat DEF Overdue
<1>3. steady = 0 /\ played = 0 /\ order = <<>> /\ ~focused
  BY DEF RotationInit
<1>4. Pace * 0 + 0 + Len(<<>>) <= Pace + Longest
  BY TurnLasts
<1>5. EntersSoon /\ PostponedOnce
  BY <1>3, <1>4 DEF EntersSoon, PostponedOnce
<1>6. QED
  BY <1>1, <1>2, <1>5 DEF OverdueInv

LEMMA OverdueComesRound ==
    ASSUME RotationInv, OverdueInv, NEW k \in Deferred, Patience(k) < unplayed[k], Patience(k) < steady
    PROVE  waited[k] <= 2 * Turn
PROOF
<1>1. /\ GapOf(k) \in Nat /\ Turn \in Nat \ {0} /\ Longest \in Nat /\ Pace \in Nat \ {0}
      /\ Longest < Pace * Turn
      /\ waited[k] \in Nat /\ unplayed[k] \in Nat /\ steady \in Nat /\ played \in Nat
      /\ Len(order) \in Nat
  BY TurnLasts, GapsArePositive DEF RotationInv, RotationTyped
<1>2. Patience(k) = Settled(k) + 2 * Turn /\ Settled(k) \in Nat
  BY <1>1 DEF Patience, Settled
<1>3. Overdue(k)
  BY <1>1, <1>2 DEF Overdue
<1>4. PICK m \in Nat : ComesNext(k, m)
  BY <1>3 DEF OverdueInv
<1>5. m <= 2 * Turn
  <2>1. Pace * m + played <= (Pace + Longest) + Longest
    <3>. DEFINE x == Pace * m
    <3>1. x \in Nat
      BY <1>1, PaceTimes
    <3>2. \/ x + played + Len(order) <= Pace + Longest
          \/ \E i \in 1 .. Len(order) : x + played + i <= (Pace + Longest) + Longest
      BY <1>4 DEF ComesNext
    <3>. HIDE DEF x
    <3>3. x + played <= (Pace + Longest) + Longest
      BY <1>1, <3>1, <3>2
    <3>4. QED
      BY <3>3 DEF x
  <2>2. 2 * Turn < m => Pace * (2 * Turn) + Pace <= Pace * m
    BY <1>1, PaceTimes
  <2>3. Pace * (2 * Turn) = Pace * Turn + Pace * Turn /\ Pace * Turn \in Nat /\ Pace * m \in Nat
    <3>1. 2 * Turn = Turn + Turn
      BY <1>1
    <3>2. QED
      BY <1>1, <3>1, PaceTimes
  <2>. DEFINE x == Pace * m
              y == Pace * Turn
  <2>4. /\ x \in Nat /\ y \in Nat /\ Longest < y /\ x + played <= (Pace + Longest) + Longest
        /\ 2 * Turn < m => y + y + Pace <= x
    BY <1>1, <2>1, <2>2, <2>3
  <2>. HIDE DEF x, y
  <2>5. ~(y + y + Pace <= x)
    BY <1>1, <2>4
  <2>6. QED
    BY <1>1, <2>4, <2>5
<1>6. waited[k] <= m \/ unplayed[k] <= Settled(k) + m \/ steady <= Settled(k) + m
  BY <1>4 DEF ComesNext
<1>7. QED
  BY <1>1, <1>2, <1>5, <1>6

(* A routine segment that is ready is played again once its gap and three  *)
(* rotations have passed, however many alerts there are and however often  *)
(* the focus is entered anew, if the rotation goes on; and once there was  *)
(* the same focus, or none, for so long, it is overdue over every restart, *)
(* and is played within two rotations of the last one                      *)
(* (_focus_mode_enabled, _rebuild_cycle_order, notify_flush).              *)
THEOREM RoutineIsBack == RotationSpec => []RoutineReturns
PROOF
<1>1. RotationInv /\ OverdueInv => RoutineReturns
  BY RotationComesRound, OverdueComesRound DEF RoutineReturns
<1>2. QED
  BY <1>1, RotationInitially, OverdueInitially, OverdueInductive, PTL DEF RotationSpec

-----------------------------------------------------------------------------
(* The composition                                                         *)

(* A behaviour of the composition is one of each of its parts, so what is  *)
(* proved of the parts holds of what the run checks.                       *)
THEOREM PartsOfPeripherals ==
    ASSUME NamesAreTrue, OnlySafeResets
    PROVE  Spec => [](/\ ShortIsHeard /\ SaidOnce /\ ProgrammeIsCurrent /\ RoutineReturns
                      /\ TargetsHold /\ TokensFollowClients /\ NoticesHold /\ PushesArrive
                      /\ NotesAreKept)
PROOF
<1>1. Init => /\ EarsInit /\ ProgrammeInit /\ RotationInit /\ TargetsInit
              /\ AuthInit /\ NoticesInit /\ TelnetInit /\ DiscordInit
  BY DEF Init
<1>2. [Next]_vars => /\ [EarsNext]_earsVars /\ [ProgrammeNext]_programmeVars
                     /\ [RotationNext]_rotationVars /\ [TargetsNext]_targetVars
                     /\ [AuthNext]_authVars /\ [NoticesNext]_noticeVars
                     /\ [TelnetNext]_telnetVars /\ [DiscordNext]_discordVars
  BY Zenon DEF Next, Still, vars, Ears, Programmed, Rotation, Located, Authorised, Noticed, Controlled, Logged
<1>3. Spec => /\ EarsSpec /\ ProgrammeSpec /\ RotationSpec /\ TargetsSpec
              /\ AuthSpec /\ NoticesSpec /\ TelnetSpec /\ DiscordSpec
  BY <1>1, <1>2, PTL DEF Spec, EarsSpec, ProgrammeSpec, RotationSpec, TargetsSpec, AuthSpec,
                         NoticesSpec, TelnetSpec, DiscordSpec
<1>4. TelnetSpec => []PushesArrive
  BY PushesGetThere
<1>5. QED
  BY <1>3, <1>4, EventsOnce, ShortMessagesHeard, ProgrammeStaysCurrent, RoutineIsBack, TargetsAreFound,
     TokensFollow, NoticesAreHeard, LogIsKept, PTL
===============================================================================
