-------------------------- MODULE IntegrationTokens --------------------------
(* OAuth connections of users to a provider: the connect URL, the callback in  *)
(* both its forms, the refresh of a token and the removal of a connection, on  *)
(* the row that user_integrations has for each user and provider.              *)
(*                                                                             *)
(* The n-th answer of the token endpoint carries access token n and, when it   *)
(* carries one, refresh token n.  Encryption is left out: what is encrypted on *)
(* the way in is decrypted on the way out.                                     *)
EXTENDS Naturals, Sequences

CONSTANTS
    Users, Providers,
    Requests,     \* request slots: how many may be under way at once
    MaxConsents,  \* bound on authorizations ever begun
    MaxTokens,    \* bound on answers of the token endpoint
    None

ASSUME BoundsAssumption == {MaxConsents, MaxTokens} \subseteq Nat

Keys == Users \X Providers

Tokens == 1 .. MaxTokens

Credentials == [access : Tokens, refresh : Tokens \union {None}]

(* A state, generated or sent by a client: of the form provider:user:anything *)
(* or not.  One that names an unknown user fails on the foreign key (Abort).  *)
State == [form : {"named"}, provider : Providers, user : Users]
            \union [form : {"malformed"}]

(* What an answer of the token endpoint was: the authorization that it goes   *)
(* back to and the key of the request that got it.                            *)
Answers == [code : 1 .. MaxConsents, key : Keys]

(* The refresh token of an answer: none, a null, or a new one.                *)
Given == {"absent", "null", "new"}

Request ==
    [kind : {"callback"}, pc : {"calling"}, key : Keys, code : 1 .. MaxConsents]
        \union
    [kind : {"refresh"}, pc : {"calling"}, key : Keys, read : Credentials]
        \union
    [kind : {"callback", "refresh"}, pc : {"saving"}, key : Keys,
     given : Given, tokens : Credentials, read : Credentials \union {None}]

ASSUME NoneAssumption == None \notin Nat \union Credentials \union Request

VARIABLES
    row,       \* user_integrations: the credentials of each key, or None
    req,       \* the request in each slot, or None
    consents,  \* the authorizations begun, in order: the key each is for
    spent,     \* the authorization codes the provider has redeemed
    answers,   \* the answers of the token endpoint, in order
    accepted,  \* the refresh tokens that the provider accepts
    asked,     \* history: the keys last named by a callback, not by a removal
    misnamed,  \* history: codes that came with another key than their own
    crossed,   \* history: keys written by a refresh whose row had changed
    cut        \* history: refresh tokens that ended unknown to us

providerVars == <<consents, spent, answers, accepted>>
vars == <<row, req, providerVars, asked, misnamed, crossed, cut>>

TypeOK ==
    /\ row \in [Keys -> Credentials \union {None}]
    /\ req \in [Requests -> Request \union {None}]
    /\ consents \in Seq(Keys) /\ Len(consents) <= MaxConsents
    /\ spent \subseteq DOMAIN consents
    /\ answers \in Seq(Answers) /\ Len(answers) <= MaxTokens
    /\ accepted \subseteq DOMAIN answers
    /\ asked \subseteq Keys
    /\ misnamed \subseteq DOMAIN consents
    /\ crossed \subseteq Keys
    /\ cut \subseteq DOMAIN answers

Init ==
    /\ row = [k \in Keys |-> None]
    /\ req = [r \in Requests |-> None]
    /\ consents = <<>>
    /\ spent = {}
    /\ answers = <<>>
    /\ accepted = {}
    /\ asked = {} /\ misnamed = {} /\ crossed = {} /\ cut = {}
-------------------------------------------------------------------------------
GenerateState(k) == [form |-> "named", provider |-> k[2], user |-> k[1]]

(* The key a state names: nothing tells who has written it.                   *)
ParseState(state) ==
    IF state.form = "named" THEN <<state.user, state.provider>> ELSE None

(* POST /connect: the user follows the URL and, some time, comes back.  The   *)
(* URL carries the generated state or, verbatim, any the client sends; nobody *)
(* keeps it, and a callback may bring any other (see GetCallback).            *)
Connect(k) ==
    /\ Len(consents) < MaxConsents
    /\ consents' = Append(consents, k)
    /\ UNCHANGED <<row, req, spent, answers, accepted, asked, misnamed, crossed, cut>>

(* A callback for k; "own" tells whether k is what the code was begun for.    *)
StartCallback(r, k, code, own) ==
    /\ req[r] = None
    /\ req' = [req EXCEPT ![r] = [kind |-> "callback", pc |-> "calling",
                                  key |-> k, code |-> code]]
    /\ misnamed' = IF own THEN misnamed ELSE misnamed \union {code}
    /\ UNCHANGED <<row, providerVars, asked, crossed, cut>>

(* Mutant: the provider in the state is ignored.                              *)
GetCallbackAnyProvider(r, code, state) ==
    LET k == ParseState(state)
    IN  /\ k # None
        /\ \E p \in Providers :
            StartCallback(r, <<k[1], p>>, code, state = GenerateState(consents[code]))

(* GET /callback, where the provider sends the user, with whatever state: it  *)
(* alone tells the key, nobody is authenticated.                              *)
GetCallback(r, code, state) ==
    LET k == ParseState(state)
    IN  /\ k # None
        /\ StartCallback(r, k, code, state = GenerateState(consents[code]))

(* POST /callback: any user, with any provider and code; it ignores the state. *)
PostCallback(r, code, k) == StartCallback(r, k, code, k = consents[code])

(* Redeems the code, once; the answer may come without a refresh token.       *)
ExchangeCode(r) ==
    LET n == Len(answers) + 1
    IN  /\ req[r] # None /\ req[r].kind = "callback" /\ req[r].pc = "calling"
        /\ req[r].code \notin spent
        /\ n \in Tokens
        /\ spent' = spent \union {req[r].code}
        /\ answers' = Append(answers, [code |-> req[r].code, key |-> req[r].key])
        /\ \E given \in Given :
            /\ accepted' = accepted \union IF given = "new" THEN {n} ELSE {}
            /\ req' = [req EXCEPT ![r] =
                 [kind |-> "callback", pc |-> "saving", key |-> req[r].key,
                  given |-> given, read |-> None,
                  tokens |-> [access |-> n, refresh |-> IF given = "new" THEN n ELSE None]]]
        /\ UNCHANGED <<row, consents, asked, misnamed, crossed, cut>>

(* POST /{provider}/refresh: a connection without refresh token is a 400.     *)
StartRefresh(r, k) ==
    /\ req[r] = None
    /\ row[k] # None
    /\ row[k].refresh # None
    /\ req' = [req EXCEPT ![r] = [kind |-> "refresh", pc |-> "calling",
                                  key |-> k, read |-> row[k]]]
    /\ UNCHANGED <<row, providerVars, asked, misnamed, crossed, cut>>

(* Mutant: an answer without refresh token leaves none.                       *)
RefreshGivenOnly(old, given, n) == IF given = "new" THEN n ELSE None

(* Mutant: a null is stored as an empty token.                                *)
RefreshStoringEmpty(old, given, n) ==
    [absent |-> old, null |-> 0, new |-> n][given]

(* The old token stays if the answer has no such key.  A null in its place is *)
(* stored as no token.                                                        *)
RefreshToStore(old, given, n) ==
    [absent |-> old, null |-> None, new |-> n][given]

(* The provider takes the token if it is good, and may replace it.            *)
ExchangeRefresh(r) ==
    LET n == Len(answers) + 1
        old == req[r].read.refresh
    IN  /\ req[r] # None /\ req[r].kind = "refresh" /\ req[r].pc = "calling"
        /\ old \in accepted
        /\ n \in Tokens
        /\ answers' = Append(answers, [code |-> answers[old].code, key |-> req[r].key])
        /\ \E given \in Given :
            /\ accepted' = IF given = "new" THEN (accepted \ {old}) \union {n}
                           ELSE accepted
            /\ req' = [req EXCEPT ![r] =
                 [kind |-> "refresh", pc |-> "saving", key |-> req[r].key,
                  given |-> given, read |-> req[r].read,
                  tokens |-> [access |-> n,
                              refresh |-> RefreshToStore(old, given, n)]]]
        /\ UNCHANGED <<row, consents, spent, asked, misnamed, crossed, cut>>
-------------------------------------------------------------------------------
(* A refresh whose row is no longer the one it has read.                      *)
Overtaken(r) == req[r].kind = "refresh" /\ row[req[r].key] # req[r].read

(* Mutant: the upsert leaves the refresh token of the row alone.              *)
UpsertAccess(k, tokens) ==
    IF row[k] = None THEN tokens ELSE [row[k] EXCEPT !.access = tokens.access]

(* INSERT ... ON DUPLICATE KEY UPDATE: all columns, whatever the row has now. *)
Upsert(k, tokens) == tokens

(* _save_tokens and the commit.                                               *)
Save(r) ==
    /\ req[r] # None /\ req[r].pc = "saving"
    /\ row' = [row EXCEPT ![req[r].key] = Upsert(req[r].key, req[r].tokens)]
    /\ req' = [req EXCEPT ![r] = None]
    /\ asked' = IF req[r].kind = "callback" THEN asked \union {req[r].key} ELSE asked
    /\ crossed' = IF Overtaken(r) THEN crossed \union {req[r].key} ELSE crossed
    /\ UNCHANGED <<providerVars, misnamed, cut>>

(* Mutant: the row stays, without its refresh token.                          *)
RevokeRefreshToken(k) ==
    /\ row[k] # None
    /\ row' = [row EXCEPT ![k].refresh = None]
    /\ asked' = asked \ {k}
    /\ UNCHANGED <<req, providerVars, misnamed, crossed, cut>>

(* DELETE /{provider}: the row only; the provider is not told.                *)
Revoke(k) ==
    /\ row[k] # None
    /\ row' = [row EXCEPT ![k] = None]
    /\ asked' = asked \ {k}
    /\ UNCHANGED <<req, providerVars, misnamed, crossed, cut>>

(* The request fails: the provider refuses or does not answer in time, the    *)
(* answer has no access token, the process dies or the commit fails.  When    *)
(* the provider has replaced the refresh token, the stored one is void.       *)
Abort(r) ==
    /\ req[r] # None
    /\ req' = [req EXCEPT ![r] = None]
    /\ cut' = IF req[r].pc = "saving" /\ req[r].kind = "refresh" /\ req[r].given = "new"
              THEN cut \union {req[r].read.refresh} ELSE cut
    /\ UNCHANGED <<row, providerVars, asked, misnamed, crossed>>

(* The provider ends a refresh token: it expires, or the user withdraws the   *)
(* consent in the provider's own settings (each token of it, one by one).     *)
Withdraw(n) ==
    /\ accepted' = accepted \ {n}
    /\ cut' = cut \union {n}
    /\ UNCHANGED <<row, req, consents, spent, answers, asked, misnamed, crossed>>

Next ==
    \/ \E k \in Keys : Connect(k) \/ Revoke(k)
    \/ \E n \in accepted : Withdraw(n)
    \/ \E r \in Requests :
        \/ \E code \in DOMAIN consents :
            \/ \E state \in State : GetCallback(r, code, state)
            \/ \E k \in Keys : PostCallback(r, code, k)
        \/ \E k \in Keys : StartRefresh(r, k)
        \/ ExchangeCode(r) \/ ExchangeRefresh(r)
        \/ Save(r)
        \/ Abort(r)

Spec == Init /\ [][Next]_vars
-------------------------------------------------------------------------------
(* Both tokens of a connection were given to requests for its user and        *)
(* provider and go back to one authorization, through any number of refreshes *)
(* and overlapping callbacks.  That authorization was begun for this user and *)
(* provider, unless a callback came with its code and another key: a state    *)
(* is checked for its form alone, and a code not at all.                      *)
OwnTokens ==
    \A k \in Keys :
        row[k] # None =>
            LET given == answers[row[k].access]
            IN  /\ given.key = k
                /\ given.code \notin misnamed => consents[given.code] = k
                /\ row[k].refresh # None => answers[row[k].refresh] = given

(* A connection exists if the last to name it, callback or removal, was a     *)
(* callback, unless a refresh wrote to a row that had changed since it read   *)
(* it.                                                                        *)
ConnectedAsAsked ==
    \A k \in Keys \ crossed : (row[k] # None) = (k \in asked)

(* A refresh about to store the token that has replaced the stored one.       *)
Replacing(r, k) ==
    /\ req[r] # None /\ req[r].kind = "refresh" /\ req[r].pc = "saving"
    /\ req[r].key = k /\ req[r].given = "new"
    /\ req[r].read.refresh = row[k].refresh

(* A stored refresh token works: the provider accepts it, or a request has    *)
(* its replacement and is about to commit that.  The exceptions: a refresh    *)
(* wrote to a row that had changed, a request broke off with the replacement  *)
(* of this token, or the provider itself ended it.                            *)
StoredRefreshWorks ==
    \A k \in Keys \ crossed :
        row[k] # None /\ row[k].refresh # None =>
            \/ row[k].refresh \in accepted \union cut
            \/ \E r \in Requests : Replacing(r, k)

(* A request about to store credentials without refresh token, for one of the *)
(* two reasons there are.                                                     *)
BringsNoRefresh(r, k) ==
    /\ req[r] # None /\ req[r].key = k /\ req[r].pc = "saving"
    /\ req[r].given = "null" \/ (req[r].given = "absent" /\ req[r].kind = "callback")

(* What costs a connection its refresh token: an answer to a new callback     *)
(* that has none, or a null in the answer to a refresh; never an answer to a  *)
(* refresh that leaves it out, as the provider's usually do.                  *)
RefreshTokenKept ==
    [][\A k \in Keys :
        /\ row[k] # None /\ row[k].refresh # None
        /\ row'[k] # None /\ row'[k].refresh = None
        => \E r \in Requests : BringsNoRefresh(r, k) /\ req'[r] = None
      ]_vars
===============================================================================
