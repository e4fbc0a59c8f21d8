------------------------ MODULE IntegrationTokensProofs ------------------------
(* Proofs, for any users, providers, requests and bounds, of the safety       *)
(* properties of IntegrationTokens.                                           *)
EXTENDS IntegrationTokens, TLAPS

(* Credentials that requests for key k were given, of one authorization.      *)
Own(k, c) ==
    /\ c.access \in DOMAIN answers /\ answers[c.access].key = k
    /\ c.refresh # None =>
          c.refresh \in DOMAIN answers /\ answers[c.refresh] = answers[c.access]

(* A code that no callback has misnamed is with its own key only.             *)
OwnCode(code, k) ==
    /\ code \in DOMAIN consents
    /\ code \notin misnamed => consents[code] = k

AnswersInv == \A n \in DOMAIN answers : OwnCode(answers[n].code, answers[n].key)

ReadOK(q) ==
    /\ q.read \in Credentials
    /\ q.read.refresh # None
    /\ Own(q.key, q.read)

TokensOK(q) ==
    /\ Own(q.key, q.tokens)
    /\ q.tokens.refresh = None =>
          q.given = "null" \/ (q.given = "absent" /\ q.kind = "callback")
    /\ q.given = "null" \/ (q.given = "absent" /\ q.kind = "callback") =>
          q.tokens.refresh = None
    /\ q.given = "absent" /\ q.kind = "refresh" => q.tokens.refresh = q.read.refresh
    /\ q.given = "new" =>
          q.tokens.refresh # None
            /\ q.tokens.refresh \in accepted \union cut

RequestOK(q) ==
    /\ q.kind = "callback" /\ q.pc = "calling" => OwnCode(q.code, q.key)
    /\ q.kind = "refresh" => ReadOK(q)
    /\ q.pc = "saving" => TokensOK(q)

RequestInv == \A r \in Requests : req[r] # None => RequestOK(req[r])

RowInv == \A k \in Keys : row[k] # None => Own(k, row[k])

(* A request that is about to store a new refresh token.                      *)
Brings(r) == req[r] # None /\ req[r].pc = "saving" /\ req[r].given = "new"

(* Nobody else has that token: no row, and no request in what it has read or  *)
(* is about to store.                                                         *)
FreshInv ==
    \A r \in Requests :
        Brings(r) =>
            /\ \A k \in Keys :
                 row[k] # None => row[k].refresh # req[r].tokens.refresh
            /\ \A q \in Requests :
                 req[q] # None =>
                   /\ req[q].kind = "refresh" =>
                        req[q].read.refresh # req[r].tokens.refresh
                   /\ req[q].pc = "saving" /\ q # r =>
                        req[q].tokens.refresh # req[r].tokens.refresh

IInv ==
    /\ TypeOK
    /\ AnswersInv
    /\ RequestInv
    /\ RowInv
    /\ FreshInv
    /\ ConnectedAsAsked
    /\ StoredRefreshWorks
-------------------------------------------------------------------------------
(* What the kind and the place of a request tell about its fields.            *)
LEMMA RequestFields ==
    ASSUME NEW q \in Request
    PROVE  /\ q.kind \in {"callback", "refresh"} /\ q.pc \in {"calling", "saving"}
           /\ q.key \in Keys
           /\ q.kind = "callback" /\ q.pc = "calling" => q.code \in 1 .. MaxConsents
           /\ q.kind = "refresh" /\ q.pc = "calling" => q.read \in Credentials
           /\ q.pc = "saving" => q.given \in Given /\ q.tokens \in Credentials
BY DEF Request

LEMMA NoneIsNoCredentials == None \notin Credentials /\ None \notin Nat /\ None \notin Request
BY NoneAssumption

(* Tokens that are somebody's stay so.                                        *)
LEMMA OwnStays ==
    ASSUME answers \in Seq(Answers), answers' \in Seq(Answers),
           \A i \in DOMAIN answers : i \in DOMAIN answers' /\ answers'[i] = answers[i],
           NEW k, NEW c, Own(k, c)
    PROVE  Own(k, c)'
BY DEF Own

(* An answer of the token endpoint adds one entry and keeps the others.       *)
LEMMA AnswerFacts ==
    ASSUME NEW a \in Answers, answers \in Seq(Answers), answers' = Append(answers, a)
    PROVE  /\ answers' \in Seq(Answers)
           /\ Len(answers') = Len(answers) + 1
           /\ DOMAIN answers = 1 .. Len(answers)
           /\ DOMAIN answers' = 1 .. Len(answers) + 1
           /\ answers'[Len(answers) + 1] = a
           /\ \A i \in DOMAIN answers : i \in DOMAIN answers' /\ answers'[i] = answers[i]
OBVIOUS

(* The generated state names the key that it was generated for.               *)
LEMMA RoundTrip == \A k \in Keys : ParseState(GenerateState(k)) = k
BY DEF Keys, ParseState, GenerateState

(* A state names a key or nothing.                                            *)
LEMMA StateNamesKey ==
    ASSUME NEW state \in State, ParseState(state) # None
    PROVE  ParseState(state) \in Keys
BY DEF State, ParseState, Keys

LEMMA InitInv == Init => IInv
BY NoneIsNoCredentials, BoundsAssumption
   DEF Init, IInv, TypeOK, AnswersInv, RequestInv, RequestOK, RowInv, FreshInv, Brings,
       ConnectedAsAsked, StoredRefreshWorks
-------------------------------------------------------------------------------
LEMMA ConnectInv ==
    ASSUME IInv, NEW k \in Keys, Connect(k)
    PROVE  IInv'
<1> USE DEF IInv
<1>1. /\ consents \in Seq(Keys) /\ Len(consents) < MaxConsents
      /\ consents' = Append(consents, k)
      /\ UNCHANGED <<row, req, spent, answers, accepted, asked, misnamed, crossed, cut>>
      BY DEF Connect, TypeOK
<1>2. /\ consents' \in Seq(Keys) /\ Len(consents') = Len(consents) + 1
      /\ \A i \in DOMAIN consents : i \in DOMAIN consents' /\ consents'[i] = consents[i]
      BY <1>1
<1>3. TypeOK'
      BY <1>1, <1>2, BoundsAssumption DEF TypeOK
<1>4. AnswersInv' /\ RequestInv'
      BY <1>1, <1>2 DEF AnswersInv, RequestInv, RequestOK, OwnCode, ReadOK, TokensOK, Own
<1> QED BY <1>1, <1>3, <1>4
        DEF RowInv, Own, FreshInv, Brings, ConnectedAsAsked,
            StoredRefreshWorks, Replacing

LEMMA StartCallbackInv ==
    ASSUME IInv, NEW r \in Requests, NEW k \in Keys, NEW code \in DOMAIN consents,
           NEW own, own => consents[code] = k,
           StartCallback(r, k, code, own)
    PROVE  IInv'
<1> USE DEF IInv
<1> DEFINE q == [kind |-> "callback", pc |-> "calling", key |-> k, code |-> code]
<1>1. /\ req[r] = None
      /\ req' = [req EXCEPT ![r] = q]
      /\ misnamed' = IF own THEN misnamed ELSE misnamed \union {code}
      /\ UNCHANGED <<row, providerVars, asked, crossed, cut>>
      BY DEF StartCallback
<1>2. q \in Request
  <2>1. code \in 1 .. MaxConsents
        BY BoundsAssumption DEF TypeOK
  <2> QED BY <2>1 DEF Request
<1>3. TypeOK'
      BY <1>1, <1>2 DEF TypeOK, providerVars
<1>4. \A p \in Requests : req'[p] = IF p = r THEN q ELSE req[p]
      BY <1>1 DEF TypeOK
<1>5. misnamed \subseteq misnamed' /\ OwnCode(code, k)'
      BY <1>1 DEF OwnCode, providerVars
<1>6. AnswersInv'
      BY <1>1, <1>5 DEF AnswersInv, OwnCode, providerVars
<1>7. RequestInv'
      BY <1>1, <1>4, <1>5 DEF RequestInv, RequestOK, OwnCode, ReadOK, TokensOK, Own, providerVars
<1>8. FreshInv'
      BY <1>1, <1>4 DEF FreshInv, Brings, providerVars
<1>9. StoredRefreshWorks'
      BY <1>1, <1>4 DEF StoredRefreshWorks, Replacing, providerVars
<1> QED BY <1>1, <1>3, <1>6, <1>7, <1>8, <1>9
        DEF providerVars, RowInv, Own, ConnectedAsAsked

(* A redirect with the generated state is for the key that it was begun for.  *)
LEMMA GetCallbackInv ==
    ASSUME IInv, NEW r \in Requests, NEW code \in DOMAIN consents,
           NEW state \in State, GetCallback(r, code, state)
    PROVE  IInv'
<1> DEFINE k == ParseState(state)
<1>1. k \in Keys /\ StartCallback(r, k, code, state = GenerateState(consents[code]))
      BY StateNamesKey DEF GetCallback
<1>2. consents[code] \in Keys
      BY DEF IInv, TypeOK
<1>3. state = GenerateState(consents[code]) => consents[code] = k
      BY <1>2, RoundTrip
<1> QED BY <1>1, <1>3, StartCallbackInv

LEMMA StartRefreshInv ==
    ASSUME IInv, NEW r \in Requests, NEW k \in Keys, StartRefresh(r, k)
    PROVE  IInv'
<1> USE DEF IInv
<1> DEFINE q == [kind |-> "refresh", pc |-> "calling", key |-> k, read |-> row[k]]
<1>1. /\ req[r] = None /\ row[k] # None /\ row[k].refresh # None
      /\ req' = [req EXCEPT ![r] = q]
      /\ UNCHANGED <<row, providerVars, asked, misnamed, crossed, cut>>
      BY DEF StartRefresh
<1>2. row[k] \in Credentials /\ Own(k, row[k])
      BY <1>1 DEF TypeOK, RowInv
<1>3. q \in Request
      BY <1>2 DEF Request
<1>4. TypeOK'
      BY <1>1, <1>3 DEF TypeOK, providerVars
<1>5. \A p \in Requests : req'[p] = IF p = r THEN q ELSE req[p]
      BY <1>1 DEF TypeOK
<1>6. RequestInv'
      BY <1>1, <1>2, <1>5 DEF RequestInv, RequestOK, OwnCode, ReadOK, TokensOK, Own, providerVars
<1>7. FreshInv'
      BY <1>1, <1>5 DEF FreshInv, Brings, providerVars
<1>8. StoredRefreshWorks'
      BY <1>1, <1>5 DEF StoredRefreshWorks, Replacing, providerVars
<1> QED BY <1>1, <1>4, <1>6, <1>7, <1>8
        DEF providerVars, AnswersInv, OwnCode, RowInv, Own, ConnectedAsAsked
-------------------------------------------------------------------------------
LEMMA ExchangeCodeInv ==
    ASSUME IInv, NEW r \in Requests, ExchangeCode(r)
    PROVE  IInv'
<1> USE DEF IInv
<1>0. req[r] \in Request /\ answers \in Seq(Answers)
      BY DEF ExchangeCode, TypeOK
<1>n. PICK n \in Nat : n = Len(answers) + 1
      BY <1>0
<1>k. PICK key \in Keys : key = req[r].key
      BY <1>0, RequestFields
<1>1. /\ req[r] # None /\ req[r].kind = "callback" /\ req[r].pc = "calling"
      /\ n \in Tokens
      /\ spent' = spent \union {req[r].code}
      /\ answers' = Append(answers, [code |-> req[r].code, key |-> key])
      /\ UNCHANGED <<row, consents, asked, misnamed, crossed, cut>>
      BY <1>n, <1>k DEF ExchangeCode
<1>2. PICK given \in Given :
        /\ accepted' = accepted \union IF given = "new" THEN {n} ELSE {}
        /\ req' = [req EXCEPT ![r] =
             [kind |-> "callback", pc |-> "saving", key |-> key,
              given |-> given, read |-> None,
              tokens |-> [access |-> n, refresh |-> IF given = "new" THEN n ELSE None]]]
      BY <1>n, <1>k DEF ExchangeCode
<1> DEFINE tokens == [access |-> n, refresh |-> IF given = "new" THEN n ELSE None]
           q == [kind |-> "callback", pc |-> "saving", key |-> key,
                 given |-> given, read |-> None, tokens |-> tokens]
<1>4. /\ OwnCode(req[r].code, key) /\ req[r].code \in DOMAIN consents
      /\ [code |-> req[r].code, key |-> key] \in Answers
      BY <1>0, <1>1, <1>k, RequestFields DEF RequestInv, RequestOK, OwnCode, Answers
<1>5. /\ answers' \in Seq(Answers) /\ Len(answers') = n
      /\ DOMAIN answers = 1 .. Len(answers) /\ DOMAIN answers' = 1 .. n
      /\ answers'[n] = [code |-> req[r].code, key |-> key]
      /\ \A i \in DOMAIN answers : i \in DOMAIN answers' /\ answers'[i] = answers[i]
      BY <1>1, <1>0, <1>4, <1>n, AnswerFacts
<1>6. n \in Nat /\ n \in DOMAIN answers' /\ n \notin DOMAIN answers /\ n # None
      BY <1>1, <1>0, <1>5, NoneIsNoCredentials DEF Tokens
<1>7. q \in Request
  <2>1. tokens \in Credentials
        BY <1>1 DEF Credentials
  <2> QED BY <1>4, <2>1 DEF Request
<1>8. \A p \in Requests : req'[p] = IF p = r THEN q ELSE req[p]
      BY <1>2 DEF TypeOK
<1>9. TypeOK'
  <2>1. req' \in [Requests -> Request \union {None}]
        BY <1>2, <1>7 DEF TypeOK
  <2>2. accepted' \subseteq DOMAIN answers'
        BY <1>2, <1>5, <1>6 DEF TypeOK
  <2>3. Len(answers') <= MaxTokens
        BY <1>1, <1>5 DEF Tokens
  <2> QED BY <1>1, <1>4, <1>5, <2>1, <2>2, <2>3 DEF TypeOK
<1>a. AnswersInv'
      BY <1>1, <1>4, <1>5 DEF AnswersInv, OwnCode
<1>10. RowInv'
       BY <1>1, <1>0, <1>5, OwnStays DEF RowInv
<1>11. RequestInv'
  <2> SUFFICES ASSUME NEW p \in Requests, (req[p] # None)'
               PROVE  RequestOK(req[p])'
      BY DEF RequestInv
  <2>1. CASE p = r
    <3>1. Own(key, tokens)'
          BY <1>5, <1>6 DEF Own
    <3>2. TokensOK(q)'
          BY <1>2, <1>6, <3>1 DEF TokensOK, Given
    <3>3. RequestOK(q)'
          BY <3>2 DEF RequestOK
    <3> QED BY <1>8, <2>1, <3>3
  <2>2. CASE p # r
    <3>1. req'[p] = req[p]
          BY <1>8, <2>2
    <3>2. RequestOK(req[p])
          BY <3>1 DEF RequestInv
    <3> QED BY <1>1, <1>2, <1>0, <1>5, <3>1, <3>2, OwnStays
            DEF RequestOK, OwnCode, ReadOK, TokensOK
  <2> QED BY <2>1, <2>2
<1>12. FreshInv'
  <2>1. \A k \in Keys : row[k] # None => row[k].refresh # n
        BY <1>6 DEF RowInv, Own
  <2>2. \A p \in Requests : req[p] # None =>
           /\ req[p].kind = "refresh" => req[p].read.refresh # n
           /\ req[p].pc = "saving" => req[p].tokens.refresh # n
        BY <1>6 DEF RequestInv, RequestOK, ReadOK, TokensOK, Own
  <2>3. \A p \in Requests \ {r} : Brings(p)' => Brings(p) /\ req[p].tokens.refresh \in Nat
    <3> SUFFICES ASSUME NEW p \in Requests \ {r}, Brings(p)'
                 PROVE  Brings(p) /\ req[p].tokens.refresh \in Nat
        OBVIOUS
    <3>1. Brings(p)
          BY <1>8 DEF Brings
    <3>2. TokensOK(req[p])
          BY <3>1 DEF Brings, RequestInv, RequestOK
    <3>3. req[p].tokens.refresh \in DOMAIN answers
          BY <3>1, <3>2 DEF Brings, TokensOK, Own
    <3> QED BY <1>0, <1>5, <3>1, <3>3
  <2>4. Brings(r)' => tokens.refresh = n
        BY <1>6, <1>8 DEF Brings
  <2>5. \A p \in Requests \ {r} : Brings(p)' => req[p].tokens.refresh # tokens.refresh
        BY <2>2, <2>3, NoneIsNoCredentials DEF Brings
  <2> QED BY <1>1, <1>8, <2>1, <2>2, <2>3, <2>4, <2>5 DEF FreshInv
<1>13. StoredRefreshWorks'
  <2>1. accepted \subseteq accepted'
        BY <1>2
  <2>2. \A p \in Requests, k \in Keys : Replacing(p, k) => Replacing(p, k)'
        BY <1>1, <1>8 DEF Replacing
  <2> QED BY <1>1, <2>1, <2>2 DEF StoredRefreshWorks
<1> QED BY <1>1, <1>9, <1>a, <1>10, <1>11, <1>12, <1>13 DEF ConnectedAsAsked

LEMMA ExchangeRefreshInv ==
    ASSUME IInv, NEW r \in Requests, ExchangeRefresh(r)
    PROVE  IInv'
<1> USE DEF IInv
<1>0. req[r] \in Request /\ answers \in Seq(Answers)
      BY DEF ExchangeRefresh, TypeOK
<1>n. PICK n \in Nat : n = Len(answers) + 1
      BY <1>0
<1>k. PICK key \in Keys : key = req[r].key
      BY <1>0, RequestFields
<1>r. PICK read \in Credentials : read = req[r].read
      BY <1>0, RequestFields DEF ExchangeRefresh
<1> DEFINE old == read.refresh
<1>1. /\ req[r] # None /\ req[r].kind = "refresh" /\ req[r].pc = "calling"
      /\ old \in accepted
      /\ n \in Tokens
      /\ answers' = Append(answers, [code |-> answers[old].code, key |-> key])
      /\ UNCHANGED <<row, consents, spent, asked, misnamed, crossed, cut>>
      BY <1>n, <1>k, <1>r DEF ExchangeRefresh
<1>2. PICK given \in Given :
        /\ accepted' = IF given = "new" THEN (accepted \ {old}) \union {n} ELSE accepted
        /\ req' = [req EXCEPT ![r] =
             [kind |-> "refresh", pc |-> "saving", key |-> key,
              given |-> given, read |-> read,
              tokens |-> [access |-> n, refresh |-> RefreshToStore(old, given, n)]]]
      BY <1>n, <1>k, <1>r DEF ExchangeRefresh
<1>t. PICK new : new = RefreshToStore(old, given, n)
      OBVIOUS
<1> DEFINE tokens == [access |-> n, refresh |-> new]
           q == [kind |-> "refresh", pc |-> "saving", key |-> key,
                 given |-> given, read |-> read, tokens |-> tokens]
<1>3. /\ given = "absent" => new = old
      /\ given = "null" => new = None
      /\ given = "new" => new = n
      BY <1>t DEF RefreshToStore
<1>4. ReadOK(req[r])
      BY <1>1 DEF RequestInv, RequestOK
<1>5. /\ old # None /\ Own(key, read)
      /\ old \in DOMAIN answers /\ answers[old].key = key
      BY <1>4, <1>k, <1>r DEF ReadOK, Own
<1>a. /\ answers[old] \in Answers /\ OwnCode(answers[old].code, key)
      /\ answers[old] = [code |-> answers[old].code, key |-> key]
  <2>1. answers[old] \in Answers
        BY <1>0, <1>5
  <2>2. OwnCode(answers[old].code, key)
        BY <1>5 DEF AnswersInv
  <2> QED BY <1>5, <2>1, <2>2 DEF Answers
<1>6. /\ answers' \in Seq(Answers) /\ Len(answers') = n
      /\ DOMAIN answers = 1 .. Len(answers) /\ DOMAIN answers' = 1 .. n
      /\ answers'[n] = answers[old]
      /\ \A i \in DOMAIN answers : i \in DOMAIN answers' /\ answers'[i] = answers[i]
      BY <1>0, <1>1, <1>a, <1>n, AnswerFacts
<1>7. n \in DOMAIN answers' /\ n \notin DOMAIN answers /\ n # None
      BY <1>0, <1>n, <1>6, NoneIsNoCredentials
<1>8. q \in Request
  <2>1. old \in Tokens
        BY <1>5 DEF Credentials
  <2>2. tokens \in Credentials
        BY <1>1, <1>3, <2>1 DEF Credentials, Given
  <2> QED BY <2>2 DEF Request
<1>9. \A p \in Requests : req'[p] = IF p = r THEN q ELSE req[p]
      BY <1>2, <1>t DEF TypeOK
<1>10. TypeOK'
  <2>1. req' \in [Requests -> Request \union {None}]
        BY <1>2, <1>t, <1>8 DEF TypeOK
  <2>2. accepted' \subseteq DOMAIN answers'
        BY <1>2, <1>6, <1>7 DEF TypeOK
  <2>3. Len(answers') <= MaxTokens
        BY <1>1, <1>6 DEF Tokens
  <2> QED BY <1>1, <1>6, <2>1, <2>2, <2>3 DEF TypeOK
<1>b. AnswersInv'
      BY <1>1, <1>5, <1>6, <1>a DEF AnswersInv, OwnCode
<1>11. RowInv'
       BY <1>0, <1>1, <1>6, OwnStays DEF RowInv
<1>12. \A p \in Requests : req[p] # None =>
          /\ req[p].kind = "refresh" => req[p].read.refresh # n
          /\ req[p].pc = "saving" => req[p].tokens.refresh # n
       BY <1>7 DEF RequestInv, RequestOK, ReadOK, TokensOK, Own
<1>13. \A p \in Requests \ {r} :
          Brings(p) => req[p].tokens.refresh # old /\ req[p].tokens.refresh # None
       BY <1>1, <1>r DEF FreshInv, Brings, RequestInv, RequestOK, TokensOK
<1>14. RequestInv'
  <2> SUFFICES ASSUME NEW p \in Requests, (req[p] # None)'
               PROVE  RequestOK(req[p])'
      BY DEF RequestInv
  <2>1. CASE p = r
    <3>1. Own(key, tokens)'
          BY <1>3, <1>5, <1>6, <1>7 DEF Own, Given
    <3>2. Own(key, read)'
          BY <1>0, <1>5, <1>6, OwnStays
    <3>3. TokensOK(q)' /\ ReadOK(q)'
          BY <1>2, <1>3, <1>5, <1>7, <3>1, <3>2 DEF TokensOK, ReadOK, Given
    <3>4. RequestOK(q)'
          BY <3>3 DEF RequestOK
    <3> QED BY <1>9, <2>1, <3>4
  <2>2. CASE p # r
    <3>1. req'[p] = req[p]
          BY <1>9, <2>2
    <3>2. RequestOK(req[p])
          BY <3>1 DEF RequestInv
    <3>3. OwnCode(req[p].code, req[p].key) => OwnCode(req[p].code, req[p].key)'
          BY <1>1, <3>1 DEF OwnCode
    <3>4. ReadOK(req[p]) => ReadOK(req[p])'
          BY <1>0, <1>6, <3>1, OwnStays DEF ReadOK
    <3>5. req[p].pc = "saving" /\ TokensOK(req[p]) => TokensOK(req[p])'
          BY <1>0, <1>1, <1>2, <1>6, <1>13, <2>2, <3>1, OwnStays DEF TokensOK, Brings
    <3> QED BY <3>1, <3>2, <3>3, <3>4, <3>5 DEF RequestOK
  <2> QED BY <2>1, <2>2
<1>15. FreshInv'
  <2>1. \A k \in Keys : row[k] # None => row[k].refresh # n
        BY <1>7 DEF RowInv, Own
  <2>2. Brings(r)' => tokens.refresh = n
        BY <1>3, <1>9 DEF Brings
  <2>3. \A p \in Requests \ {r} : Brings(p)' => Brings(p) /\ req[p].tokens.refresh # tokens.refresh
    <3> SUFFICES ASSUME NEW p \in Requests \ {r}, Brings(p)'
                 PROVE  Brings(p) /\ req[p].tokens.refresh # tokens.refresh
        OBVIOUS
    <3>1. Brings(p)
          BY <1>9 DEF Brings
    <3>2. req[p].tokens.refresh # n
          BY <1>12, <3>1 DEF Brings
    <3> QED BY <1>3, <1>13, <3>1, <3>2 DEF Given
  <2>4. read.refresh # n
        BY <1>12, <1>1, <1>r
  <2> QED BY <1>1, <1>9, <1>12, <1>13, <2>1, <2>2, <2>3, <2>4 DEF FreshInv, Brings
<1>16. StoredRefreshWorks'
  <2>1. \A p \in Requests, k \in Keys : Replacing(p, k) => Replacing(p, k)'
        BY <1>1, <1>9 DEF Replacing
  <2>2. \A t \in accepted : t \in accepted' \/ (t = old /\ given = "new")
        BY <1>2
  <2>3. given = "new" /\ row[key].refresh = old => Replacing(r, key)'
        BY <1>1, <1>8, <1>9, NoneIsNoCredentials DEF Replacing
  <2>4. \A k \in Keys : row[k] # None /\ row[k].refresh = old => k = key
        BY <1>5 DEF RowInv, Own
  <2> QED BY <1>1, <2>1, <2>2, <2>3, <2>4 DEF StoredRefreshWorks
<1> QED BY <1>1, <1>10, <1>b, <1>11, <1>14, <1>15, <1>16 DEF ConnectedAsAsked
-------------------------------------------------------------------------------
(* The row gets what the request brings.                                      *)
LEMMA SaveInv ==
    ASSUME IInv, NEW r \in Requests, Save(r)
    PROVE  IInv'
<1> USE DEF IInv
<1>0. req[r] \in Request
      BY DEF Save, TypeOK
<1>k. PICK key \in Keys : key = req[r].key
      BY <1>0, RequestFields
<1>t. PICK tokens \in Credentials : tokens = req[r].tokens
      BY <1>0, RequestFields DEF Save
<1>1. /\ req[r] # None /\ req[r].pc = "saving"
      /\ row' = [row EXCEPT ![key] = tokens]
      /\ req' = [req EXCEPT ![r] = None]
      /\ asked' = IF req[r].kind = "callback" THEN asked \union {key} ELSE asked
      /\ crossed' = IF Overtaken(r) THEN crossed \union {key} ELSE crossed
      /\ UNCHANGED <<providerVars, misnamed, cut>>
      BY <1>k, <1>t DEF Save, Upsert
<1>2. \A p \in Requests : req'[p] = IF p = r THEN None ELSE req[p]
      BY <1>1 DEF TypeOK
<1>3. \A k \in Keys : row'[k] = IF k = key THEN tokens ELSE row[k]
      BY <1>1 DEF TypeOK
<1>4. TokensOK(req[r]) /\ Own(key, tokens)
      BY <1>1, <1>k, <1>t DEF RequestInv, RequestOK, TokensOK
<1>5. TypeOK'
      BY <1>1 DEF TypeOK, providerVars
<1>6. RequestInv'
      BY <1>1, <1>2 DEF RequestInv, RequestOK, OwnCode, ReadOK, TokensOK, Own, providerVars
<1>7. RowInv'
      BY <1>1, <1>3, <1>4 DEF RowInv, Own, providerVars
<1>8. FreshInv'
  <2>1. \A p \in Requests \ {r} : Brings(p) => req[p].tokens.refresh # tokens.refresh
        BY <1>1, <1>t DEF FreshInv
  <2> QED BY <1>1, <1>2, <1>3, <2>1 DEF FreshInv, Brings, providerVars
<1>9. ConnectedAsAsked'
  <2> SUFFICES ASSUME NEW k \in Keys, k \notin crossed'
               PROVE  (row'[k] # None) = (k \in asked')
      BY DEF ConnectedAsAsked
  <2>1. k \notin crossed /\ (row[k] # None) = (k \in asked)
        BY <1>1 DEF ConnectedAsAsked
  <2>2. CASE k # key
        BY <1>1, <1>3, <2>1, <2>2
  <2>3. CASE k = key /\ req[r].kind = "callback"
        BY <1>1, <1>3, <2>3, NoneIsNoCredentials
  <2>4. CASE k = key /\ req[r].kind = "refresh"
    <3>1. row[key] = req[r].read
          BY <1>1, <1>k, <2>4 DEF Overtaken
    <3>2. req[r].read # None
          BY <1>1, <2>4, NoneIsNoCredentials DEF RequestInv, RequestOK, ReadOK
    <3> QED BY <1>1, <1>3, <2>1, <2>4, <3>1, <3>2, NoneIsNoCredentials
  <2> QED BY <1>0, <2>2, <2>3, <2>4, RequestFields
<1>10. StoredRefreshWorks'
  <2> SUFFICES ASSUME NEW k \in Keys, k \notin crossed',
                      row'[k] # None, row'[k].refresh # None
               PROVE  \/ row'[k].refresh \in accepted \union cut
                      \/ \E p \in Requests : Replacing(p, k)'
      BY <1>1 DEF StoredRefreshWorks, providerVars
  <2>1. k \notin crossed
        BY <1>1
  <2>2. row'[k].refresh = row[k].refresh =>
            \A p \in Requests \ {r} : Replacing(p, k) => Replacing(p, k)'
        BY <1>1, <1>2 DEF Replacing
  <2>3. CASE k # key
    <3>1. ~ Replacing(r, k)
          BY <1>k, <2>3 DEF Replacing
    <3> QED BY <1>3, <2>1, <2>2, <2>3, <3>1 DEF StoredRefreshWorks
  <2>4. CASE k = key /\ req[r].given = "new"
        BY <1>3, <1>4, <1>k, <1>t, <2>4 DEF TokensOK
  <2>5. CASE k = key /\ req[r].given # "new"
    <3>1. /\ req[r].given = "absent" /\ req[r].kind = "refresh"
          /\ tokens.refresh = req[r].read.refresh
          BY <1>0, <1>1, <1>3, <1>4, <1>t, <2>5, RequestFields DEF TokensOK, Given
    <3>2. row[key] = req[r].read
          BY <1>1, <1>k, <2>5, <3>1 DEF Overtaken
    <3>3. row[key] # None /\ row[key].refresh # None
          BY <1>1, <3>1, <3>2, NoneIsNoCredentials DEF RequestInv, RequestOK, ReadOK
    <3>4. ~ Replacing(r, k)
          BY <2>5 DEF Replacing
    <3> QED BY <1>3, <2>1, <2>2, <2>5, <3>1, <3>2, <3>3, <3>4 DEF StoredRefreshWorks
  <2> QED BY <2>3, <2>4, <2>5
<1> QED BY <1>1, <1>5, <1>6, <1>7, <1>8, <1>9, <1>10 DEF AnswersInv, OwnCode, providerVars

LEMMA RevokeInv ==
    ASSUME IInv, NEW key \in Keys, Revoke(key)
    PROVE  IInv'
<1> USE DEF IInv
<1>1. /\ row' = [row EXCEPT ![key] = None]
      /\ asked' = asked \ {key}
      /\ UNCHANGED <<req, providerVars, misnamed, crossed, cut>>
      BY DEF Revoke
<1>2. \A k \in Keys : row'[k] = IF k = key THEN None ELSE row[k]
      BY <1>1 DEF TypeOK
<1>3. TypeOK'
      BY <1>1 DEF TypeOK, providerVars
<1>4. RequestInv'
      BY <1>1 DEF RequestInv, RequestOK, OwnCode, ReadOK, TokensOK, Own, providerVars
<1>5. RowInv' /\ FreshInv' /\ ConnectedAsAsked'
      BY <1>1, <1>2 DEF RowInv, Own, FreshInv, Brings, ConnectedAsAsked, providerVars
<1>6. StoredRefreshWorks'
      BY <1>1, <1>2 DEF StoredRefreshWorks, Replacing, providerVars
<1> QED BY <1>1, <1>3, <1>4, <1>5, <1>6 DEF AnswersInv, OwnCode, providerVars

LEMMA AbortInv ==
    ASSUME IInv, NEW r \in Requests, Abort(r)
    PROVE  IInv'
<1> USE DEF IInv
<1>0. req[r] \in Request
      BY DEF Abort, TypeOK
<1>1. /\ req' = [req EXCEPT ![r] = None]
      /\ cut' = IF req[r].pc = "saving" /\ req[r].kind = "refresh" /\ req[r].given = "new"
                THEN cut \union {req[r].read.refresh} ELSE cut
      /\ UNCHANGED <<row, providerVars, asked, misnamed, crossed>>
      BY DEF Abort
<1>2. \A p \in Requests : req'[p] = IF p = r THEN None ELSE req[p]
      BY <1>1 DEF TypeOK
<1>3. TypeOK'
  <2>1. req[r].kind = "refresh" => req[r].read.refresh \in DOMAIN answers
        BY <1>1 DEF Abort, RequestInv, RequestOK, ReadOK, Own
  <2> QED BY <1>1, <2>1 DEF TypeOK, providerVars
<1>4. RequestInv'
      BY <1>1, <1>2 DEF RequestInv, RequestOK, OwnCode, ReadOK, TokensOK, Own, providerVars
<1>5. FreshInv'
      BY <1>1, <1>2 DEF FreshInv, Brings, providerVars
<1>6. StoredRefreshWorks'
  <2>1. \A p \in Requests \ {r}, k \in Keys : Replacing(p, k) => Replacing(p, k)'
        BY <1>1, <1>2 DEF Replacing
  <2>2. \A k \in Keys : Replacing(r, k) => row[k].refresh \in cut'
        BY <1>1 DEF Replacing
  <2>3. cut \subseteq cut'
        BY <1>1
  <2> QED BY <1>1, <2>1, <2>2, <2>3 DEF StoredRefreshWorks, providerVars
<1> QED BY <1>1, <1>3, <1>4, <1>5, <1>6
        DEF AnswersInv, OwnCode, RowInv, Own, ConnectedAsAsked, providerVars

LEMMA WithdrawInv ==
    ASSUME IInv, NEW n \in accepted, Withdraw(n)
    PROVE  IInv'
<1> USE DEF IInv
<1>1. /\ accepted' = accepted \ {n}
      /\ cut' = cut \union {n}
      /\ UNCHANGED <<row, req, consents, spent, answers, asked, misnamed, crossed>>
      BY DEF Withdraw
<1>2. TypeOK'
      BY <1>1 DEF TypeOK
<1>3. RequestInv'
      BY <1>1 DEF RequestInv, RequestOK, OwnCode, ReadOK, TokensOK, Own
<1>4. StoredRefreshWorks'
      BY <1>1 DEF StoredRefreshWorks, Replacing
<1> QED BY <1>1, <1>2, <1>3, <1>4
        DEF AnswersInv, OwnCode, RowInv, Own, FreshInv, Brings, ConnectedAsAsked
-------------------------------------------------------------------------------
LEMMA NextInv == IInv /\ [Next]_vars => IInv'
<1> SUFFICES ASSUME IInv, [Next]_vars
             PROVE  IInv'
    OBVIOUS
<1>1. CASE UNCHANGED vars
      BY <1>1
      DEF vars, providerVars, IInv, TypeOK, AnswersInv, RequestInv, RequestOK, OwnCode,
          ReadOK, TokensOK, RowInv, Own, FreshInv, Brings, ConnectedAsAsked,
          StoredRefreshWorks, Replacing
<1>2. ASSUME NEW r \in Requests, NEW code \in DOMAIN consents, NEW k \in Keys,
             PostCallback(r, code, k)
      PROVE  IInv'
      BY <1>2, StartCallbackInv DEF PostCallback
<1>3. CASE Next
      BY <1>2, <1>3, ConnectInv, RevokeInv, WithdrawInv, GetCallbackInv, StartRefreshInv,
         ExchangeCodeInv, ExchangeRefreshInv, SaveInv, AbortInv DEF Next
<1> QED BY <1>1, <1>3

LEMMA Invariance == Spec => []IInv
BY InitInv, NextInv, PTL DEF Spec

(* Every row, request and history variable of the connections has its type.   *)
THEOREM TypeCorrect == Spec => []TypeOK
<1>1. IInv => TypeOK
      BY DEF IInv
<1> QED BY <1>1, Invariance, PTL

(* The two tokens of a connection go back to one authorization, which was     *)
(* begun for its user and provider or came with a key that was not its own.   *)
THEOREM OwnTokensOnly == Spec => []OwnTokens
<1>1. IInv => OwnTokens
      BY DEF IInv, TypeOK, RowInv, Own, AnswersInv, OwnCode, OwnTokens
<1> QED BY <1>1, Invariance, PTL

(* A user is connected just if that is what they asked for last, except after *)
(* a refresh that wrote to a row that had changed under it.                   *)
THEOREM Connected == Spec => []ConnectedAsAsked
<1>1. IInv => ConnectedAsAsked
      BY DEF IInv
<1> QED BY <1>1, Invariance, PTL

(* The stored refresh token is one the provider takes, or its replacement is  *)
(* on its way, with the named exceptions.                                     *)
THEOREM RefreshWorks == Spec => []StoredRefreshWorks
<1>1. IInv => StoredRefreshWorks
      BY DEF IInv
<1> QED BY <1>1, Invariance, PTL

(* Every step that leaves a connection without its refresh token commits an   *)
(* answer of the provider that brought none, and for a refresh that said so.  *)
THEOREM RefreshKept == Spec => RefreshTokenKept
<1>1. ASSUME IInv, [Next]_vars
      PROVE  [\A k \in Keys :
                /\ row[k] # None /\ row[k].refresh # None
                /\ row'[k] # None /\ row'[k].refresh = None
                => \E r \in Requests : BringsNoRefresh(r, k) /\ req'[r] = None]_vars
  <2> SUFFICES ASSUME NEW k \in Keys,
                      row[k] # None, row[k].refresh # None,
                      row'[k] # None, row'[k].refresh = None
               PROVE  \E r \in Requests : BringsNoRefresh(r, k) /\ req'[r] = None
      OBVIOUS
  <2>1. row' # row
        OBVIOUS
  <2>2. \A j \in Keys : ~ Revoke(j)
        BY <1>1 DEF Revoke, IInv, TypeOK
  <2>3. PICK r \in Requests : Save(r)
        BY <1>1, <2>1, <2>2
        DEF Next, vars, Connect, Withdraw, GetCallback, PostCallback, StartCallback,
            StartRefresh, ExchangeCode, ExchangeRefresh, Abort
  <2>4. /\ req[r] # None /\ req[r].pc = "saving" /\ req'[r] = None
        /\ row' = [row EXCEPT ![req[r].key] = req[r].tokens]
        BY <1>1, <2>3 DEF Save, Upsert, IInv, TypeOK
  <2>5. req[r].key = k /\ req[r].tokens.refresh = None
        BY <1>1, <2>4 DEF IInv, TypeOK
  <2>6. TokensOK(req[r])
        BY <1>1, <2>4 DEF IInv, RequestInv, RequestOK
  <2> QED BY <2>4, <2>5, <2>6 DEF TokensOK, BringsNoRefresh
<1> QED BY <1>1, Invariance, PTL DEF Spec, RefreshTokenKept
===============================================================================
