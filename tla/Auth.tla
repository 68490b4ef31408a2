-------------------------------- MODULE Auth --------------------------------
(***************************************************************************)
(* Who may do what in nilcc-api: signing in with a wallet, and the tokens  *)
(* and API keys that requests carry.  The management of API keys is in     *)
(* module ApiKeys.                                                         *)
(*                                                                         *)
(* Sign-in: POST challenge stores a nonce for a wallet, POST login spends  *)
(* it, finds or creates the account of the wallet and answers with a JWT.  *)
(* Every other request is authenticated first (admin key, JWT or API key)  *)
(* and then works on what the middleware found.                            *)
(*                                                                         *)
(* A step is one statement of the database at READ COMMITTED.              *)
(***************************************************************************)
EXTENDS Naturals, FiniteSets

CONSTANTS
    Wallets,
    Nonces,    \* uuids of challenges
    Ids,       \* uuids of accounts
    ApiKeys,   \* uuids of API keys
    Reqs,      \* requests that run at the same time
    None

Types == {"account-admin", "user"}

VARIABLES
    nonces,    \* [Nonces -> its row of auth_nonces, or what became of it]
    accounts,  \* rows of accounts
    tokens,    \* JWTs that have not expired, with who signed the message
    keys,      \* [ApiKeys -> a row of api_keys, or None]
    issued,    \* the API key ids that were given out
    req,       \* [Reqs -> what the request holds]
    spent,     \* history: nonces with which a login succeeded
    revoked    \* history: keys that were deleted or deactivated for good

vars == <<nonces, accounts, tokens, keys, issued, req, spent, revoked>>

NonceRow == [status: {"unused", "fresh", "expired", "gone"}, wallet: Wallets \cup {None}]
Account == [id: Ids, wallet: Wallets]
KeyRow == [account: Ids, type: Types, active: BOOLEAN]
Idle == [op |-> "idle"]

Init ==
    /\ nonces = [n \in Nonces |-> [status |-> "unused", wallet |-> None]]
    /\ accounts = {}
    /\ tokens = {}
    /\ keys = [k \in ApiKeys |-> None]
    /\ issued = {}
    /\ req = [r \in Reqs |-> Idle]
    /\ spent = {}
    /\ revoked = {}

Free(r) == req[r].op = "idle"
End(r) == req' = [req EXCEPT ![r] = Idle]
Become(r, record) == req' = [req EXCEPT ![r] = record]

-----------------------------------------------------------------------------
(* Signing in                                                              *)

CreateChallenge(n, w) ==
    /\ nonces[n].status = "unused"
    /\ nonces' = [nonces EXCEPT ![n] = [status |-> "fresh", wallet |-> w]]
    /\ UNCHANGED <<accounts, tokens, keys, issued, req, spent, revoked>>

(* NONCE_TTL_MS have passed.                                               *)
Expire(n) ==
    /\ nonces[n].status = "fresh"
    /\ nonces' = [nonces EXCEPT ![n].status = "expired"]
    /\ UNCHANGED <<accounts, tokens, keys, issued, req, spent, revoked>>

(* A message that names nonce n, signed by the wallet it names; any other  *)
(* message is refused before the database is asked.                        *)
Login(r, n, w) ==
    /\ Free(r)
    /\ Become(r, [op |-> "login", pc |-> "find", nonce |-> n, signer |-> w, wallet |-> None,
                  late |-> n \in spent])
    /\ UNCHANGED <<nonces, accounts, tokens, keys, issued, spent, revoked>>

At(r, op, pc) == req[r].op = op /\ req[r].pc = pc

Found(n) == nonces[n].status \in {"fresh", "expired"}
Outdated(n) == Found(n) /\ nonces[n].status = "expired"

SameWallet(n, w) == Found(n) /\ nonces[n].wallet = w

LoginFind(r) ==
    LET n == req[r].nonce IN
    /\ At(r, "login", "find")
    /\ SameWallet(n, req[r].signer) /\ ~Outdated(n)
    /\ Become(r, [req[r] EXCEPT !.pc = "delete", !.wallet = nonces[n].wallet])
    /\ UNCHANGED <<nonces, accounts, tokens, keys, issued, spent, revoked>>

(* 401: no such nonce, one that expired and is deleted now, or the nonce   *)
(* of another wallet.                                                      *)
LoginRefused(r) ==
    LET n == req[r].nonce IN
    /\ At(r, "login", "find")
    /\ ~Found(n) \/ Outdated(n) \/ ~SameWallet(n, req[r].signer)
    /\ nonces' = IF Outdated(n) THEN [nonces EXCEPT ![n].status = "gone"] ELSE nonces
    /\ End(r)
    /\ UNCHANGED <<accounts, tokens, keys, issued, spent, revoked>>

(* Variant: the nonce stays until it expires.                              *)
LoginDeleteLater(r) ==
    /\ At(r, "login", "delete")
    /\ Become(r, [req[r] EXCEPT !.pc = "account"])
    /\ UNCHANGED <<nonces, accounts, tokens, keys, issued, spent, revoked>>

(* DELETE, whose number of rows nobody looks at.                           *)
LoginDelete(r) ==
    /\ At(r, "login", "delete")
    /\ nonces' = [nonces EXCEPT ![req[r].nonce].status = "gone"]
    /\ Become(r, [req[r] EXCEPT !.pc = "account"])
    /\ UNCHANGED <<accounts, tokens, keys, issued, spent, revoked>>

(* The JWT carries the id and the wallet of the account.                   *)
Issue(r, id) ==
    /\ tokens' = tokens \cup {[id |-> id, wallet |-> req[r].wallet, signer |-> req[r].signer,
                               late |-> req[r].late]}
    /\ spent' = spent \cup {req[r].nonce}
    /\ End(r)

LoginAccount(r) ==
    /\ At(r, "login", "account")
    /\ \/ \E a \in accounts :
              /\ a.wallet = req[r].wallet
              /\ Issue(r, a.id)
       \/ /\ \A a \in accounts : a.wallet # req[r].wallet
          /\ Become(r, [req[r] EXCEPT !.pc = "create"])
          /\ UNCHANGED <<tokens, spent>>
    /\ UNCHANGED <<nonces, accounts, keys, issued, revoked>>

(* Variant: wallet_address is not unique.                                  *)
TakenNever(w) == FALSE

(* The unique constraint on wallet_address.                                *)
Taken(w) == \E a \in accounts : a.wallet = w

NewId == CHOOSE i \in Ids : \A a \in accounts : a.id # i
IdLeft == \E i \in Ids : \A a \in accounts : a.id # i

(* The account of the wallet is inserted; the row that another request     *)
(* inserted in the meantime makes this one fail with 500.                  *)
LoginCreate(r) ==
    /\ At(r, "login", "create")
    /\ \/ /\ ~Taken(req[r].wallet) /\ IdLeft
          /\ accounts' = accounts \cup {[id |-> NewId, wallet |-> req[r].wallet]}
          /\ Issue(r, NewId)
       \/ /\ Taken(req[r].wallet)
          /\ End(r)
          /\ UNCHANGED <<accounts, tokens, spent>>
    /\ UNCHANGED <<nonces, keys, issued, revoked>>

(* A JWT expires.                                                          *)
TokenExpires(t) ==
    /\ tokens' = tokens \ {t}
    /\ UNCHANGED <<nonces, accounts, keys, issued, req, spent, revoked>>

-----------------------------------------------------------------------------
(* Authentication of the other requests                                    *)

Credentials == [kind: {"admin"}] \cup [kind: {"jwt"}, token: tokens]
               \cup [kind: {"key"}, key: ApiKeys]

Admin == [principal |-> "global-admin", account |-> None, type |-> None]

(* resolveJwtAuthentication                                                *)
ResolveJwt(t) ==
    IF \E a \in accounts : a.id = t.id
    THEN [principal |-> "account-jwt", account |-> t.id, type |-> None]
    ELSE None

(* Variant: a key that was deactivated is found as well.                   *)
FindActiveAny(k) == keys[k] # None

FindActive(k) == keys[k] # None /\ keys[k].active

(* resolveAuthentication                                                   *)
Resolve(c) ==
    CASE c.kind = "admin" -> Admin
      [] c.kind = "jwt"   -> ResolveJwt(c.token)
      [] c.kind = "key"   ->
            IF FindActive(c.key)
            THEN [principal |-> "account-api-key", account |-> keys[c.key].account,
                  type |-> keys[c.key].type]
            ELSE None

(* adminAuthentication                                                     *)
AdminOnly(auth) == auth # None /\ auth.principal = "global-admin"

(* accountIdentityAdminAuthentication: everyone but the API keys of users. *)
IdentityAdmin(auth) ==
    /\ auth # None
    /\ auth.principal = "account-api-key" => auth.type = "account-admin"

(* Variant: any account may be managed.                                    *)
CanManageAny(auth, account) == auth # None

(* assertCanManageIdentityAccount                                          *)
CanManage(auth, account) == auth.principal = "global-admin" \/ auth.account = account

(* An administrator creates an account: 409 if the wallet has one.         *)
CreateAccount(w) ==
    /\ AdminOnly(Resolve([kind |-> "admin"]))
    /\ ~Taken(w) /\ IdLeft
    /\ accounts' = accounts \cup {[id |-> NewId, wallet |-> w]}
    /\ UNCHANGED <<nonces, tokens, keys, issued, req, spent, revoked>>

LoginStep(r) ==
    \/ \E n \in Nonces, w \in Wallets : Login(r, n, w)
    \/ LoginFind(r)
    \/ LoginRefused(r)
    \/ LoginDelete(r)
    \/ LoginAccount(r)
    \/ LoginCreate(r)

AuthStep ==
    \/ \E n \in Nonces, w \in Wallets : CreateChallenge(n, w)
    \/ \E n \in Nonces : Expire(n)
    \/ \E t \in tokens : TokenExpires(t)
    \/ \E w \in Wallets : CreateAccount(w)
    \/ \E r \in Reqs : LoginStep(r)
=============================================================================
