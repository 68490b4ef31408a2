--------------------------- MODULE ApiKeysProofs ---------------------------
(***************************************************************************)
(* Theorems about Auth and ApiKeys, for any wallets, nonces, accounts,     *)
(* keys and number of requests that run at the same time.                  *)
(***************************************************************************)
EXTENDS ApiKeys, TLAPS

-----------------------------------------------------------------------------
(* The inductive invariant, in two halves: what the requests that sign in  *)
(* rely on, and what those that manage keys do.                            *)

LoginReq ==
    [op: {"login"}, pc: {"find", "delete", "account", "create"}, nonce: Nonces,
     signer: Wallets, wallet: Wallets \cup {None}, late: BOOLEAN]

(* Whoever got past the nonce signed for its wallet and came in time; it   *)
(* goes on for the account once the nonce is gone.                         *)
LoginOK(q) == q.op = "login" =>
    /\ q \in LoginReq
    /\ q.late => q.nonce \in spent
    /\ q.pc # "find" => q.wallet = q.signer /\ ~q.late
    /\ q.pc \in {"account", "create"} => nonces[q.nonce].status = "gone"

AuthTables ==
    /\ nonces \in [Nonces -> NonceRow]
    /\ accounts \subseteq Account
    /\ \A a, b \in accounts : a.wallet = b.wallet => a = b
    /\ \A t \in tokens : /\ [id |-> t.id, wallet |-> t.wallet] \in accounts
                         /\ t.wallet = t.signer
                         /\ ~t.late
    /\ spent \subseteq Nonces
    /\ \A n \in spent : nonces[n].status = "gone"

AuthInv == AuthTables /\ \A r \in Reqs : LoginOK(req[r])

KeyOps == {"create", "update", "delete"}
Callers == {"global-admin", "account-jwt", "account-api-key"}

CreateReq ==
    [op: {"create"}, pc: {"start"}, principal: Callers, account: Ids \cup {None},
     target: [key: ApiKeys, account: Ids], entity: {None}, columns: {{}}]
UpdateReq ==
    [op: {"update"}, pc: {"start", "save", "write", "insert"}, principal: Callers,
     account: Ids \cup {None}, target: [key: ApiKeys, fields: Fields],
     entity: KeyRow \cup {None}, columns: SUBSET {"type", "active"}]
DeleteReq ==
    [op: {"delete"}, pc: {"start", "delete"}, principal: Callers, account: Ids \cup {None},
     target: [key: ApiKeys], entity: {None}, columns: {{}}]

Creating(q, k) == q.op = "create" /\ q.target.key = k
Holding(q, k) == q.op = "update" /\ q.pc # "start" /\ q.target.key = k
Deleting(q, k) == q.op = "delete" /\ q.pc # "start" /\ q.target.key = k

KeyReqOK(q) ==
    /\ q = Idle \/ q.op = "login" \/ q \in CreateReq \cup UpdateReq \cup DeleteReq
    /\ q.op \in KeyOps => q.target.key \in issued
    /\ q.op = "update" /\ q.pc # "start" => q.entity \in KeyRow

(* A key belongs to one account for good: the row, and the copies of it    *)
(* that updates hold, name the same one, and who got past the check of the *)
(* caller acts for it.                                                     *)
Owner(k, i) ==
    /\ keys[k] # None => keys[k].account = i
    /\ \A r \in Reqs :
        /\ Holding(req[r], k) => CanManage(req[r], i) /\ req[r].entity.account = i
        /\ Deleting(req[r], k) => CanManage(req[r], i)

(* Nobody knows the uuid of a key before it is created.                    *)
Unknown(k, r) ==
    /\ keys[k] = None /\ k \notin revoked
    /\ \A s \in Reqs : /\ ~Holding(req[s], k) /\ ~Deleting(req[s], k)
                       /\ s # r => ~Creating(req[s], k)

(* Who holds a copy of a revoked key holds an inactive one, unless it was  *)
(* asked to activate it.                                                   *)
StaysRevoked(q, k) ==
    Holding(q, k) => q.target.fields.active = TRUE \/ q.entity.active = FALSE

KeysInv ==
    /\ keys \in [ApiKeys -> KeyRow \cup {None}]
    /\ issued \subseteq ApiKeys
    /\ \A k \in ApiKeys : keys[k] # None => k \in issued
    /\ revoked \subseteq issued
    /\ \A r \in Reqs : KeyReqOK(req[r])
    /\ \A k \in ApiKeys : \E i \in Ids \cup {None} : Owner(k, i)
    /\ \A k \in ApiKeys, r \in Reqs : Creating(req[r], k) => Unknown(k, r)
    /\ \A k \in revoked : ~FindActive(k) /\ \A r \in Reqs : StaysRevoked(req[r], k)

ReqTyped == DOMAIN req = Reqs

IInv == ReqTyped /\ AuthInv /\ KeysInv

-----------------------------------------------------------------------------
(* The request r becomes p.                                                *)

LEMMA OneRequest ==
    ASSUME ReqTyped, NEW r \in Reqs, NEW p, Become(r, p)
    PROVE  /\ ReqTyped'
           /\ req'[r] = p
           /\ \A s \in Reqs : s # r => req'[s] = req[s]
  BY DEF ReqTyped, Become

(* It is not one that signs in, and no table that those use changes.       *)
LEMMA AuthKept ==
    ASSUME ReqTyped, AuthInv, NEW r \in Reqs, NEW p, Become(r, p), p.op # "login",
           UNCHANGED Rest
    PROVE  AuthInv'
<1>1. /\ req'[r] = p
      /\ \A s \in Reqs : s # r => req'[s] = req[s]
  BY OneRequest
<1>2. UNCHANGED <<nonces, accounts, tokens, spent>>
  BY DEF Rest
<1>3. ASSUME NEW s \in Reqs
      PROVE  LoginOK(req[s])'
  <2>1. CASE s = r
    BY <1>1, <2>1 DEF LoginOK
  <2>2. CASE s # r
    BY <1>1, <1>2, <2>2 DEF LoginOK, AuthInv
  <2>. QED BY <2>1, <2>2
<1>. QED BY <1>2, <1>3 DEF AuthInv, AuthTables

(* It is one that signs in or ends, and nothing of the keys changes.       *)
LEMMA KeysKept ==
    ASSUME ReqTyped, KeysInv, NEW r \in Reqs, NEW p, Become(r, p),
           p = Idle \/ p.op = "login",
           UNCHANGED <<keys, issued, revoked>>
    PROVE  KeysInv'
<1>1. /\ req'[r] = p
      /\ \A s \in Reqs : s # r => req'[s] = req[s]
  BY OneRequest
<1>2. p.op \notin KeyOps
  BY DEF Idle, KeyOps
<1>3. \A s \in Reqs : req'[s] = req[s] \/ (s = r /\ req'[s] = p)
  BY <1>1
<1>4. ASSUME NEW s \in Reqs
      PROVE  KeyReqOK(req[s])'
  BY <1>2, <1>3 DEF KeyReqOK, KeysInv, KeyOps
<1>5. ASSUME NEW s \in Reqs, NEW k
      PROVE  /\ Holding(req[s], k)' => Holding(req[s], k) /\ req'[s] = req[s]
             /\ Deleting(req[s], k)' => Deleting(req[s], k) /\ req'[s] = req[s]
             /\ Creating(req[s], k)' => Creating(req[s], k) /\ req'[s] = req[s]
  BY <1>2, <1>3 DEF Holding, Deleting, Creating, KeyOps
<1>6. ASSUME NEW k \in ApiKeys
      PROVE  \E i \in Ids \cup {None} : Owner(k, i)'
  <2>1. PICK i \in Ids \cup {None} : Owner(k, i)
    BY DEF KeysInv
  <2>2. Owner(k, i)'
    BY <1>5, <2>1 DEF Owner, CanManage
  <2>. QED BY <2>2
<1>7. ASSUME NEW k \in ApiKeys, NEW s \in Reqs, Creating(req[s], k)'
      PROVE  Unknown(k, s)'
  BY <1>5, <1>7 DEF KeysInv, Unknown
<1>8. ASSUME NEW k \in revoked
      PROVE  (~FindActive(k))' /\ \A s \in Reqs : StaysRevoked(req[s], k)'
  BY <1>5 DEF KeysInv, FindActive, StaysRevoked
<1>. QED BY <1>4, <1>6, <1>7, <1>8 DEF KeysInv

LEMMA KeysUnchanged ==
    ASSUME KeysInv, UNCHANGED <<keys, issued, revoked, req>>
    PROVE  KeysInv'
<1>1. \A r \in Reqs : KeyReqOK(req[r])'
  BY DEF KeysInv, KeyReqOK
<1>2. \A k \in ApiKeys : \A i : Owner(k, i)' <=> Owner(k, i)
  BY DEF Owner, Holding, Deleting, CanManage
<1>3. \A k \in ApiKeys, r \in Reqs : Creating(req[r], k)' => Unknown(k, r)'
  BY DEF KeysInv, Creating, Unknown, Holding, Deleting
<1>4. \A k \in revoked : (~FindActive(k))' /\ \A r \in Reqs : StaysRevoked(req[r], k)'
  BY DEF KeysInv, FindActive, StaysRevoked, Holding
<1>. QED BY <1>1, <1>2, <1>3, <1>4 DEF KeysInv

-----------------------------------------------------------------------------
(* Signing in                                                              *)

LEMMA NonceStep ==
    ASSUME IInv, NEW n \in Nonces,
           Expire(n) \/ \E w \in Wallets : CreateChallenge(n, w)
    PROVE  IInv'
<1>. USE DEF IInv
<1>1. /\ nonces' \in [Nonces -> NonceRow]
      /\ \A m \in Nonces : m # n => nonces'[m] = nonces[m]
      /\ nonces[n].status # "gone"
      /\ UNCHANGED <<accounts, tokens, keys, issued, req, spent, revoked>>
  <2>1. CASE Expire(n)
    BY <2>1 DEF Expire, AuthInv, AuthTables, NonceRow
  <2>2. ASSUME NEW w \in Wallets, CreateChallenge(n, w)
        PROVE  <1>1!1 /\ <1>1!2 /\ <1>1!3 /\ <1>1!4
    BY <2>2 DEF CreateChallenge, AuthInv, AuthTables, NonceRow
  <2>. QED BY <2>1, <2>2
<1>2. \A m \in Nonces : nonces[m].status = "gone" => nonces'[m].status = "gone"
  BY <1>1
<1>3. \A r \in Reqs : LoginOK(req[r])'
  BY <1>1, <1>2 DEF AuthInv, AuthTables, LoginOK, LoginReq
<1>4. AuthInv'
  BY <1>1, <1>2, <1>3 DEF AuthInv, AuthTables
<1>5. KeysInv' /\ ReqTyped'
  BY <1>1, KeysUnchanged DEF ReqTyped
<1>. QED BY <1>4, <1>5

LEMMA NewIdFresh ==
    ASSUME IdLeft
    PROVE  NewId \in Ids /\ \A a \in accounts : a.id # NewId
  BY DEF IdLeft, NewId

(* The account of a wallet that has none.                                  *)
LEMMA AccountAdded ==
    ASSUME AuthInv, NEW w \in Wallets, ~Taken(w), IdLeft,
           accounts' = accounts \cup {[id |-> NewId, wallet |-> w]}
    PROVE  /\ accounts' \subseteq Account
           /\ \A a, b \in accounts' : a.wallet = b.wallet => a = b
<1>. DEFINE new == [id |-> NewId, wallet |-> w]
<1>1. new \in Account /\ new.wallet = w
  BY NewIdFresh DEF Account
<1>2. accounts' = accounts \cup {new}
  OBVIOUS
<1>. HIDE DEF new
<1>. QED BY <1>1, <1>2 DEF AuthInv, AuthTables, Taken

LEMMA CreateAccountStep ==
    ASSUME IInv, NEW w \in Wallets, CreateAccount(w)
    PROVE  IInv'
<1>. USE DEF IInv
<1>1. /\ accounts' \subseteq Account
      /\ \A a, b \in accounts' : a.wallet = b.wallet => a = b
      /\ accounts \subseteq accounts'
      /\ UNCHANGED <<nonces, tokens, keys, issued, req, spent, revoked>>
  BY AccountAdded DEF CreateAccount
<1>2. AuthInv'
  BY <1>1 DEF AuthInv, AuthTables, LoginOK
<1>3. KeysInv' /\ ReqTyped'
  BY <1>1, KeysUnchanged DEF ReqTyped
<1>. QED BY <1>2, <1>3

LEMMA TokenExpiresStep ==
    ASSUME IInv, NEW t \in tokens, TokenExpires(t)
    PROVE  IInv'
<1>. USE DEF IInv
<1>1. /\ tokens' \subseteq tokens
      /\ UNCHANGED <<nonces, accounts, keys, issued, req, spent, revoked>>
  BY DEF TokenExpires
<1>2. AuthInv'
  BY <1>1 DEF AuthInv, AuthTables, LoginOK
<1>3. KeysInv' /\ ReqTyped'
  BY <1>1, KeysUnchanged DEF ReqTyped
<1>. QED BY <1>2, <1>3

(* What is left to show of a step of a request that signs in.              *)
LEMMA LoginMoves ==
    ASSUME IInv, NEW r \in Reqs, NEW p, Become(r, p), LoginOK(p)',
           p = Idle \/ p.op = "login",
           AuthTables', spent \subseteq spent',
           \A n \in Nonces : nonces[n].status = "gone" => nonces'[n].status = "gone",
           UNCHANGED <<keys, issued, revoked>>
    PROVE  IInv'
<1>. USE DEF IInv
<1>1. /\ ReqTyped'
      /\ req'[r] = p
      /\ \A s \in Reqs : s # r => req'[s] = req[s]
  BY OneRequest
<1>2. ASSUME NEW s \in Reqs
      PROVE  LoginOK(req[s])'
  <2>1. CASE s = r
    BY <1>1, <2>1 DEF LoginOK
  <2>2. CASE s # r
    BY <1>1, <2>2 DEF LoginOK, LoginReq, AuthInv
  <2>. QED BY <2>1, <2>2
<1>3. KeysInv'
  BY KeysKept
<1>. QED BY <1>1, <1>2, <1>3 DEF AuthInv

LEMMA IdleOK == LoginOK(Idle)' /\ LoginOK(Idle)
  BY DEF LoginOK, Idle

LEMMA LoginStart ==
    ASSUME IInv, NEW r \in Reqs, NEW n \in Nonces, NEW w \in Wallets, Login(r, n, w)
    PROVE  IInv'
<1>. USE DEF IInv
<1>0. PICK b \in BOOLEAN : b = (n \in spent)
  <2>1. CASE n \in spent
    <3>1. TRUE = (n \in spent)
      BY <2>1
    <3>. QED BY <3>1, Zenon
  <2>2. CASE n \notin spent
    <3>1. FALSE = (n \in spent)
      BY <2>2
    <3>. QED BY <3>1, Zenon
  <2>. QED BY <2>1, <2>2
<1>1. PICK p : p = [op |-> "login", pc |-> "find", nonce |-> n, signer |-> w, wallet |-> None,
                    late |-> b]
  OBVIOUS
<1>2. Become(r, p) /\ UNCHANGED <<nonces, accounts, tokens, keys, issued, spent, revoked>>
  BY <1>0, <1>1, Zenon DEF Login
<1>3. /\ p.op = "login" /\ p \in LoginReq /\ p.pc = "find"
      /\ p.nonce = n /\ p.late = b
  BY <1>1 DEF LoginReq
<1>4. LoginOK(p)'
  BY <1>0, <1>2, <1>3, Zenon DEF LoginOK
<1>5. AuthTables' /\ UNCHANGED <<spent, nonces>>
  BY <1>2 DEF AuthInv, AuthTables
<1>. QED BY <1>2, <1>3, <1>4, <1>5, LoginMoves

LEMMA LoginFindStep ==
    ASSUME IInv, NEW r \in Reqs, LoginFind(r)
    PROVE  IInv'
<1>. USE DEF IInv
<1>. DEFINE q == req[r]
<1>1. PICK p : p = [q EXCEPT !.pc = "delete", !.wallet = nonces[q.nonce].wallet]
  OBVIOUS
<1>2. /\ Become(r, p) /\ UNCHANGED <<nonces, accounts, tokens, keys, issued, spent, revoked>>
      /\ q.op = "login" /\ q.pc = "find"
      /\ nonces[q.nonce].status = "fresh" /\ nonces[q.nonce].wallet = q.signer
  BY <1>1 DEF LoginFind, At, SameWallet, Outdated, Found
<1>3. q \in LoginReq /\ (q.late => q.nonce \in spent)
  BY <1>2 DEF AuthInv, LoginOK
<1>4. ~q.late
  BY <1>2, <1>3 DEF AuthInv, AuthTables
<1>. HIDE DEF q
<1>5. /\ p \in LoginReq /\ p.op = "login" /\ p.pc = "delete" /\ p.late = q.late
      /\ p.wallet = q.signer /\ p.signer = q.signer
  BY <1>1, <1>2, <1>3 DEF LoginReq
<1>6. LoginOK(p)'
  BY <1>4, <1>5 DEF LoginOK
<1>7. AuthTables' /\ UNCHANGED <<spent, nonces>>
  BY <1>2 DEF AuthInv, AuthTables
<1>. QED BY <1>2, <1>5, <1>6, <1>7, LoginMoves

LEMMA LoginRefusedStep ==
    ASSUME IInv, NEW r \in Reqs, LoginRefused(r)
    PROVE  IInv'
<1>. USE DEF IInv
<1>. DEFINE n == req[r].nonce
<1>1. /\ Become(r, Idle) /\ req[r].op = "login"
      /\ UNCHANGED <<accounts, tokens, keys, issued, spent, revoked>>
      /\ nonces' = nonces \/ nonces' = [nonces EXCEPT ![n].status = "gone"]
  BY DEF LoginRefused, At, End, Become
<1>2. n \in Nonces
  BY <1>1 DEF AuthInv, LoginOK, LoginReq
<1>3. /\ nonces' \in [Nonces -> NonceRow]
      /\ \A m \in Nonces : nonces[m].status = "gone" => nonces'[m].status = "gone"
  BY <1>1, <1>2 DEF AuthInv, AuthTables, NonceRow
<1>4. AuthTables'
  BY <1>1, <1>3 DEF AuthInv, AuthTables
<1>. QED BY <1>1, <1>3, <1>4, IdleOK, LoginMoves

LEMMA LoginDeleteStep ==
    ASSUME IInv, NEW r \in Reqs, LoginDelete(r)
    PROVE  IInv'
<1>. USE DEF IInv
<1>. DEFINE q == req[r]
<1>1. PICK p : p = [q EXCEPT !.pc = "account"]
  OBVIOUS
<1>2. /\ Become(r, p) /\ UNCHANGED <<accounts, tokens, keys, issued, spent, revoked>>
      /\ q.op = "login" /\ q.pc = "delete"
      /\ nonces' = [nonces EXCEPT ![q.nonce].status = "gone"]
  BY <1>1 DEF LoginDelete, At
<1>3. q \in LoginReq /\ q.wallet = q.signer /\ ~q.late
  BY <1>2 DEF AuthInv, LoginOK
<1>4. q.nonce \in Nonces
  BY <1>3 DEF LoginReq
<1>. HIDE DEF q
<1>5. /\ p \in LoginReq /\ p.op = "login" /\ p.pc = "account" /\ p.late = q.late
      /\ p.wallet = q.wallet /\ p.signer = q.signer /\ p.nonce = q.nonce
  BY <1>1, <1>2, <1>3 DEF LoginReq
<1>6. /\ nonces' \in [Nonces -> NonceRow] /\ nonces'[q.nonce].status = "gone"
      /\ \A m \in Nonces : nonces[m].status = "gone" => nonces'[m].status = "gone"
  BY <1>2, <1>4 DEF AuthInv, AuthTables, NonceRow
<1>7. LoginOK(p)'
  BY <1>3, <1>5, <1>6 DEF LoginOK
<1>8. AuthTables'
  BY <1>2, <1>6 DEF AuthInv, AuthTables
<1>. QED BY <1>2, <1>5, <1>6, <1>7, <1>8, LoginMoves

(* A token is issued for account i, of the wallet that signed in.          *)
LEMMA Issued ==
    ASSUME IInv, NEW r \in Reqs, NEW i, req[r].op = "login", req[r].pc \in {"account", "create"},
           Issue(r, i), UNCHANGED <<nonces, keys, issued, revoked>>,
           accounts \subseteq accounts', accounts' \subseteq Account,
           \A a, b \in accounts' : a.wallet = b.wallet => a = b,
           [id |-> i, wallet |-> req[r].wallet] \in accounts'
    PROVE  IInv'
<1>. USE DEF IInv
<1>. DEFINE q == req[r]
            t == [id |-> i, wallet |-> q.wallet, signer |-> q.signer, late |-> q.late]
<1>1. Become(r, Idle) /\ tokens' = tokens \cup {t} /\ spent' = spent \cup {q.nonce}
  BY DEF Issue, End, Become
<1>2. /\ q \in LoginReq /\ q.wallet = q.signer /\ ~q.late
      /\ nonces[q.nonce].status = "gone"
  BY DEF AuthInv, LoginOK
<1>3. q.nonce \in Nonces
  BY <1>2 DEF LoginReq
<1>4. t.id = i /\ t.wallet = q.wallet /\ t.signer = q.signer /\ t.late = q.late
  OBVIOUS
<1>. HIDE DEF t
<1>5. \A u \in tokens' : /\ [id |-> u.id, wallet |-> u.wallet] \in accounts'
                         /\ u.wallet = u.signer
                         /\ ~u.late
  BY <1>1, <1>2, <1>4 DEF AuthInv, AuthTables
<1>6. AuthTables'
  BY <1>1, <1>2, <1>3, <1>5 DEF AuthInv, AuthTables
<1>. QED BY <1>1, <1>6, IdleOK, LoginMoves

LEMMA LoginAccountStep ==
    ASSUME IInv, NEW r \in Reqs, LoginAccount(r)
    PROVE  IInv'
<1>. USE DEF IInv
<1>. DEFINE q == req[r]
<1>1. /\ q.op = "login" /\ q.pc = "account"
      /\ UNCHANGED <<nonces, accounts, keys, issued, revoked>>
  BY DEF LoginAccount, At
<1>2. ASSUME NEW a \in accounts, a.wallet = q.wallet, Issue(r, a.id)
      PROVE  IInv'
  <2>1. a = [id |-> a.id, wallet |-> q.wallet]
    BY <1>2 DEF AuthInv, AuthTables, Account
  <2>2. /\ accounts \subseteq accounts' /\ accounts' \subseteq Account
        /\ \A x, y \in accounts' : x.wallet = y.wallet => x = y
    BY <1>1 DEF AuthInv, AuthTables
  <2>. QED BY <1>1, <1>2, <2>1, <2>2, Issued
<1>3. ASSUME Become(r, [q EXCEPT !.pc = "create"]), UNCHANGED <<tokens, spent>>
      PROVE  IInv'
  <2>1. PICK p : p = [q EXCEPT !.pc = "create"]
    OBVIOUS
  <2>2. /\ q \in LoginReq /\ q.wallet = q.signer /\ ~q.late
        /\ nonces[q.nonce].status = "gone"
    BY <1>1 DEF AuthInv, LoginOK
  <2>3. Become(r, p)
    BY <1>3, <2>1
  <2>. HIDE DEF q
  <2>4. /\ p \in LoginReq /\ p.op = "login" /\ p.pc = "create" /\ p.late = q.late
        /\ p.wallet = q.wallet /\ p.signer = q.signer /\ p.nonce = q.nonce
    BY <1>1, <2>1, <2>2 DEF LoginReq
  <2>5. LoginOK(p)'
    BY <1>1, <2>2, <2>4 DEF LoginOK
  <2>6. AuthTables' /\ UNCHANGED <<spent, nonces>>
    BY <1>1, <1>3 DEF AuthInv, AuthTables
  <2>. QED BY <1>1, <2>3, <2>4, <2>5, <2>6, LoginMoves
<1>. QED BY <1>2, <1>3 DEF LoginAccount

LEMMA LoginCreateStep ==
    ASSUME IInv, NEW r \in Reqs, LoginCreate(r)
    PROVE  IInv'
<1>. USE DEF IInv
<1>. DEFINE w == req[r].wallet
<1>1. /\ req[r].op = "login" /\ req[r].pc = "create"
      /\ UNCHANGED <<nonces, keys, issued, revoked>>
  BY DEF LoginCreate, At
<1>2. w \in Wallets
  BY <1>1 DEF AuthInv, LoginOK, LoginReq
<1>3. CASE /\ ~Taken(w) /\ IdLeft
           /\ accounts' = accounts \cup {[id |-> NewId, wallet |-> w]}
           /\ Issue(r, NewId)
  <2>1. PICK i : i = NewId
    OBVIOUS
  <2>2. /\ accounts' \subseteq Account
        /\ \A a, b \in accounts' : a.wallet = b.wallet => a = b
    BY <1>2, <1>3, AccountAdded
  <2>3. /\ accounts \subseteq accounts' /\ Issue(r, i)
        /\ [id |-> i, wallet |-> w] \in accounts'
    BY <1>3, <2>1
  <2>. QED BY <1>1, <2>2, <2>3, Issued
<1>4. CASE End(r) /\ UNCHANGED <<accounts, tokens, spent>>
  <2>1. Become(r, Idle)
    BY <1>4 DEF End, Become
  <2>2. AuthTables' /\ UNCHANGED <<spent, nonces>>
    BY <1>1, <1>4 DEF AuthInv, AuthTables
  <2>. QED BY <1>1, <2>1, <2>2, IdleOK, LoginMoves
<1>. QED BY <1>3, <1>4 DEF LoginCreate

-----------------------------------------------------------------------------
(* The management of keys                                                  *)

(* What is left to show of a step that changes no key: who got past the    *)
(* check of the caller acts for the owner of the key, and a new key is one *)
(* that nobody has heard of.                                               *)
LEMMA KeyReqMoves ==
    ASSUME IInv, NEW r \in Reqs, NEW p, Become(r, p), p.op # "login", KeyReqOK(p)',
           UNCHANGED <<Rest, keys, revoked>>,
           issued \subseteq issued', issued' \subseteq ApiKeys,
           \A k \in ApiKeys : Creating(p, k) => k \notin issued,
           \A k \in ApiKeys : Holding(p, k) \/ Deleting(p, k) =>
               \A s \in Reqs : ~Creating(req[s], k),
           \A k \in ApiKeys, i \in Ids \cup {None} : Owner(k, i) =>
               /\ Holding(p, k) => CanManage(p, i) /\ p.entity.account = i
               /\ Deleting(p, k) => CanManage(p, i),
           \A k \in revoked : StaysRevoked(p, k)
    PROVE  IInv'
<1>. USE DEF IInv
<1>1. /\ ReqTyped'
      /\ req'[r] = p
      /\ \A s \in Reqs : s # r => req'[s] = req[s]
  BY OneRequest
<1>2. AuthInv'
  BY AuthKept
<1>3. ASSUME NEW s \in Reqs
      PROVE  KeyReqOK(req[s])'
  <2>1. CASE s = r
    BY <1>1, <2>1 DEF KeyReqOK
  <2>2. CASE s # r
    BY <1>1, <2>2 DEF KeyReqOK, KeysInv
  <2>. QED BY <2>1, <2>2
<1>4. ASSUME NEW s \in Reqs, NEW k
      PROVE  /\ s # r => (Holding(req[s], k)' <=> Holding(req[s], k))
             /\ s # r => (Deleting(req[s], k)' <=> Deleting(req[s], k))
             /\ s # r => (Creating(req[s], k)' <=> Creating(req[s], k))
             /\ s = r => (Holding(req[s], k)' <=> Holding(p, k))
             /\ s = r => (Deleting(req[s], k)' <=> Deleting(p, k))
             /\ s = r => (Creating(req[s], k)' <=> Creating(p, k))
  BY <1>1 DEF Holding, Deleting, Creating
<1>5. ASSUME NEW k \in ApiKeys
      PROVE  \E i \in Ids \cup {None} : Owner(k, i)'
  <2>1. PICK i \in Ids \cup {None} : Owner(k, i)
    BY DEF KeysInv
  <2>2. ASSUME NEW s \in Reqs
        PROVE  /\ Holding(req[s], k)' => CanManage(req[s], i)' /\ req'[s].entity.account = i
               /\ Deleting(req[s], k)' => CanManage(req[s], i)'
    <3>1. CASE s = r
      BY <1>1, <1>4, <2>1, <3>1 DEF CanManage
    <3>2. CASE s # r
      BY <1>1, <1>4, <2>1, <3>2 DEF Owner, CanManage
    <3>. QED BY <3>1, <3>2
  <2>3. Owner(k, i)'
    BY <2>1, <2>2 DEF Owner
  <2>. QED BY <2>3
<1>6. ASSUME NEW k \in ApiKeys, NEW s \in Reqs, Creating(req[s], k)'
      PROVE  Unknown(k, s)'
  <2>1. CASE s = r
    <3>1. k \notin issued
      BY <1>4, <1>6, <2>1
    <3>2. keys[k] = None /\ k \notin revoked
      BY <3>1 DEF KeysInv
    <3>3. \A u \in Reqs : ~Holding(req[u], k) /\ ~Deleting(req[u], k) /\ ~Creating(req[u], k)
      BY <3>1 DEF KeysInv, KeyReqOK, KeyOps, Holding, Deleting, Creating
    <3>4. ~Holding(p, k) /\ ~Deleting(p, k)
      <4>1. Creating(p, k)
        BY <1>4, <1>6, <2>1
      <4>. QED BY <4>1 DEF Creating, Holding, Deleting
    <3>. QED BY <1>4, <2>1, <3>2, <3>3, <3>4 DEF Unknown
  <2>2. CASE s # r
    <3>1. Creating(req[s], k) /\ Unknown(k, s)
      BY <1>4, <1>6, <2>2 DEF KeysInv
    <3>2. k \in issued
      BY <3>1 DEF KeysInv, KeyReqOK, KeyOps, Creating
    <3>3. ~Creating(p, k) /\ ~Holding(p, k) /\ ~Deleting(p, k)
      BY <3>1, <3>2
    <3>. QED BY <1>4, <3>1, <3>3 DEF Unknown
  <2>. QED BY <2>1, <2>2
<1>7. ASSUME NEW k \in revoked
      PROVE  (~FindActive(k))' /\ \A s \in Reqs : StaysRevoked(req[s], k)'
  <2>1. (~FindActive(k))'
    BY DEF KeysInv, FindActive
  <2>2. ASSUME NEW s \in Reqs
        PROVE  StaysRevoked(req[s], k)'
    <3>1. CASE s = r
      BY <1>1, <1>4, <3>1 DEF StaysRevoked
    <3>2. CASE s # r
      BY <1>1, <1>4, <3>2 DEF StaysRevoked, KeysInv
    <3>. QED BY <3>1, <3>2
  <2>. QED BY <2>1, <2>2
<1>8. KeysInv'
  BY <1>3, <1>5, <1>6, <1>7 DEF KeysInv
<1>. QED BY <1>1, <1>2, <1>8

(* The request r ends, and the row of key k becomes `row`.                 *)
LEMMA KeyWritten ==
    ASSUME IInv, NEW r \in Reqs, NEW k \in issued, NEW row \in KeyRow \cup {None}, End(r),
           UNCHANGED <<Rest, issued>>,
           keys' = [keys EXCEPT ![k] = row],
           \A s \in Reqs : s # r => ~Creating(req[s], k),
           revoked' \subseteq revoked \cup {k},
           NEW i \in Ids \cup {None}, Owner(k, i), row # None => row.account = i,
           k \in revoked' => /\ ~(row # None /\ row.active)
                             /\ \A s \in Reqs : s # r => StaysRevoked(req[s], k)
    PROVE  IInv'
<1>. USE DEF IInv
<1>1. Become(r, Idle) /\ Idle.op = "idle"
  BY DEF End, Become, Idle
<1>2. /\ ReqTyped'
      /\ req'[r] = Idle
      /\ \A s \in Reqs : s # r => req'[s] = req[s]
  BY <1>1, OneRequest
<1>3. AuthInv'
  BY <1>1, AuthKept
<1>4. ASSUME NEW s \in Reqs, NEW c
      PROVE  /\ Holding(req[s], c)' => s # r /\ req'[s] = req[s] /\ Holding(req[s], c)
             /\ Deleting(req[s], c)' => s # r /\ req'[s] = req[s] /\ Deleting(req[s], c)
             /\ Creating(req[s], c)' => s # r /\ req'[s] = req[s] /\ Creating(req[s], c)
  BY <1>1, <1>2 DEF Holding, Deleting, Creating
<1>5. /\ k \in ApiKeys
      /\ keys' \in [ApiKeys -> KeyRow \cup {None}]
      /\ keys'[k] = row
      /\ \A c \in ApiKeys : c # k => keys'[c] = keys[c]
      /\ \A c \in ApiKeys : keys'[c] # None => c \in issued
      /\ revoked' \subseteq issued
  BY DEF KeysInv
<1>6. ASSUME NEW s \in Reqs
      PROVE  KeyReqOK(req[s])'
  <2>1. CASE s = r
    BY <1>1, <1>2, <2>1 DEF KeyReqOK, KeyOps
  <2>2. CASE s # r
    BY <1>2, <2>2 DEF KeyReqOK, KeysInv
  <2>. QED BY <2>1, <2>2
<1>7. ASSUME NEW c \in ApiKeys
      PROVE  \E j \in Ids \cup {None} : Owner(c, j)'
  <2>1. CASE c = k
    <3>1. Owner(k, i)'
      BY <1>4, <1>5 DEF Owner, CanManage
    <3>. QED BY <2>1, <3>1
  <2>2. CASE c # k
    <3>1. PICK j \in Ids \cup {None} : Owner(c, j)
      BY DEF KeysInv
    <3>2. Owner(c, j)'
      BY <1>4, <1>5, <2>2, <3>1 DEF Owner, CanManage
    <3>. QED BY <3>2
  <2>. QED BY <2>1, <2>2
<1>8. ASSUME NEW c \in ApiKeys, NEW s \in Reqs, Creating(req[s], c)'
      PROVE  Unknown(c, s)'
  <2>1. c # k /\ Unknown(c, s)
    BY <1>4, <1>8 DEF KeysInv
  <2>. QED BY <1>4, <1>5, <2>1 DEF Unknown
<1>9. ASSUME NEW c \in revoked'
      PROVE  (~FindActive(c))' /\ \A s \in Reqs : StaysRevoked(req[s], c)'
  <2>1. CASE c = k
    BY <1>4, <1>5, <1>9, <2>1 DEF FindActive, StaysRevoked
  <2>2. CASE c # k
    <3>1. c \in revoked /\ c \in ApiKeys
      BY <2>2 DEF KeysInv
    <3>. QED BY <1>4, <1>5, <2>2, <3>1 DEF FindActive, StaysRevoked, KeysInv
  <2>. QED BY <2>1, <2>2
<1>10. KeysInv'
  BY <1>5, <1>6, <1>7, <1>8, <1>9 DEF KeysInv
<1>. QED BY <1>2, <1>3, <1>10

(* Whom the middleware can find behind the credentials of a request.       *)
LEMMA ResolveOK ==
    ASSUME IInv, NEW c \in Credentials, Resolve(c) # None
    PROVE  Resolve(c).principal \in Callers /\ Resolve(c).account \in Ids \cup {None}
<1>. USE DEF IInv
<1>1. CASE c.kind = "admin"
  <2>1. Resolve(c) = Admin
    BY <1>1 DEF Resolve
  <2>. QED BY <2>1 DEF Admin, Callers
<1>2. CASE c.kind = "jwt"
  <2>1. Resolve(c) = ResolveJwt(c.token) /\ c.token \in tokens
    BY <1>2 DEF Resolve, Credentials
  <2>2. c.token.id \in Ids
    <3>1. [id |-> c.token.id, wallet |-> c.token.wallet] \in Account
      BY <2>1 DEF AuthInv, AuthTables
    <3>. QED BY <3>1 DEF Account
  <2>. QED BY <2>1, <2>2 DEF ResolveJwt, Callers
<1>3. CASE c.kind = "key"
  <2>. DEFINE auth == [principal |-> "account-api-key", account |-> keys[c.key].account,
                       type |-> keys[c.key].type]
  <2>1. c.key \in ApiKeys /\ FindActive(c.key) /\ Resolve(c) = auth
    BY <1>3 DEF Resolve, Credentials
  <2>2. keys[c.key] \in KeyRow
    BY <2>1 DEF FindActive, KeysInv
  <2>. QED BY <2>1, <2>2 DEF KeyRow, Callers
<1>. QED BY <1>1, <1>2, <1>3 DEF Credentials

LEMMA ArriveStep ==
    ASSUME IInv, NEW r \in Reqs, ArriveAny(r)
    PROVE  IInv'
<1>. USE DEF IInv
<1>1. PICK c \in Credentials :
        \/ \E i \in Ids, k \in ApiKeys \ issued : Arrive(r, c, "create", [key |-> k, account |-> i])
        \/ \E k \in issued, f \in Fields : Arrive(r, c, "update", [key |-> k, fields |-> f])
        \/ \E k \in issued : Arrive(r, c, "delete", [key |-> k])
  BY DEF ArriveAny
<1>2. ASSUME NEW op, NEW target, Arrive(r, c, op, target), target.key \in ApiKeys,
             \/ op = "create" /\ target \in [key: ApiKeys, account: Ids] /\ target.key \notin issued
             \/ op = "update" /\ target \in [key: ApiKeys, fields: Fields]
             \/ op = "delete" /\ target \in [key: ApiKeys]
      PROVE  IInv'
  <2>1. PICK p : p = [op |-> op, pc |-> "start", principal |-> Resolve(c).principal,
                      account |-> Resolve(c).account, target |-> target,
                      entity |-> None, columns |-> {}]
    OBVIOUS
  <2>2. /\ Become(r, p) /\ issued' = issued \cup {target.key}
        /\ UNCHANGED <<Rest, keys, revoked>> /\ Resolve(c) # None
    BY <1>2, <2>1 DEF Arrive, IdentityAdmin
  <2>3. Resolve(c).principal \in Callers /\ Resolve(c).account \in Ids \cup {None}
    BY <2>2, ResolveOK
  <2>4. /\ p.op = op /\ p.op \in KeyOps /\ p.pc = "start" /\ p.target = target
        /\ p \in CreateReq \cup UpdateReq \cup DeleteReq
    BY <1>2, <2>1, <2>3 DEF CreateReq, UpdateReq, DeleteReq, KeyOps
  <2>5. KeyReqOK(p)'
    BY <2>2, <2>4 DEF KeyReqOK
  <2>6. \A k : ~Holding(p, k) /\ ~Deleting(p, k)
    BY <2>4 DEF Holding, Deleting
  <2>7. \A k \in ApiKeys : Creating(p, k) => k \notin issued
    BY <1>2, <2>4 DEF Creating
  <2>8. issued' \subseteq ApiKeys /\ p.op # "login"
    BY <1>2, <2>2, <2>4 DEF KeysInv, KeyOps
  <2>9. \A k \in revoked : StaysRevoked(p, k)
    BY <2>6 DEF StaysRevoked
  <2>. QED BY <2>2, <2>5, <2>6, <2>7, <2>8, <2>9, KeyReqMoves
<1>3. ASSUME NEW i \in Ids, NEW k \in ApiKeys \ issued,
             Arrive(r, c, "create", [key |-> k, account |-> i])
      PROVE  IInv'
  BY <1>2, <1>3
<1>4. ASSUME NEW k \in issued, NEW f \in Fields,
             Arrive(r, c, "update", [key |-> k, fields |-> f])
      PROVE  IInv'
  BY <1>2, <1>4 DEF KeysInv
<1>5. ASSUME NEW k \in issued, Arrive(r, c, "delete", [key |-> k])
      PROVE  IInv'
  BY <1>2, <1>5 DEF KeysInv
<1>. QED BY <1>1, <1>3, <1>4, <1>5

LEMMA RefuseStep ==
    ASSUME IInv, NEW r \in Reqs, Refuse(r)
    PROVE  IInv'
<1>. USE DEF IInv
<1>1. Become(r, Idle) /\ UNCHANGED <<Rest, keys, issued, revoked>>
  BY DEF Refuse, End, Become
<1>2. Idle.op = "idle"
  BY DEF Idle
<1>3. KeyReqOK(Idle)'
  BY <1>2 DEF KeyReqOK, KeyOps
<1>4. \A k : ~Holding(Idle, k) /\ ~Deleting(Idle, k) /\ ~Creating(Idle, k)
  BY <1>2 DEF Holding, Deleting, Creating
<1>5. \A k \in revoked : StaysRevoked(Idle, k)
  BY <1>4 DEF StaysRevoked
<1>6. issued' \subseteq ApiKeys
  BY <1>1 DEF KeysInv
<1>. QED BY <1>1, <1>2, <1>3, <1>4, <1>5, <1>6, KeyReqMoves

LEMMA CreateStep ==
    ASSUME IInv, NEW r \in Reqs, NEW type \in Types, NEW active \in BOOLEAN,
           Create(r, type, active)
    PROVE  IInv'
<1>. USE DEF IInv
<1>. DEFINE k == req[r].target.key
            a == req[r].target.account
<1>1. PICK row : row = [account |-> a, type |-> type, active |-> active]
  OBVIOUS
<1>2. /\ req[r].op = "create" /\ End(r) /\ UNCHANGED <<Rest, issued, revoked>>
      /\ keys' = [keys EXCEPT ![k] = row]
  BY <1>1 DEF Create, At
<1>3. req[r] \in CreateReq /\ k \in issued
  BY <1>2 DEF KeysInv, KeyReqOK, KeyOps, Idle, UpdateReq, DeleteReq
<1>4. a \in Ids /\ k \in ApiKeys
  BY <1>3 DEF CreateReq
<1>5. row \in KeyRow /\ row.account = a
  BY <1>1, <1>4 DEF KeyRow
<1>6. Creating(req[r], k)
  BY <1>2 DEF Creating
<1>7. Unknown(k, r)
  BY <1>4, <1>6 DEF KeysInv
<1>. HIDE DEF k, a
<1>8. Owner(k, a)
  BY <1>7 DEF Unknown, Owner
<1>9. k \notin revoked'
  BY <1>2, <1>7 DEF Unknown
<1>10. \A s \in Reqs : s # r => ~Creating(req[s], k)
  BY <1>7 DEF Unknown
<1>. QED BY <1>2, <1>3, <1>4, <1>5, <1>8, <1>9, <1>10, KeyWritten

(* What is known of a request that updates or deletes a key.               *)
LEMMA UpdateFacts ==
    ASSUME IInv, NEW r \in Reqs, req[r].op = "update"
    PROVE  /\ req[r] \in UpdateReq
           /\ req[r].target.key \in issued /\ req[r].target.key \in ApiKeys
           /\ req[r].target.fields \in Fields
           /\ req[r].pc # "start" => req[r].entity \in KeyRow
<1>1. KeyReqOK(req[r]) /\ issued \subseteq ApiKeys
  BY DEF IInv, KeysInv
<1>2. /\ req[r] \in UpdateReq /\ req[r].target.key \in issued
      /\ req[r].pc # "start" => req[r].entity \in KeyRow
  BY <1>1 DEF KeyReqOK, KeyOps, Idle, CreateReq, DeleteReq
<1>. QED BY <1>1, <1>2 DEF UpdateReq

LEMMA DeleteFacts ==
    ASSUME IInv, NEW r \in Reqs, req[r].op = "delete"
    PROVE  /\ req[r] \in DeleteReq
           /\ req[r].target.key \in issued /\ req[r].target.key \in ApiKeys
<1>1. KeyReqOK(req[r]) /\ issued \subseteq ApiKeys
  BY DEF IInv, KeysInv
<1>. QED BY <1>1 DEF KeyReqOK, KeyOps, Idle, CreateReq, UpdateReq

(* A key that exists, or that somebody got hold of, is not being created.  *)
LEMMA NotCreating ==
    ASSUME IInv, NEW r \in Reqs, NEW k \in ApiKeys,
           keys[k] # None \/ Holding(req[r], k) \/ Deleting(req[r], k)
    PROVE  \A s \in Reqs : ~Creating(req[s], k)
  BY DEF IInv, KeysInv, Unknown

(* The entity that an update makes of a row.                               *)
LEMMA AskedOK ==
    ASSUME NEW row \in KeyRow, NEW f \in Fields
    PROVE  /\ Asked(row, f) \in KeyRow
           /\ Asked(row, f).account = row.account
           /\ row.active = FALSE => f.active = TRUE \/ Asked(row, f).active = FALSE
<1>. DEFINE t == IF f.type = None THEN row.type ELSE f.type
            b == IF f.active = None THEN row.active ELSE f.active
<1>1. /\ f.type \in Types \cup {None} /\ f.active \in BOOLEAN \cup {None}
      /\ row.type \in Types /\ row.active \in BOOLEAN /\ row.account \in Ids
      /\ row = [account |-> row.account, type |-> row.type, active |-> row.active]
  BY DEF Fields, KeyRow
<1>2. t \in Types
  BY <1>1
<1>3. b \in BOOLEAN
  BY <1>1, Zenon
<1>4. row.active = FALSE => f.active = TRUE \/ b = FALSE
  BY <1>1, <1>3, Zenon
<1>5. Asked(row, f) = [row EXCEPT !.type = t, !.active = b]
  BY DEF Asked
<1>. HIDE DEF t, b
<1>6. Asked(row, f) = [account |-> row.account, type |-> t, active |-> b]
  BY <1>1, <1>5
<1>. QED BY <1>1, <1>2, <1>3, <1>4, <1>6 DEF KeyRow

LEMMA UpdateFindStep ==
    ASSUME IInv, NEW r \in Reqs, UpdateFind(r)
    PROVE  IInv'
<1>. USE DEF IInv
<1>. DEFINE q == req[r]
            k == q.target.key
            f == q.target.fields
            e == Asked(keys[k], f)
<1>1. PICK p : p = [q EXCEPT !.pc = "save", !.entity = e]
  OBVIOUS
<1>2. /\ q.op = "update" /\ q.pc = "start"
      /\ keys[k] # None /\ CanManage(q, keys[k].account)
      /\ Become(r, p) /\ UNCHANGED <<Rest, keys, issued, revoked>>
  BY <1>1 DEF UpdateFind, At, Mine
<1>3. q \in UpdateReq /\ k \in issued /\ k \in ApiKeys /\ f \in Fields
  BY <1>2, UpdateFacts
<1>4. keys[k] \in KeyRow
  BY <1>2, <1>3 DEF KeysInv
<1>5. /\ e \in KeyRow /\ e.account = keys[k].account
      /\ keys[k].active = FALSE => f.active = TRUE \/ e.active = FALSE
  BY <1>3, <1>4, AskedOK
<1>. HIDE DEF e
<1>6. /\ p \in UpdateReq /\ p.op = "update" /\ p.pc = "save" /\ p.target = q.target
      /\ p.principal = q.principal /\ p.account = q.account /\ p.entity = e
  BY <1>1, <1>2, <1>3, <1>5 DEF UpdateReq
<1>7. p.target.key = k /\ p.target.fields = f
  BY <1>6
<1>8. issued' \subseteq ApiKeys /\ issued \subseteq issued'
  BY <1>2 DEF KeysInv
<1>9. KeyReqOK(p)'
  BY <1>2, <1>3, <1>5, <1>6, <1>7 DEF KeyReqOK
<1>. HIDE DEF q, k, f
<1>10. \A c : ~Creating(p, c) /\ ~Deleting(p, c) /\ (Holding(p, c) => c = k)
  BY <1>6, <1>7 DEF Creating, Deleting, Holding
<1>11. \A s \in Reqs : ~Creating(req[s], k)
  BY <1>2, <1>3, NotCreating
<1>12. ASSUME NEW c \in ApiKeys, NEW i \in Ids \cup {None}, Owner(c, i), Holding(p, c)
       PROVE  CanManage(p, i) /\ p.entity.account = i
  <2>1. c = k /\ keys[k].account = i
    BY <1>2, <1>10, <1>12 DEF Owner
  <2>. QED BY <1>2, <1>5, <1>6, <2>1 DEF CanManage
<1>13. ASSUME NEW c \in revoked
       PROVE  StaysRevoked(p, c)
  <2>1. CASE c = k
    <3>1. keys[k].active = FALSE
      <4>1. ~keys[k].active
        BY <1>2, <2>1 DEF KeysInv, FindActive
      <4>2. keys[k].active \in BOOLEAN
        BY <1>4 DEF KeyRow
      <4>. QED BY <4>1, <4>2, Zenon
    <3>. QED BY <1>5, <1>6, <1>7, <3>1 DEF StaysRevoked
  <2>2. CASE c # k
    BY <1>10, <2>2 DEF StaysRevoked
  <2>. QED BY <2>1, <2>2
<1>. QED BY <1>2, <1>6, <1>8, <1>9, <1>10, <1>11, <1>12, <1>13, KeyReqMoves

LEMMA UpdateSelectStep ==
    ASSUME IInv, NEW r \in Reqs, UpdateSelect(r)
    PROVE  IInv'
<1>. USE DEF IInv
<1>. DEFINE q == req[r]
            k == q.target.key
            pc == IF keys[k] = None THEN "insert" ELSE "write"
            cols == IF keys[k] = None THEN {}
                    ELSE {c \in {"type", "active"} : keys[k][c] # q.entity[c]}
<1>1. PICK p : p = [q EXCEPT !.pc = pc, !.columns = cols]
  OBVIOUS
<1>2. /\ q.op = "update" /\ q.pc = "save"
      /\ Become(r, p) /\ UNCHANGED <<Rest, keys, issued, revoked>>
  BY <1>1 DEF UpdateSelect, At
<1>3. q \in UpdateReq /\ k \in issued /\ k \in ApiKeys /\ q.entity \in KeyRow
  BY <1>2, UpdateFacts
<1>4. pc \in {"insert", "write"} /\ cols \in SUBSET {"type", "active"}
  OBVIOUS
<1>. HIDE DEF pc, cols
<1>5. /\ p \in UpdateReq /\ p.op = "update" /\ p.pc # "start" /\ p.target = q.target
      /\ p.principal = q.principal /\ p.account = q.account /\ p.entity = q.entity
  BY <1>1, <1>2, <1>3, <1>4 DEF UpdateReq
<1>6. issued' \subseteq ApiKeys /\ issued \subseteq issued'
  BY <1>2 DEF KeysInv
<1>7. KeyReqOK(p)'
  BY <1>2, <1>3, <1>5 DEF KeyReqOK
<1>8. Holding(q, k)
  BY <1>2 DEF Holding
<1>9. \A s \in Reqs : ~Creating(req[s], k)
  BY <1>3, <1>8, NotCreating
<1>10. \A c : ~Creating(p, c) /\ ~Deleting(p, c) /\ (Holding(p, c) => c = k)
  BY <1>5 DEF Creating, Deleting, Holding
<1>11. ASSUME NEW c \in ApiKeys, NEW i \in Ids \cup {None}, Owner(c, i), Holding(p, c)
       PROVE  CanManage(p, i) /\ p.entity.account = i
  <2>1. CanManage(q, i) /\ q.entity.account = i
    BY <1>8, <1>10, <1>11 DEF Owner
  <2>. QED BY <1>5, <2>1 DEF CanManage
<1>12. ASSUME NEW c \in revoked
       PROVE  StaysRevoked(p, c)
  <2>1. StaysRevoked(q, c)
    BY DEF KeysInv
  <2>. QED BY <1>5, <1>8, <1>10, <2>1 DEF StaysRevoked
<1>. QED BY <1>2, <1>5, <1>6, <1>7, <1>9, <1>10, <1>11, <1>12, KeyReqMoves

LEMMA NobodyHolds ==
    ASSUME NEW r, NEW k, Holders(r, k) = {}
    PROVE  \A s \in Reqs : s # r => StaysRevoked(req[s], k)
  BY DEF Holders, StaysRevoked, Holding

LEMMA UpdateWriteStep ==
    ASSUME IInv, NEW r \in Reqs, UpdateWrite(r)
    PROVE  IInv'
<1>. USE DEF IInv
<1>. DEFINE q == req[r]
            k == q.target.key
            f == q.target.fields
<1>1. /\ q.op = "update" /\ q.pc = "write" /\ End(r) /\ UNCHANGED <<Rest, issued>>
      /\ keys' = IF keys[k] = None THEN keys
                 ELSE [keys EXCEPT ![k] = [c \in DOMAIN keys[k] |->
                                IF c \in q.columns THEN q.entity[c] ELSE keys[k][c]]]
      /\ Noted(r, k, f.active = FALSE /\ keys'[k] # None /\ ~keys'[k].active, f.active = TRUE)
  BY DEF UpdateWrite, At, KeysInv
<1>2. /\ q \in UpdateReq /\ k \in issued /\ k \in ApiKeys /\ f \in Fields /\ q.entity \in KeyRow
      /\ keys \in [ApiKeys -> KeyRow \cup {None}]
  BY <1>1, UpdateFacts DEF KeysInv
<1>3. q.columns \in SUBSET {"type", "active"}
  BY <1>2 DEF UpdateReq
<1>4. Holding(q, k)
  BY <1>1 DEF Holding
<1>5. PICK i \in Ids \cup {None} : Owner(k, i)
  BY <1>2 DEF KeysInv
<1>6. \A s \in Reqs : ~Creating(req[s], k)
  BY <1>2, <1>4, NotCreating
<1>7. PICK row : /\ keys' = [keys EXCEPT ![k] = row] /\ row \in KeyRow \cup {None}
                 /\ row # None => /\ keys[k] # None /\ row.account = keys[k].account
                                  /\ row.active \in {q.entity.active, keys[k].active}
  <2>1. CASE keys[k] = None
    <3>1. keys' = [keys EXCEPT ![k] = None]
      BY <1>1, <1>2, <2>1
    <3>. QED BY <3>1
  <2>2. CASE keys[k] # None
    <3>1. PICK w : w = [c \in DOMAIN keys[k] |->
                            IF c \in q.columns THEN q.entity[c] ELSE keys[k][c]]
      OBVIOUS
    <3>2. keys[k] \in KeyRow
      BY <1>2, <2>2
    <3>. HIDE DEF q, k
    <3>3. /\ w \in KeyRow /\ w.account = keys[k].account
          /\ w.active \in {q.entity.active, keys[k].active}
      <4>1. PICK old, e, cols : old = keys[k] /\ e = q.entity /\ cols = q.columns
        OBVIOUS
      <4>2. w = [c \in DOMAIN old |-> IF c \in cols THEN e[c] ELSE old[c]]
        BY <3>1, <4>1
      <4>3. old \in KeyRow /\ e \in KeyRow /\ cols \in SUBSET {"type", "active"}
        BY <1>2, <1>3, <3>2, <4>1
      <4>4. w \in KeyRow /\ w.account = old.account /\ w.active \in {e.active, old.active}
        <5>1. DOMAIN old = {"account", "type", "active"}
          BY <4>3 DEF KeyRow
        <5>2. /\ old.account \in Ids /\ old.type \in Types /\ old.active \in BOOLEAN
              /\ e.type \in Types /\ e.active \in BOOLEAN
          BY <4>3 DEF KeyRow
        <5>3. w = [c \in {"account", "type", "active"} |-> IF c \in cols THEN e[c] ELSE old[c]]
          BY <4>2, <5>1
        <5>4. /\ w.account = old.account
              /\ w.type \in {e.type, old.type}
              /\ w.active \in {e.active, old.active}
          BY <4>3, <5>3
        <5>5. w.type \in Types /\ w.active \in BOOLEAN
          BY <5>2, <5>4
        <5>6. w = [account |-> w.account, type |-> w.type, active |-> w.active]
          BY <5>3
        <5>. QED BY <5>2, <5>4, <5>5, <5>6 DEF KeyRow
      <4>. QED BY <4>1, <4>4
    <3>4. keys' = [keys EXCEPT ![k] = w]
      BY <1>1, <2>2, <3>1
    <3>. QED BY <2>2, <3>3, <3>4
  <2>. QED BY <2>1, <2>2
<1>. HIDE DEF q, k, f
<1>8. keys'[k] = row
  BY <1>2, <1>7
<1>9. row # None => row.account = i
  BY <1>5, <1>7 DEF Owner
<1>10. revoked' \subseteq revoked \cup {k}
  BY <1>1 DEF Noted
<1>11. ASSUME k \in revoked'
       PROVE  /\ ~(row # None /\ row.active)
              /\ \A s \in Reqs : s # r => StaysRevoked(req[s], k)
  <2>1. CASE f.active = FALSE /\ row # None /\ ~row.active /\ Holders(r, k) = {}
    BY <2>1, NobodyHolds
  <2>2. CASE ~(f.active = FALSE /\ row # None /\ ~row.active /\ Holders(r, k) = {})
    <3>1. f.active # TRUE /\ k \in revoked
      BY <1>1, <1>8, <1>11, <2>2, Zenon DEF Noted
    <3>2. /\ keys[k] # None => ~keys[k].active
          /\ \A s \in Reqs : StaysRevoked(req[s], k)
      BY <3>1 DEF KeysInv, FindActive
    <3>3. q.entity.active = FALSE
      BY <1>4, <3>1, <3>2 DEF StaysRevoked, q, f
    <3>. QED BY <1>7, <3>2, <3>3
  <2>. QED BY <2>1, <2>2
<1>. QED BY <1>1, <1>2, <1>5, <1>6, <1>7, <1>9, <1>10, <1>11, KeyWritten

LEMMA UpdateInsertStep ==
    ASSUME IInv, NEW r \in Reqs, UpdateInsert(r)
    PROVE  IInv'
<1>. USE DEF IInv
<1>. DEFINE q == req[r]
            k == q.target.key
            f == q.target.fields
<1>1. /\ q.op = "update" /\ q.pc = "insert" /\ End(r) /\ UNCHANGED <<Rest, issued>>
      /\ keys' = IF keys[k] = None THEN [keys EXCEPT ![k] = q.entity] ELSE keys
      /\ revoked' = IF f.active = TRUE THEN revoked \ {k} ELSE revoked
  BY DEF UpdateInsert, At, Noted
<1>2. /\ q \in UpdateReq /\ k \in issued /\ k \in ApiKeys /\ f \in Fields /\ q.entity \in KeyRow
      /\ keys \in [ApiKeys -> KeyRow \cup {None}]
  BY <1>1, UpdateFacts DEF KeysInv
<1>3. Holding(q, k)
  BY <1>1 DEF Holding
<1>4. PICK i \in Ids \cup {None} : Owner(k, i)
  BY <1>2 DEF KeysInv
<1>5. \A s \in Reqs : ~Creating(req[s], k)
  BY <1>2, <1>3, NotCreating
<1>6. PICK row : row = IF keys[k] = None THEN q.entity ELSE keys[k]
  OBVIOUS
<1>7. q.entity.account = i /\ (keys[k] # None => keys[k].account = i)
  BY <1>3, <1>4 DEF Owner
<1>8. ASSUME k \in revoked'
      PROVE  f.active # TRUE /\ k \in revoked
  BY <1>1, <1>8
<1>9. ASSUME k \in revoked'
      PROVE  q.entity.active = FALSE
  BY <1>3, <1>8, <1>9 DEF StaysRevoked, KeysInv
<1>. HIDE DEF q, k, f
<1>10. keys' = [keys EXCEPT ![k] = row] /\ row \in KeyRow \cup {None}
  BY <1>1, <1>2, <1>6
<1>11. row # None => row.account = i
  BY <1>6, <1>7
<1>12. ASSUME k \in revoked'
       PROVE  /\ ~(row # None /\ row.active)
              /\ \A s \in Reqs : s # r => StaysRevoked(req[s], k)
  BY <1>6, <1>8, <1>9, <1>12 DEF KeysInv, FindActive
<1>13. revoked' \subseteq revoked \cup {k}
  BY <1>1
<1>. QED BY <1>1, <1>2, <1>4, <1>5, <1>10, <1>11, <1>12, <1>13, KeyWritten

LEMMA DeleteFindStep ==
    ASSUME IInv, NEW r \in Reqs, DeleteFind(r)
    PROVE  IInv'
<1>. USE DEF IInv
<1>. DEFINE q == req[r]
            k == q.target.key
<1>1. PICK p : p = [q EXCEPT !.pc = "delete"]
  OBVIOUS
<1>2. /\ q.op = "delete" /\ keys[k] # None /\ CanManage(q, keys[k].account)
      /\ Become(r, p) /\ UNCHANGED <<Rest, keys, issued, revoked>>
  BY <1>1 DEF DeleteFind, At, Mine
<1>3. q \in DeleteReq /\ k \in issued /\ k \in ApiKeys
  BY <1>2, DeleteFacts
<1>4. /\ p \in DeleteReq /\ p.op = "delete" /\ p.target = q.target
      /\ p.principal = q.principal /\ p.account = q.account
  BY <1>1, <1>2, <1>3 DEF DeleteReq
<1>5. issued' \subseteq ApiKeys /\ issued \subseteq issued'
  BY <1>2 DEF KeysInv
<1>6. KeyReqOK(p)'
  BY <1>2, <1>3, <1>4 DEF KeyReqOK
<1>7. \A s \in Reqs : ~Creating(req[s], k)
  BY <1>2, <1>3, NotCreating
<1>8. \A c : ~Creating(p, c) /\ ~Holding(p, c) /\ (Deleting(p, c) => c = k)
  BY <1>4 DEF Creating, Deleting, Holding
<1>9. ASSUME NEW c \in ApiKeys, NEW i \in Ids \cup {None}, Owner(c, i), Deleting(p, c)
      PROVE  CanManage(p, i)
  <2>1. c = k /\ keys[k].account = i
    BY <1>2, <1>8, <1>9 DEF Owner
  <2>. QED BY <1>2, <1>4, <2>1 DEF CanManage
<1>10. \A c \in revoked : StaysRevoked(p, c)
  BY <1>8 DEF StaysRevoked
<1>. QED BY <1>2, <1>4, <1>5, <1>6, <1>7, <1>8, <1>9, <1>10, KeyReqMoves

LEMMA DeleteStep ==
    ASSUME IInv, NEW r \in Reqs, Delete(r)
    PROVE  IInv'
<1>. USE DEF IInv
<1>. DEFINE k == req[r].target.key
<1>1. /\ req[r].op = "delete" /\ keys[k] # None /\ End(r) /\ UNCHANGED <<Rest, issued>>
      /\ keys' = [keys EXCEPT ![k] = None]
      /\ revoked' = IF Holders(r, k) = {} THEN revoked \cup {k} ELSE revoked
  BY DEF Delete, At, Noted
<1>2. k \in issued /\ k \in ApiKeys
  BY <1>1, DeleteFacts
<1>3. PICK i \in Ids \cup {None} : Owner(k, i)
  BY <1>2 DEF KeysInv
<1>4. \A s \in Reqs : ~Creating(req[s], k)
  BY <1>1, <1>2, NotCreating
<1>. HIDE DEF k
<1>5. ASSUME k \in revoked'
      PROVE  \A s \in Reqs : s # r => StaysRevoked(req[s], k)
  <2>1. CASE Holders(r, k) = {}
    BY <2>1, NobodyHolds
  <2>2. CASE Holders(r, k) # {}
    BY <1>1, <1>5, <2>2 DEF KeysInv
  <2>. QED BY <2>1, <2>2
<1>6. revoked' \subseteq revoked \cup {k}
  BY <1>1
<1>. QED BY <1>1, <1>2, <1>3, <1>4, <1>5, <1>6, KeyWritten

-----------------------------------------------------------------------------
(* The theorems                                                            *)

LEMMA InitInv ==
    ASSUME Init
    PROVE  IInv
<1>1. /\ nonces = [n \in Nonces |-> [status |-> "unused", wallet |-> None]]
      /\ accounts = {} /\ tokens = {} /\ issued = {} /\ spent = {} /\ revoked = {}
      /\ keys = [k \in ApiKeys |-> None]
      /\ req = [r \in Reqs |-> Idle]
  BY DEF Init
<1>2. /\ ReqTyped /\ Idle.op = "idle"
      /\ \A r \in Reqs : req[r] = Idle /\ req[r].op = "idle"
  BY <1>1 DEF ReqTyped, Idle
<1>3. AuthInv
  BY <1>1, <1>2 DEF AuthInv, AuthTables, LoginOK, NonceRow
<1>4. \A r \in Reqs : \A k : ~Holding(req[r], k) /\ ~Deleting(req[r], k) /\ ~Creating(req[r], k)
  BY <1>2 DEF Holding, Deleting, Creating
<1>5. \A k \in ApiKeys : Owner(k, None)
  BY <1>1, <1>4 DEF Owner
<1>6. \A r \in Reqs : KeyReqOK(req[r])
  BY <1>2 DEF KeyReqOK, KeyOps
<1>7. KeysInv
  BY <1>1, <1>4, <1>5, <1>6 DEF KeysInv
<1>. QED BY <1>2, <1>3, <1>7 DEF IInv

LEMMA NextInv ==
    ASSUME IInv, [Next]_vars
    PROVE  IInv'
<1>1. CASE UNCHANGED vars
  <2>1. UNCHANGED <<keys, issued, revoked, req>> /\ UNCHANGED <<nonces, accounts, tokens, spent>>
    BY <1>1 DEF vars
  <2>2. KeysInv'
    BY <2>1, KeysUnchanged DEF IInv
  <2>3. ReqTyped' /\ AuthInv'
    BY <2>1 DEF IInv, ReqTyped, AuthInv, AuthTables, LoginOK
  <2>. QED BY <2>2, <2>3 DEF IInv
<1>2. CASE AuthStep
  <2>1. ASSUME NEW r \in Reqs, LoginStep(r)
        PROVE  IInv'
    BY <2>1, LoginStart, LoginFindStep, LoginRefusedStep, LoginDeleteStep, LoginAccountStep,
       LoginCreateStep DEF LoginStep
  <2>2. ASSUME NEW n \in Nonces, Expire(n) \/ \E w \in Wallets : CreateChallenge(n, w)
        PROVE  IInv'
    BY <2>2, NonceStep
  <2>3. ASSUME NEW t \in tokens, TokenExpires(t)
        PROVE  IInv'
    BY <2>3, TokenExpiresStep
  <2>4. ASSUME NEW w \in Wallets, CreateAccount(w)
        PROVE  IInv'
    BY <2>4, CreateAccountStep
  <2>. QED BY <1>2, <2>1, <2>2, <2>3, <2>4 DEF AuthStep
<1>3. ASSUME NEW r \in Reqs,
             \/ ArriveAny(r)
             \/ \E t \in Types, b \in BOOLEAN : Create(r, t, b)
             \/ Refuse(r) \/ UpdateFind(r) \/ UpdateSelect(r) \/ UpdateWrite(r)
             \/ UpdateInsert(r) \/ DeleteFind(r) \/ Delete(r)
      PROVE  IInv'
  BY <1>3, ArriveStep, CreateStep, RefuseStep, UpdateFindStep, UpdateSelectStep, UpdateWriteStep,
     UpdateInsertStep, DeleteFindStep, DeleteStep
<1>. QED BY <1>1, <1>2, <1>3, Zenon DEF Next

LEMMA Invariance == Spec => []IInv
  BY InitInv, NextInv, PTL DEF Spec

(* The tables of nilcc-api's accounts and API keys have their types, and   *)
(* only keys that were given out exist: create and update of               *)
(* api-key.service.ts.                                                     *)
THEOREM TypeCorrect == Spec => []TypeOK
<1>1. IInv => TypeOK
  BY DEF IInv, AuthInv, AuthTables, KeysInv, TypeOK
<1>. QED BY <1>1, Invariance, PTL

(* All tokens of a wallet are for its one account, and only its owner has  *)
(* one, whatever sign-ins and creations of accounts overlap:               *)
(* verifyAndLogin of auth.service.ts and findOrCreateByWallet of           *)
(* account.service.ts.                                                     *)
THEOREM TokensForOneAccount == Spec => []TokensAgree
<1>1. ASSUME IInv
      PROVE  TokensAgree
  <2>1. AuthTables
    BY <1>1 DEF IInv, AuthInv
  <2>2. ASSUME NEW t \in tokens, NEW u \in tokens, t.wallet = u.wallet
        PROVE  t.id = u.id
    <3>. DEFINE a == [id |-> t.id, wallet |-> t.wallet]
                b == [id |-> u.id, wallet |-> u.wallet]
    <3>1. a \in accounts /\ b \in accounts
      BY <2>1 DEF AuthTables
    <3>2. a.wallet = b.wallet
      BY <2>2
    <3>3. a = b
      BY <2>1, <3>1, <3>2 DEF AuthTables
    <3>. QED BY <3>3
  <2>. QED BY <2>1, <2>2 DEF TokensAgree, AuthTables
<1>. QED BY <1>1, Invariance, PTL

(* No login that begins after one succeeded with the same nonce gets a     *)
(* token: verifyAndLogin of auth.service.ts.                               *)
THEOREM NonceSpentOnce == Spec => []NonceOnce
<1>1. IInv => NonceOnce
  BY DEF IInv, AuthInv, AuthTables, NonceOnce
<1>. QED BY <1>1, Invariance, PTL

(* A revoked key authenticates nobody until somebody asks for it to be     *)
(* active: findActiveById and update of api-key.service.ts.                *)
THEOREM RevokedKeysRefused == Spec => []RevokedRefused
<1>1. ASSUME IInv, NEW k \in revoked
      PROVE  Resolve([kind |-> "key", key |-> k]) = None
  <2>1. ~FindActive(k)
    BY <1>1 DEF IInv, KeysInv
  <2>. DEFINE c == [kind |-> "key", key |-> k]
  <2>2. c.kind = "key" /\ c.key = k
    OBVIOUS
  <2>. HIDE DEF c
  <2>3. Resolve(c) = None
    BY <2>1, <2>2 DEF Resolve
  <2>. QED BY <2>3 DEF c
<1>2. IInv => RevokedRefused
  BY <1>1 DEF RevokedRefused
<1>. QED BY <1>2, Invariance, PTL

(* A request r of the account of key k, or of an administrator, ends and   *)
(* changes no other key.                                                   *)
LEMMA ChangedBy ==
    ASSUME IInv, NEW r \in Reqs, req[r].op \in KeyOps, End(r),
           NEW k \in ApiKeys, NEW row, keys' = [keys EXCEPT ![k] = row] \/ keys' = keys,
           NEW i, CanManage(req[r], i),
           keys[k] # None => keys[k].account = i,
           keys[k] = None => row.account = i
    PROVE  \A c \in ApiKeys : keys'[c] # keys[c] => OnBehalf(c)
<1>1. req'[r] = Idle
  BY DEF IInv, ReqTyped, End
<1>2. keys \in [ApiKeys -> KeyRow \cup {None}]
  BY DEF IInv, KeysInv
<1>3. ASSUME NEW c \in ApiKeys, keys'[c] # keys[c]
      PROVE  c = k /\ keys'[c] = row
  BY <1>2, <1>3
<1>4. req[r].principal = "global-admin" \/ req[r].account = i
  BY DEF CanManage
<1>5. ASSUME keys'[k] # keys[k]
      PROVE  OnBehalf(k)
  <2>1. (IF keys[k] = None THEN keys'[k] ELSE keys[k]).account = i
    BY <1>3, <1>5
  <2>. QED BY <1>1, <1>4, <2>1 DEF OnBehalf, KeyOps
<1>. QED BY <1>3, <1>5

LEMMA OnlyOwnKeys ==
    ASSUME IInv, [Next]_vars
    PROVE  [\A k \in ApiKeys : keys'[k] # keys[k] => OnBehalf(k)]_vars
<1>. SUFFICES ASSUME Next
              PROVE  \A k \in ApiKeys : keys'[k] # keys[k] => OnBehalf(k)
  OBVIOUS
<1>1. CASE keys' = keys
  BY <1>1
<1>2. ASSUME NEW r \in Reqs, NEW t \in Types, NEW b \in BOOLEAN, Create(r, t, b)
      PROVE  \A k \in ApiKeys : keys'[k] # keys[k] => OnBehalf(k)
  <2>. DEFINE k == req[r].target.key
              a == req[r].target.account
  <2>1. PICK row : row = [account |-> a, type |-> t, active |-> b]
    OBVIOUS
  <2>2. /\ req[r].op = "create" /\ End(r) /\ CanManage(req[r], a)
        /\ keys' = [keys EXCEPT ![k] = row]
    BY <1>2, <2>1 DEF Create, At
  <2>3. req[r] \in CreateReq
    BY <2>2 DEF IInv, KeysInv, KeyReqOK, Idle, UpdateReq, DeleteReq
  <2>4. k \in ApiKeys
    BY <2>3 DEF CreateReq
  <2>5. keys[k] = None
    BY <2>2, <2>4 DEF IInv, KeysInv, Unknown, Creating
  <2>6. row.account = a
    BY <2>1
  <2>. HIDE DEF k, a
  <2>. QED BY <2>2, <2>4, <2>5, <2>6, ChangedBy DEF KeyOps
<1>3. ASSUME NEW r \in Reqs, UpdateWrite(r) \/ UpdateInsert(r)
      PROVE  \A k \in ApiKeys : keys'[k] # keys[k] => OnBehalf(k)
  <2>. DEFINE q == req[r]
              k == q.target.key
  <2>1. q.op = "update" /\ q.pc # "start" /\ End(r)
    BY <1>3 DEF UpdateWrite, UpdateInsert, At
  <2>2. k \in ApiKeys /\ Holding(q, k)
    BY <2>1, UpdateFacts DEF Holding
  <2>3. PICK i \in Ids \cup {None} : Owner(k, i)
    BY <2>2 DEF IInv, KeysInv
  <2>4. CanManage(q, i) /\ q.entity.account = i /\ (keys[k] # None => keys[k].account = i)
    BY <2>2, <2>3 DEF Owner
  <2>5. PICK row : /\ keys' = [keys EXCEPT ![k] = row] \/ keys' = keys
                   /\ keys[k] = None => row.account = i
    <3>1. CASE keys[k] = None
      <4>1. keys' = [keys EXCEPT ![k] = q.entity] \/ keys' = keys
        BY <1>3, <3>1 DEF UpdateWrite, UpdateInsert
      <4>. QED BY <2>4, <4>1
    <3>2. CASE keys[k] # None
      <4>1. \/ keys' = keys
            \/ keys' = [keys EXCEPT ![k] = [c \in DOMAIN keys[k] |->
                                IF c \in q.columns THEN q.entity[c] ELSE keys[k][c]]]
        BY <1>3, <3>2 DEF UpdateWrite, UpdateInsert
      <4>. QED BY <3>2, <4>1
    <3>. QED BY <3>1, <3>2
  <2>. HIDE DEF q, k
  <2>6. q = req[r]
    BY DEF q
  <2>. QED BY <2>1, <2>2, <2>4, <2>5, <2>6, ChangedBy DEF KeyOps
<1>4. ASSUME NEW r \in Reqs, Delete(r)
      PROVE  \A k \in ApiKeys : keys'[k] # keys[k] => OnBehalf(k)
  <2>. DEFINE k == req[r].target.key
  <2>1. /\ req[r].op = "delete" /\ req[r].pc = "delete" /\ keys[k] # None /\ End(r)
        /\ keys' = [keys EXCEPT ![k] = None]
    BY <1>4 DEF Delete, At
  <2>2. k \in ApiKeys /\ Deleting(req[r], k)
    BY <2>1, DeleteFacts DEF Deleting
  <2>3. PICK i \in Ids \cup {None} : Owner(k, i)
    BY <2>2 DEF IInv, KeysInv
  <2>4. CanManage(req[r], i) /\ keys[k].account = i
    BY <2>1, <2>2, <2>3 DEF Owner
  <2>. HIDE DEF k
  <2>. QED BY <2>1, <2>2, <2>4, ChangedBy DEF KeyOps
<1>5. CASE AuthStep
  <2>1. keys' = keys
    BY <1>5 DEF AuthStep, CreateChallenge, Expire, TokenExpires, CreateAccount, LoginStep, Login,
          LoginFind, LoginRefused, LoginDelete, LoginAccount, LoginCreate
  <2>. QED BY <1>1, <2>1
<1>6. ASSUME NEW r \in Reqs,
             ArriveAny(r) \/ Refuse(r) \/ UpdateFind(r) \/ UpdateSelect(r) \/ DeleteFind(r)
      PROVE  keys' = keys
  BY <1>6 DEF ArriveAny, Arrive, Refuse, UpdateFind, UpdateSelect, DeleteFind
<1>. QED BY <1>1, <1>2, <1>3, <1>4, <1>5, <1>6, Zenon DEF Next

(* A key is created, changed or deleted only by a request that the         *)
(* middleware found to be an administrator's or to act for the account of  *)
(* the key, although the check and the change are statements of their own: *)
(* assertCanManageIdentityAccount of common/auth.ts and                    *)
(* api-key.controller.ts.                                                  *)
THEOREM OnlyOwnKeysChange == Spec => OwnKeysOnly
  BY Invariance, OnlyOwnKeys, PTL DEF Spec, OwnKeysOnly

=============================================================================
