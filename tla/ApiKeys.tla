------------------------------ MODULE ApiKeys ------------------------------
(***************************************************************************)
(* The management of API keys in nilcc-api, by administrators and by those *)
(* who hold a JWT or an administrative API key of the account.             *)
(*                                                                         *)
(* Each request is one transaction.  TypeORM's save selects the row again  *)
(* and writes the columns in which the entity in memory differs from it,   *)
(* or inserts the entity if there is no row; a statement and the commit    *)
(* right behind it are one step.                                           *)
(***************************************************************************)
EXTENDS Auth

(* What an update may ask for: at least one of the two fields.             *)
Fields == [type: Types \cup {None}, active: BOOLEAN \cup {None}]
          \ {[type |-> None, active |-> None]}

Rest == <<nonces, accounts, tokens, spent>>

(* The middleware lets a request through; 401 changes nothing.             *)
Arrive(r, c, op, target) ==
    LET auth == Resolve(c) IN
    /\ Free(r)
    /\ IdentityAdmin(auth)
    /\ Become(r, [op |-> op, pc |-> "start", principal |-> auth.principal,
                  account |-> auth.account, target |-> target,
                  entity |-> None, columns |-> {}])
    /\ issued' = issued \cup {target.key}
    /\ UNCHANGED <<Rest, keys, revoked>>

(* create: for an account that exists and that the caller may manage; the  *)
(* id is a new uuid.                                                       *)
Create(r, type, active) ==
    LET k == req[r].target.key
        a == req[r].target.account
    IN  /\ At(r, "create", "start")
        /\ CanManage(req[r], a)
        /\ \E row \in accounts : row.id = a
        /\ keys' = [keys EXCEPT ![k] = [account |-> a, type |-> type, active |-> active]]
        /\ End(r)
        /\ UNCHANGED <<Rest, issued, revoked>>

(* read, assertCanManageIdentityAccount and the service's findOne: account *)
(* ids never change, so the two reads differ in nothing that matters.      *)
Mine(r) ==
    LET k == req[r].target.key IN
    keys[k] # None /\ CanManage(req[r], keys[k].account)

(* 403, 404, or an account that does not exist: rolled back.               *)
Refuse(r) ==
    /\ \/ /\ At(r, "create", "start")
          /\ \/ ~CanManage(req[r], req[r].target.account)
             \/ \A a \in accounts : a.id # req[r].target.account
       \/ At(r, "update", "start") /\ ~Mine(r)
       \/ At(r, "delete", "start") /\ ~Mine(r)
       \/ At(r, "delete", "delete") /\ keys[req[r].target.key] = None
    /\ End(r)
    /\ UNCHANGED <<Rest, keys, issued, revoked>>

(* Variant: a field that the request leaves out is overwritten.            *)
AskedAll(row, f) == [row EXCEPT !.type = f.type, !.active = f.active]

Asked(row, f) ==
    [row EXCEPT !.type = IF f.type = None THEN @ ELSE f.type,
                !.active = IF f.active = None THEN @ ELSE f.active]

UpdateFind(r) ==
    LET k == req[r].target.key IN
    /\ At(r, "update", "start")
    /\ Mine(r)
    /\ Become(r, [req[r] EXCEPT !.pc = "save", !.entity = Asked(keys[k], req[r].target.fields)])
    /\ UNCHANGED <<Rest, keys, issued, revoked>>

(* save's SELECT: the columns to write, or that there is nothing to update.*)
UpdateSelect(r) ==
    LET k == req[r].target.key
        e == req[r].entity
    IN  /\ At(r, "update", "save")
        /\ Become(r, [req[r] EXCEPT
                !.pc = IF keys[k] = None THEN "insert" ELSE "write",
                !.columns = IF keys[k] = None THEN {}
                            ELSE {c \in {"type", "active"} : keys[k][c] # e[c]}])
        /\ UNCHANGED <<Rest, keys, issued, revoked>>

(* The other requests that hold a copy of the row of k.                    *)
Holders(r, k) ==
    {o \in Reqs \ {r} : req[o].op = "update" /\ req[o].pc # "start" /\ req[o].target.key = k}

(* History: k is revoked when it is taken out of use while nobody holds a  *)
(* copy, until somebody asks for it to be active.                          *)
Noted(r, k, out, in) ==
    revoked' = IF out /\ Holders(r, k) = {} THEN revoked \cup {k}
               ELSE IF in THEN revoked \ {k} ELSE revoked

(* UPDATE of the columns, which may be of no row by now.                   *)
UpdateWrite(r) ==
    LET k == req[r].target.key
        e == req[r].entity
        f == req[r].target.fields
    IN  /\ At(r, "update", "write")
        /\ keys' = IF keys[k] = None THEN keys
                   ELSE [keys EXCEPT ![k] = [c \in DOMAIN @ |->
                                                IF c \in req[r].columns THEN e[c] ELSE @[c]]]
        /\ Noted(r, k, f.active = FALSE /\ keys'[k] # None /\ ~keys'[k].active, f.active = TRUE)
        /\ End(r)
        /\ UNCHANGED <<Rest, issued>>

(* INSERT of a key that was deleted in the meantime; two of them collide.  *)
UpdateInsert(r) ==
    LET k == req[r].target.key IN
    /\ At(r, "update", "insert")
    /\ keys' = IF keys[k] = None THEN [keys EXCEPT ![k] = req[r].entity] ELSE keys
    /\ Noted(r, k, FALSE, req[r].target.fields.active = TRUE)
    /\ End(r)
    /\ UNCHANGED <<Rest, issued>>

DeleteFind(r) ==
    /\ At(r, "delete", "start")
    /\ Mine(r)
    /\ Become(r, [req[r] EXCEPT !.pc = "delete"])
    /\ UNCHANGED <<Rest, keys, issued, revoked>>

Delete(r) ==
    LET k == req[r].target.key IN
    /\ At(r, "delete", "delete")
    /\ keys[k] # None
    /\ keys' = [keys EXCEPT ![k] = None]
    /\ Noted(r, k, TRUE, FALSE)
    /\ End(r)
    /\ UNCHANGED <<Rest, issued>>

ArriveAny(r) ==
    \E c \in Credentials :
        \/ \E i \in Ids, k \in ApiKeys \ issued : Arrive(r, c, "create", [key |-> k, account |-> i])
        \/ \E k \in issued, f \in Fields : Arrive(r, c, "update", [key |-> k, fields |-> f])
        \/ \E k \in issued : Arrive(r, c, "delete", [key |-> k])

Next ==
    \/ AuthStep
    \/ \E r \in Reqs :
           \/ ArriveAny(r)
           \/ \E t \in Types, b \in BOOLEAN : Create(r, t, b)
           \/ Refuse(r)
           \/ UpdateFind(r)
           \/ UpdateSelect(r)
           \/ UpdateWrite(r)
           \/ UpdateInsert(r)
           \/ DeleteFind(r)
           \/ Delete(r)

Spec == Init /\ [][Next]_vars

-----------------------------------------------------------------------------
(* The types of the tables.                                                *)
TypeOK ==
    /\ nonces \in [Nonces -> NonceRow]
    /\ accounts \subseteq Account
    /\ keys \in [ApiKeys -> KeyRow \cup {None}]
    /\ \A k \in ApiKeys : keys[k] # None => k \in issued
    /\ revoked \subseteq issued

(* All tokens of a wallet are for one account, which exists: two first     *)
(* sign-ins at once, or a sign-in and the administrator's create, do not   *)
(* leave a wallet with two accounts. It is the wallet that signed, not the *)
(* one that the challenge was made for.                                    *)
TokensAgree ==
    /\ \A t \in tokens : [id |-> t.id, wallet |-> t.wallet] \in accounts
    /\ \A t, u \in tokens : t.wallet = u.wallet => t.id = u.id
    /\ \A t \in tokens : t.wallet = t.signer

(* "nonce not found or already used": once a login with a nonce has        *)
(* succeeded, none that begins after it does.  Two that overlap both may.  *)
NonceOnce == \A t \in tokens : ~t.late

(* A key that was deleted or deactivated authenticates nobody any more,    *)
(* until an update asks for it to be active.  What the service cannot      *)
(* promise this for is a key of which an update held a copy at the time.   *)
RevokedRefused ==
    \A k \in revoked : Resolve([kind |-> "key", key |-> k]) = None

(* A request of an administrator, or for the account of key k, ends.       *)
OnBehalf(k) ==
    LET row == IF keys[k] = None THEN keys'[k] ELSE keys[k]
    IN  \E r \in Reqs :
            /\ req[r].op \in {"create", "update", "delete"} /\ req'[r] = Idle
            /\ req[r].principal = "global-admin" \/ req[r].account = row.account

(* Only an administrator and those who act for an account change its keys. *)
OwnKeysOnly ==
    [][\A k \in ApiKeys : keys'[k] # keys[k] => OnBehalf(k)]_vars
=============================================================================
