------------------------------- MODULE Accounts -------------------------------
(***************************************************************************)
(* routes/auth.js, models/User.js, middleware/flexAuth.js and              *)
(* scripts/fix-unhashed-passwords.js: users, and the requests with which   *)
(* administrators manage them.  The middleware reads the row of the sender *)
(* once, when the request arrives; then each handler reads the user it is  *)
(* about and writes it in a statement of its own.                          *)
(*                                                                         *)
(* The users of a restored database may have a password in plain text.     *)
(* A password is what the user types and how often bcrypt was applied.     *)
(***************************************************************************)
EXTENDS Integers, FiniteSets

CONSTANTS
    Usernames,
    FirstName,         \* of the user whom the set-up creates
    Secrets,           \* what users type; FirstSecret at the start
    FirstSecret,
    MaxUsers,          \* users created in this instance
    AccountHandlers,   \* requests served at the same time
    Manages(_, _)      \* which of them runs which handlers in this instance

VARIABLES
    users,          \* the table: id -> [username, role, password]
    last_user,      \* ids given out so far
    account_calls,  \* what the request in each slot keeps
    told,           \* the password each user was last told, or Untold since it was changed
    contended,      \* names that two requests were about to write
    crossed,        \* TRUE once two requests of administrators have overlapped
    stepped_down    \* TRUE once an administrator took the role from himself

accountVars == <<users, last_user, account_calls, told, contended, crossed, stepped_down>>

UserIds == 1..MaxUsers
Roles == {"admin", "basic"}      \* "advanced" manages no users either
Typed(secret) == [secret |-> secret, hashes |-> 0]
Hash(password) == [password EXCEPT !.hashes = @ + 1]
User == [username : Usernames, role : Roles,
         password : [secret : Secrets, hashes : 0..1]]
NoCall == [pc |-> "none"]
Untold == "untold"

AccountTypeOK ==
    /\ last_user \in 0..MaxUsers
    /\ DOMAIN users \subseteq 1..last_user /\ users \in [DOMAIN users -> User]
    /\ DOMAIN told = DOMAIN users /\ told \in [DOMAIN users -> Secrets \cup {Untold}]
    /\ contended \subseteq Usernames

Init ==
    /\ \E hashes \in 0..1 :
          users = [u \in {1} |-> [username |-> FirstName, role |-> "admin",
                       password |-> [secret |-> FirstSecret, hashes |-> hashes]]]
    /\ last_user = 1
    /\ account_calls = [h \in AccountHandlers |-> NoCall]
    /\ told = [u \in {1} |-> FirstSecret]
    /\ contended = {} /\ crossed = FALSE /\ stepped_down = FALSE
-----------------------------------------------------------------------------
At(h, pc) == account_calls[h].pc = pc

(* Names that the requests are about to write *)
Wanted(h) ==
    {account_calls[g].username : g \in {f \in AccountHandlers \ {h} :
        account_calls[f].pc \in {"register", "update"}}}

Named(name) == \E u \in DOMAIN users : users[u].username = name

(* authenticate and restrictTo("admin"): the role in the table counts, not *)
(* the one in the token.                                                   *)
Authorised(actor) == actor \in DOMAIN users /\ users[actor].role = "admin"

Start(h, actor, c) ==
    /\ Authorised(actor)
    /\ account_calls[h] = NoCall
    /\ account_calls' = [account_calls EXCEPT ![h] = c]
    /\ contended' = IF c.pc \in {"register", "update"} /\ c.username \in Wanted(h)
                      THEN contended \cup {c.username} ELSE contended
    /\ crossed' = (crossed \/ \E g \in AccountHandlers : account_calls[g] # NoCall)
    /\ UNCHANGED <<users, last_user, told, stepped_down>>

Answer(h) ==
    /\ account_calls' = [account_calls EXCEPT ![h] = NoCall]
    /\ UNCHANGED <<contended, crossed>>

Without(f, u) == [x \in DOMAIN f \ {u} |-> f[x]]

(* POST /register: findOne, then create with the hook beforeCreate *)
RegisterLookup(h, actor, name, role, secret) ==
    /\ ~Named(name)
    /\ Start(h, actor, [pc |-> "register", username |-> name, role |-> role,
                        password |-> Typed(secret)])

RegisterCreate(h) ==
    LET c == account_calls[h] IN
    /\ At(h, "register") /\ last_user < MaxUsers
    /\ last_user' = last_user + 1
    /\ users' = [u \in DOMAIN users \cup {last_user'} |->
                    IF u = last_user'
                      THEN [username |-> c.username, role |-> c.role,
                            password |-> Hash(c.password)]
                      ELSE users[u]]
    /\ told' = [u \in DOMAIN users' |-> IF u = last_user' THEN c.password.secret ELSE told[u]]
    /\ Answer(h) /\ UNCHANGED stepped_down

(* PUT /users/:userId.  A name that stays is not looked up; update() writes *)
(* the columns that differ from what was read.                             *)
NameFree_Always(u, name) == TRUE   \* variant: the new name is not looked up
NameFree(u, name) == name = users[u].username \/ ~Named(name)

UpdateRead(h, actor, u, name, role) ==
    /\ u \in DOMAIN users
    /\ NameFree(u, name)
    /\ name # users[u].username \/ role # users[u].role
    /\ Start(h, actor, [pc |-> "update", user |-> u, username |-> name, role |-> role,
                        renames |-> name # users[u].username,
                        promotes |-> role # users[u].role, self |-> u = actor])

UpdateSave(h) ==
    LET c == account_calls[h] IN
    /\ At(h, "update")
    /\ users' = IF c.user \notin DOMAIN users THEN users
                ELSE [users EXCEPT
                        ![c.user].username = IF c.renames THEN c.username ELSE @,
                        ![c.user].role = IF c.promotes THEN c.role ELSE @]
    /\ stepped_down' = (stepped_down \/ (c.self /\ c.role # "admin"))
    /\ Answer(h) /\ UNCHANGED <<last_user, told>>

(* DELETE /users/:userId: not the own account.  Rows of other tables that  *)
(* name the user may refuse it (Fail).                                     *)
MayDelete_Anyone(actor, u) == u \in DOMAIN users   \* variant: the own account too
MayDelete(actor, u) == u \in DOMAIN users /\ u # actor

DeleteRead(h, actor, u) ==
    /\ MayDelete(actor, u)
    /\ Start(h, actor, [pc |-> "destroy", user |-> u])

Destroy(h) ==
    LET u == account_calls[h].user IN
    /\ At(h, "destroy")
    /\ users' = Without(users, u) /\ told' = Without(told, u)
    /\ Answer(h) /\ UNCHANGED <<last_user, stepped_down>>

(* The two endpoints that set a password: one leaves hashing to the hook   *)
(* beforeUpdate, the other hashes and turns the hooks off.  Both read the  *)
(* user once more and answer 500 if that fails or finds none: whoever sent *)
(* the request is told nothing then, and the password is changed.          *)
ResetRead(h, actor, u, secret) ==
    /\ u \in DOMAIN users
    /\ Start(h, actor, [pc |-> "reset", user |-> u, password |-> Typed(secret)])

ResetSave(h) ==
    LET c == account_calls[h] IN
    /\ At(h, "reset")
    /\ IF c.user \in DOMAIN users
         THEN /\ users' = [users EXCEPT ![c.user].password = Hash(c.password)]
              /\ told' = [told EXCEPT ![c.user] = Untold]
         ELSE UNCHANGED <<users, told>>
    /\ account_calls' = [account_calls EXCEPT ![h] = [c EXCEPT !.pc = "verify"]]
    /\ UNCHANGED <<last_user, contended, crossed, stepped_down>>

ResetVerify(h) ==
    LET c == account_calls[h] IN
    /\ At(h, "verify") /\ c.user \in DOMAIN users
    /\ told' = [told EXCEPT ![c.user] = c.password.secret]
    /\ Answer(h) /\ UNCHANGED <<users, last_user, stepped_down>>

(* POST /fix-passwords: all users are read, then those whose password was  *)
(* not hashed are updated one after the other with the hash of what was    *)
(* read.                                                                   *)
Unhashed_All == DOMAIN users    \* variant: without looking for the prefix of bcrypt
Unhashed == {u \in DOMAIN users : users[u].password.hashes = 0}

FixRead(h, actor) ==
    /\ Unhashed # {}
    /\ Start(h, actor, [pc |-> "fix", read |-> [u \in Unhashed |-> users[u].password]])

FixUser(h, u) ==
    LET c == account_calls[h] IN
    /\ At(h, "fix") /\ u \in DOMAIN c.read
    /\ users' = IF u \in DOMAIN users
                  THEN [users EXCEPT ![u].password = Hash(c.read[u])] ELSE users
    /\ account_calls' = [account_calls EXCEPT ![h] =
          IF DOMAIN c.read = {u} THEN NoCall ELSE [c EXCEPT !.read = Without(@, u)]]
    /\ UNCHANGED <<last_user, told, contended, crossed, stepped_down>>

Fail(h) ==
    /\ account_calls[h] # NoCall
    /\ Answer(h)
    /\ UNCHANGED <<users, last_user, told, stepped_down>>
-----------------------------------------------------------------------------
(* A request of an administrator arrives. *)
Arrive(h, actor) ==
    /\ account_calls[h] = NoCall /\ Authorised(actor)
    /\ \/ /\ Manages(h, "names")
          /\ \E name \in Usernames, role \in Roles :
                \/ RegisterLookup(h, actor, name, role, FirstSecret)
                \/ \E u \in DOMAIN users : UpdateRead(h, actor, u, name, role)
       \/ Manages(h, "delete") /\ \E u \in DOMAIN users : DeleteRead(h, actor, u)
       \/ /\ Manages(h, "passwords")
          /\ \/ \E u \in DOMAIN users, secret \in Secrets \ {FirstSecret} :
                   ResetRead(h, actor, u, secret)
             \/ FixRead(h, actor)

Next ==
    \E h \in AccountHandlers :
        \/ \E actor \in DOMAIN users : Arrive(h, actor)
        \/ RegisterCreate(h) \/ UpdateSave(h) \/ Destroy(h)
        \/ ResetSave(h) \/ ResetVerify(h)
        \/ \E u \in UserIds : FixUser(h, u)
        \/ Fail(h)

Spec == Init /\ [][Next]_accountVars
-----------------------------------------------------------------------------
(* POST /login finds one user of the name and compares with bcrypt.  (It   *)
(* takes the first row of the name; see UsernamesDiffer.)                  *)
LogsIn(u, secret) == users[u].password = Hash(Typed(secret))

(* No two users have the same name, which no key of the table enforces,    *)
(* unless two requests wanted to write that name at the same time.         *)
UsernamesDiffer ==
    \A u, v \in DOMAIN users :
        u # v /\ users[u].username = users[v].username => users[u].username \in contended

(* There is an administrator, unless the last one gave the role away or    *)
(* two requests of administrators met.                                     *)
AdminRemains ==
    (\E u \in DOMAIN users : users[u].role = "admin") \/ stepped_down \/ crossed

(* A user whose password is hashed logs in with the one he was last told,  *)
(* unless a reset has changed it and told nobody, or requests met: fixing  *)
(* a password that is being reset undoes it.                               *)
ToldPasswordWorks ==
    \A u \in DOMAIN users :
        users[u].password.hashes = 0 \/ crossed \/ told[u] = Untold \/ LogsIn(u, told[u])
=============================================================================
