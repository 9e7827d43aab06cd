---------------------------- MODULE Accounts_proofs ----------------------------
(***************************************************************************)
(* Proofs about Accounts, for any users, names and passwords, and any      *)
(* number of requests of administrators served at the same time.           *)
(***************************************************************************)
EXTENDS Accounts, TLAPS

(* The bounds of the model leave room for the user of the set-up. *)
SetUp == MaxUsers \in Nat \ {0} /\ FirstName \in Usernames /\ FirstSecret \in Secrets

-----------------------------------------------------------------------------
(* What a request keeps between two awaits, by the step it is at. *)
Plain == [secret : Secrets, hashes : {0}]
RegisterCalls == [pc : {"register"}, username : Usernames, role : Roles, password : Plain]
UpdateCalls == [pc : {"update"}, user : UserIds, username : Usernames, role : Roles,
                renames : BOOLEAN, promotes : BOOLEAN, self : BOOLEAN]
DestroyCalls == [pc : {"destroy"}, user : UserIds]
ResetCalls == [pc : {"reset", "verify"}, user : UserIds, password : Plain]
FixCalls == [pc : {"fix"}, read : UNION {[S -> Plain] : S \in SUBSET UserIds}]
Calls == {NoCall} \cup RegisterCalls \cup UpdateCalls \cup DestroyCalls \cup ResetCalls
            \cup FixCalls

TypesOK ==
    /\ AccountTypeOK
    /\ account_calls \in [AccountHandlers -> Calls]
    /\ crossed \in BOOLEAN /\ stepped_down \in BOOLEAN

(***************************************************************************)
(* Names.  No key of the table makes UsernamesDiffer true: RegisterCreate  *)
(* and UpdateSave write a name that was looked up before.  It stays free   *)
(* because whoever else was about to write it has made it contended.       *)
(***************************************************************************)
ChangesName(c) == c.pc = "register" \/ (c.pc = "update" /\ c.renames)

NamesWanted ==
    \A h \in AccountHandlers :
        LET c == account_calls[h] IN
        ChangesName(c) /\ c.username \notin contended => ~Named(c.username)

WantedOnce ==
    \A g, h \in AccountHandlers :
        LET c == account_calls[g]
            d == account_calls[h]
        IN  /\ g # h /\ c.pc \in {"register", "update"} /\ d.pc \in {"register", "update"}
            /\ c.username = d.username
            => c.username \in contended

(***************************************************************************)
(* Administrators and passwords.  Until two requests have met, there is    *)
(* one at a time, and what it read when it arrived is still so when it     *)
(* writes: the administrator who sent it is there, and the passwords it    *)
(* read or wrote are those the users were told, if they were.              *)
(***************************************************************************)
Alone ==
    ~crossed =>
        \A g, h \in AccountHandlers :
            g # h => account_calls[g] = NoCall \/ account_calls[h] = NoCall

AdminIn(table, a) == a \in DOMAIN table /\ table[a].role = "admin"

StillSo(table, secrets, c) ==
    /\ c.pc = "destroy" => \E a : a # c.user /\ AdminIn(table, a)
    /\ c.pc = "update" =>
          IF c.self THEN AdminIn(table, c.user) ELSE \E a : a # c.user /\ AdminIn(table, a)
    /\ c.pc = "fix" =>
          \A u \in DOMAIN c.read \cap DOMAIN table : secrets[u] \in {c.read[u].secret, Untold}
    /\ c.pc = "verify" /\ c.user \in DOMAIN table =>
          table[c.user].password.secret = c.password.secret

CallsStillSo ==
    ~crossed => \A h \in AccountHandlers : StillSo(users, told, account_calls[h])

SecretsTold ==
    ~crossed => \A u \in DOMAIN users : told[u] \in {users[u].password.secret, Untold}

AccountInv ==
    TypesOK /\ UsernamesDiffer /\ NamesWanted /\ WantedOnce
    /\ AdminRemains /\ Alone /\ CallsStillSo /\ SecretsTold

-----------------------------------------------------------------------------
LEMMA CallShape ==
  ASSUME NEW c \in Calls
  PROVE  /\ c.pc = "register" => c \in RegisterCalls
         /\ c.pc = "update" => c \in UpdateCalls
         /\ c.pc = "destroy" => c \in DestroyCalls
         /\ c.pc \in {"reset", "verify"} => c \in ResetCalls
         /\ c.pc = "fix" => c \in FixCalls
         /\ c = NoCall => c.pc = "none"
  <1>1. CASE c = NoCall
    BY <1>1 DEF NoCall
  <1>2. CASE c \in RegisterCalls
    BY <1>2 DEF RegisterCalls, NoCall
  <1>3. CASE c \in UpdateCalls
    BY <1>3 DEF UpdateCalls, NoCall
  <1>4. CASE c \in DestroyCalls
    BY <1>4 DEF DestroyCalls, NoCall
  <1>5. CASE c \in ResetCalls
    BY <1>5 DEF ResetCalls, NoCall
  <1>6. CASE c \in FixCalls
    BY <1>6 DEF FixCalls, NoCall
  <1> QED
    BY <1>1, <1>2, <1>3, <1>4, <1>5, <1>6 DEF Calls

(* A user whose password was hashed logs in with the secret in it. *)
LEMMA HashedLogsIn ==
  ASSUME TypesOK, NEW u \in DOMAIN users, users[u].password.hashes # 0
  PROVE  LogsIn(u, users[u].password.secret)
  <1>1. users[u].password \in [secret : Secrets, hashes : 0..1]
    BY DEF TypesOK, AccountTypeOK, User
  <1>2. users[u].password = [secret |-> users[u].password.secret, hashes |-> 1]
    BY <1>1
  <1>3. Hash(Typed(users[u].password.secret)) = [secret |-> users[u].password.secret, hashes |-> 1]
    BY DEF Hash, Typed
  <1> QED
    BY <1>2, <1>3 DEF LogsIn

LEMMA PlainHashed ==
  ASSUME NEW p \in Plain
  PROVE  Hash(p) = [secret |-> p.secret, hashes |-> 1]
  BY DEF Hash, Plain

-----------------------------------------------------------------------------
(* A request of an administrator arrives and has read what it needs.       *)
LEMMA RequestStarts ==
  ASSUME AccountInv, NEW h \in AccountHandlers, NEW actor, NEW c \in Calls, c # NoCall,
         Start(h, actor, c),
         ChangesName(c) => ~Named(c.username),
         ~crossed => StillSo(users, told, c)
  PROVE  AccountInv'
  <1> USE DEF AccountInv
  <1>1. /\ account_calls[h] = NoCall
        /\ account_calls' \in [AccountHandlers -> Calls]
        /\ account_calls'[h] = c
        /\ \A g \in AccountHandlers \ {h} : account_calls'[g] = account_calls[g]
        /\ UNCHANGED <<users, last_user, told, stepped_down>>
        /\ contended \subseteq contended'
        /\ crossed' = (crossed \/ \E g \in AccountHandlers : account_calls[g] # NoCall)
    BY DEF Start, TypesOK
  <1>2. ~crossed' => ~crossed
    BY <1>1
  <1>3. contended' \subseteq Usernames
    <2>1. c.pc \in {"register", "update"} => c.username \in Usernames
      BY CallShape DEF RegisterCalls, UpdateCalls
    <2> QED
      BY <2>1 DEF Start, TypesOK, AccountTypeOK
  <1>4. TypesOK'
    <2>1. crossed' \in BOOLEAN
      BY <1>1 DEF TypesOK
    <2> QED
      BY <1>1, <1>3, <2>1 DEF TypesOK, AccountTypeOK
  <1>5. UsernamesDiffer' /\ NamesWanted'
    BY <1>1 DEF UsernamesDiffer, NamesWanted, ChangesName, Named
  <1>6. WantedOnce'
    <2>1. ASSUME NEW g \in AccountHandlers \ {h},
                 account_calls[g].pc \in {"register", "update"},
                 c.pc \in {"register", "update"}, account_calls[g].username = c.username
          PROVE  c.username \in contended'
      BY <2>1 DEF Start, Wanted
    <2> QED
      BY <1>1, <2>1 DEF WantedOnce
  <1>7. AdminRemains' /\ SecretsTold'
    BY <1>1, <1>2 DEF AdminRemains, SecretsTold
  <1>8. Alone'
    BY <1>1 DEF Alone
  <1>9. CallsStillSo'
    BY <1>1, <1>2 DEF CallsStillSo
  <1> QED
    BY <1>4, <1>5, <1>6, <1>7, <1>8, <1>9

(***************************************************************************)
(* The request of h writes and ends, or goes on with call d.  One user w   *)
(* may get the name that the request wanted; the others keep theirs.       *)
(***************************************************************************)
NamesKept(w, old) ==
    \A u \in DOMAIN users' :
        \/ u \in DOMAIN users /\ users'[u].username = users[u].username
        \/ u = w /\ ChangesName(old) /\ users'[u].username = old.username

LEMMA RequestWrites ==
  ASSUME AccountInv, NEW h \in AccountHandlers, NEW d \in Calls, NEW w,
         account_calls[h] # NoCall,
         account_calls' = [account_calls EXCEPT ![h] = d],
         d.pc \in {"none", "fix", "verify"},
         UNCHANGED <<contended, crossed>>, stepped_down' \in BOOLEAN,
         AccountTypeOK', AdminRemains', SecretsTold',
         NamesKept(w, account_calls[h]),
         ~crossed => StillSo(users', told', d)
  PROVE  AccountInv'
  <1> USE DEF AccountInv
  <1> DEFINE old == account_calls[h]
  <1>1. /\ account_calls' \in [AccountHandlers -> Calls]
        /\ account_calls'[h] = d
        /\ \A g \in AccountHandlers \ {h} : account_calls'[g] = account_calls[g]
    BY DEF TypesOK
  <1>2. TypesOK'
    BY <1>1 DEF TypesOK
  <1>3. UsernamesDiffer'
    <2> SUFFICES ASSUME NEW u \in DOMAIN users', NEW v \in DOMAIN users', u # v,
                        users'[u].username = users'[v].username,
                        users'[u].username \notin contended
                 PROVE  FALSE
      BY DEF UsernamesDiffer
    <2>1. \A x \in DOMAIN users' : users'[x].username = users'[u].username =>
             x = w \/ (x \in DOMAIN users /\ users[x].username = users'[u].username)
      BY DEF NamesKept
    <2>2. ASSUME NEW x \in DOMAIN users, users[x].username = users'[u].username
          PROVE  ~(ChangesName(old) /\ old.username = users'[u].username)
      BY <2>2 DEF NamesWanted, Named
    <2>3. CASE /\ u \in DOMAIN users /\ users[u].username = users'[u].username
               /\ v \in DOMAIN users /\ users[v].username = users'[u].username
      BY <2>3 DEF UsernamesDiffer
    <2> QED
      BY <2>1, <2>2, <2>3 DEF NamesKept
  <1>4. NamesWanted'
    <2> SUFFICES ASSUME NEW g \in AccountHandlers, ChangesName(account_calls'[g]),
                        account_calls'[g].username \notin contended,
                        NEW u \in DOMAIN users', users'[u].username = account_calls'[g].username
                 PROVE  FALSE
      BY DEF NamesWanted, ChangesName, Named
    <2>1. g # h /\ account_calls'[g] = account_calls[g]
      BY <1>1 DEF ChangesName
    <2>2. u \notin DOMAIN users \/ users'[u].username # users[u].username
      BY <2>1 DEF NamesWanted, Named
    <2>3. ChangesName(old) /\ old.username = account_calls[g].username
      BY <2>1, <2>2 DEF NamesKept
    <2> QED
      BY <2>1, <2>3 DEF WantedOnce, ChangesName
  <1>5. WantedOnce'
    BY <1>1 DEF WantedOnce
  <1>6. Alone'
    BY <1>1 DEF Alone
  <1>7. CallsStillSo'
    <2> SUFFICES ASSUME ~crossed, NEW g \in AccountHandlers
                 PROVE  StillSo(users', told', account_calls'[g])
      BY DEF CallsStillSo
    <2>1. CASE g = h
      BY <1>1, <2>1
    <2>2. CASE g # h
      <3>1. account_calls'[g] = NoCall /\ NoCall.pc = "none"
        BY <1>1, <2>2 DEF Alone, NoCall
      <3> QED
        BY <3>1 DEF StillSo
    <2> QED
      BY <2>1, <2>2
  <1> QED
    BY <1>2, <1>3, <1>4, <1>5, <1>6, <1>7

-----------------------------------------------------------------------------
LEMMA UsersAreIds ==
  ASSUME SetUp, AccountInv
  PROVE  DOMAIN users \subseteq UserIds
  BY DEF SetUp, AccountInv, TypesOK, AccountTypeOK, UserIds

LEMMA RegistrationStarts ==
  ASSUME SetUp, AccountInv, NEW h \in AccountHandlers, NEW actor \in DOMAIN users,
         NEW name \in Usernames, NEW role \in Roles,
         RegisterLookup(h, actor, name, role, FirstSecret)
  PROVE  AccountInv'
  <1> DEFINE c == [pc |-> "register", username |-> name, role |-> role,
                   password |-> Typed(FirstSecret)]
  <1>1. Start(h, actor, c) /\ ~Named(name)
    BY DEF RegisterLookup
  <1>2. c \in Calls /\ c.pc = "register" /\ c.username = name
    BY DEF SetUp, Calls, RegisterCalls, Plain, Typed
  <1>3. c # NoCall /\ StillSo(users, told, c)
    BY <1>2 DEF NoCall, StillSo
  <1> HIDE DEF c
  <1> QED
    BY <1>1, <1>2, <1>3, RequestStarts

LEMMA UpdateStarts ==
  ASSUME SetUp, AccountInv, NEW h \in AccountHandlers, NEW actor \in DOMAIN users,
         NEW u \in DOMAIN users, NEW name \in Usernames, NEW role \in Roles,
         UpdateRead(h, actor, u, name, role)
  PROVE  AccountInv'
  <1> DEFINE renames == name # users[u].username
             promotes == role # users[u].role
             c == [pc |-> "update", user |-> u, username |-> name, role |-> role,
                   renames |-> renames, promotes |-> promotes, self |-> u = actor]
  <1>1. Start(h, actor, c) /\ (renames => ~Named(name)) /\ Authorised(actor)
    BY DEF UpdateRead, NameFree, Start
  <1>2. /\ c.pc = "update" /\ c.user = u /\ c.username = name
        /\ c.renames = renames /\ c.self = (u = actor)
    OBVIOUS
  <1>3. c \in Calls
    <2>1. u \in UserIds
      BY UsersAreIds
    <2>2. renames \in BOOLEAN /\ promotes \in BOOLEAN /\ (u = actor) \in BOOLEAN
      OBVIOUS
    <2> QED
      BY <2>1, <2>2, Zenon DEF Calls, UpdateCalls
  <1>4. c # NoCall
    BY DEF NoCall
  <1> HIDE DEF c
  <1>5. c.self => c.user = actor
    BY <1>2
  <1>6. ~c.self => c.user # actor
    BY <1>2
  <1>7. StillSo(users, told, c)
    BY <1>1, <1>2, <1>5, <1>6 DEF StillSo, AdminIn, Authorised
  <1>8. ChangesName(c) => ~Named(c.username)
    BY <1>1, <1>2 DEF ChangesName
  <1> QED
    BY <1>1, <1>3, <1>4, <1>7, <1>8, RequestStarts

LEMMA DeletionStarts ==
  ASSUME SetUp, AccountInv, NEW h \in AccountHandlers, NEW actor \in DOMAIN users,
         NEW u \in DOMAIN users, DeleteRead(h, actor, u)
  PROVE  AccountInv'
  <1> DEFINE c == [pc |-> "destroy", user |-> u]
  <1>1. Start(h, actor, c) /\ u # actor /\ Authorised(actor)
    BY DEF DeleteRead, MayDelete, Start
  <1>2. u \in UserIds
    BY UsersAreIds
  <1>3. c \in Calls /\ c.pc = "destroy" /\ c.user = u
    BY <1>2 DEF Calls, DestroyCalls
  <1>4. c # NoCall /\ ~ChangesName(c)
    BY <1>3 DEF NoCall, ChangesName
  <1> HIDE DEF c
  <1>5. StillSo(users, told, c)
    BY <1>1, <1>3 DEF StillSo, AdminIn, Authorised
  <1> QED
    BY <1>1, <1>3, <1>4, <1>5, RequestStarts

LEMMA ResetStarts ==
  ASSUME SetUp, AccountInv, NEW h \in AccountHandlers, NEW actor \in DOMAIN users,
         NEW u \in DOMAIN users, NEW secret \in Secrets, ResetRead(h, actor, u, secret)
  PROVE  AccountInv'
  <1> DEFINE c == [pc |-> "reset", user |-> u, password |-> Typed(secret)]
  <1>1. Start(h, actor, c)
    BY DEF ResetRead
  <1>2. u \in UserIds
    BY UsersAreIds
  <1>3. c \in Calls /\ c.pc = "reset"
    BY <1>2 DEF Calls, ResetCalls, Plain, Typed
  <1>4. c # NoCall /\ ~ChangesName(c) /\ StillSo(users, told, c)
    BY <1>3 DEF NoCall, ChangesName, StillSo
  <1> HIDE DEF c
  <1> QED
    BY <1>1, <1>3, <1>4, RequestStarts

LEMMA FixStarts ==
  ASSUME SetUp, AccountInv, NEW h \in AccountHandlers, NEW actor \in DOMAIN users,
         FixRead(h, actor)
  PROVE  AccountInv'
  <1> DEFINE read == [u \in Unhashed |-> users[u].password]
             c == [pc |-> "fix", read |-> read]
  <1>1. Start(h, actor, c)
    BY DEF FixRead
  <1>2. Unhashed \in SUBSET UserIds /\ Unhashed \subseteq DOMAIN users
    BY UsersAreIds DEF Unhashed
  <1>3. \A u \in Unhashed : users[u].password \in Plain
    BY DEF AccountInv, TypesOK, AccountTypeOK, User, Plain, Unhashed
  <1>4. read \in [Unhashed -> Plain]
    BY <1>3
  <1>5. ~crossed => \A u \in Unhashed : told[u] \in {read[u].secret, Untold}
    BY <1>2 DEF AccountInv, SecretsTold
  <1> HIDE DEF read
  <1>6. c \in Calls /\ c.pc = "fix" /\ c.read = read
    <2>1. read \in UNION {[S -> Plain] : S \in SUBSET UserIds}
      BY <1>2, <1>4
    <2> QED
      BY <2>1 DEF Calls, FixCalls
  <1>7. c # NoCall /\ ~ChangesName(c)
    BY <1>6 DEF NoCall, ChangesName
  <1> HIDE DEF c
  <1>8. ~crossed => StillSo(users, told, c)
    BY <1>4, <1>5, <1>6 DEF StillSo
  <1> QED
    BY <1>1, <1>6, <1>7, <1>8, RequestStarts

-----------------------------------------------------------------------------
LEMMA NothingLeft ==
  /\ NoCall \in Calls /\ NoCall.pc = "none"
  /\ \A table, secrets : StillSo(table, secrets, NoCall)
  BY DEF Calls, NoCall, StillSo

(* A request ends without a name written and with the administrators kept. *)
LEMMA RequestEnds ==
  ASSUME AccountInv, NEW h \in AccountHandlers, account_calls[h] # NoCall, Answer(h),
         stepped_down' \in BOOLEAN,
         AccountTypeOK', AdminRemains', SecretsTold',
         \E w : NamesKept(w, account_calls[h])
  PROVE  AccountInv'
  <1>1. PICK w : NamesKept(w, account_calls[h])
    OBVIOUS
  <1>2. account_calls' = [account_calls EXCEPT ![h] = NoCall] /\ UNCHANGED <<contended, crossed>>
    BY DEF Answer
  <1> QED
    BY <1>1, <1>2, NothingLeft, RequestWrites

LEMMA UserRegistered ==
  ASSUME SetUp, AccountInv, NEW h \in AccountHandlers, RegisterCreate(h)
  PROVE  AccountInv'
  <1> DEFINE c == account_calls[h]
             row == [username |-> c.username, role |-> c.role, password |-> Hash(c.password)]
  <1>1. /\ c.pc = "register" /\ last_user' = last_user + 1 /\ last_user < MaxUsers
        /\ users' = [u \in DOMAIN users \cup {last_user'} |->
                        IF u = last_user' THEN row ELSE users[u]]
        /\ told' = [u \in DOMAIN users' |-> IF u = last_user' THEN c.password.secret ELSE told[u]]
        /\ Answer(h) /\ UNCHANGED stepped_down
    BY DEF RegisterCreate, At
  <1>2. c \in RegisterCalls /\ c # NoCall
    BY <1>1, CallShape DEF AccountInv, TypesOK
  <1>3. /\ row \in User /\ row.username = c.username
        /\ row.password.secret = c.password.secret /\ c.password.secret \in Secrets
    BY <1>2, PlainHashed DEF RegisterCalls, User, Plain
  <1> HIDE DEF row
  <1>4. /\ last_user' \in 0..MaxUsers /\ last_user' \notin DOMAIN users
        /\ 1..last_user \cup {last_user'} \subseteq 1..last_user'
    BY <1>1 DEF SetUp, AccountInv, TypesOK, AccountTypeOK
  <1>5. /\ DOMAIN users' = DOMAIN users \cup {last_user'} /\ users'[last_user'] = row
        /\ \A u \in DOMAIN users : users'[u] = users[u]
        /\ users' \in [DOMAIN users' -> User]
    BY <1>1, <1>3, <1>4 DEF AccountInv, TypesOK, AccountTypeOK
  <1>6. /\ DOMAIN told' = DOMAIN users' /\ told'[last_user'] = c.password.secret
        /\ \A u \in DOMAIN users : told'[u] = told[u]
        /\ told' \in [DOMAIN users' -> Secrets \cup {Untold}]
    BY <1>1, <1>3, <1>4, <1>5 DEF AccountInv, TypesOK, AccountTypeOK
  <1>7. AccountTypeOK'
    BY <1>1, <1>4, <1>5, <1>6 DEF AccountInv, TypesOK, AccountTypeOK, Answer
  <1>8. AdminRemains'
    BY <1>1, <1>5 DEF AccountInv, AdminRemains, Answer
  <1>9. SecretsTold'
    BY <1>1, <1>3, <1>5, <1>6 DEF AccountInv, SecretsTold, Answer
  <1>10. NamesKept(last_user', c)
    BY <1>1, <1>3, <1>5 DEF NamesKept, ChangesName
  <1> QED
    BY <1>1, <1>2, <1>7, <1>8, <1>9, <1>10, RequestEnds DEF AccountInv, TypesOK

(* An administrator who renames or demotes: of himself the model knows,    *)
(* and of another the one who sent the request is left.                    *)
LEMMA UserUpdated ==
  ASSUME SetUp, AccountInv, NEW h \in AccountHandlers, UpdateSave(h)
  PROVE  AccountInv'
  <1> DEFINE c == account_calls[h]
  <1>1. /\ c.pc = "update" /\ Answer(h) /\ UNCHANGED <<last_user, told>>
        /\ stepped_down' = (stepped_down \/ (c.self /\ c.role # "admin"))
    BY DEF UpdateSave, At
  <1>2. c \in UpdateCalls /\ c # NoCall
    BY <1>1, CallShape DEF AccountInv, TypesOK
  <1>3. /\ DOMAIN users' = DOMAIN users
        /\ \A u \in DOMAIN users : u # c.user => users'[u] = users[u]
        /\ c.user \in DOMAIN users =>
              /\ users'[c.user] \in User
              /\ users'[c.user].username =
                    IF c.renames THEN c.username ELSE users[c.user].username
              /\ users'[c.user].role = IF c.promotes THEN c.role ELSE users[c.user].role
              /\ users'[c.user].password = users[c.user].password
        /\ users' = [u \in DOMAIN users' |-> users'[u]]
    <2>1. CASE c.user \notin DOMAIN users
      BY <2>1 DEF UpdateSave, AccountInv, TypesOK, AccountTypeOK
    <2>2. CASE c.user \in DOMAIN users
      <3>1. users[c.user] \in User
        BY <2>2 DEF AccountInv, TypesOK, AccountTypeOK
      <3>2. c.username \in Usernames /\ c.role \in Roles
        BY <1>2 DEF UpdateCalls
      <3>3. users' = [users EXCEPT ![c.user].username = IF c.renames THEN c.username ELSE @,
                                   ![c.user].role = IF c.promotes THEN c.role ELSE @]
        BY <2>2 DEF UpdateSave
      <3> HIDE DEF c
      <3> QED
        BY <2>2, <3>1, <3>2, <3>3 DEF User, AccountInv, TypesOK, AccountTypeOK
    <2> QED
      BY <2>1, <2>2
  <1> HIDE DEF c
  <1>4. users' \in [DOMAIN users' -> User]
    <2>1. \A u \in DOMAIN users' : users'[u] \in User
      BY <1>3 DEF AccountInv, TypesOK, AccountTypeOK
    <2> QED
      BY <1>3, <2>1
  <1>5. AccountTypeOK'
    BY <1>1, <1>3, <1>4 DEF AccountInv, TypesOK, AccountTypeOK, Answer
  <1>6. stepped_down' \in BOOLEAN
    BY <1>1 DEF AccountInv, TypesOK
  <1>7. AdminRemains'
    <2> SUFFICES ASSUME ~stepped_down', ~crossed
                 PROVE  \E u \in DOMAIN users' : users'[u].role = "admin"
      BY <1>1 DEF AdminRemains, Answer
    <2>1. StillSo(users, told, c)
      BY DEF AccountInv, CallsStillSo, c
    <2>2. CASE c.self
      BY <1>1, <1>3, <2>1, <2>2 DEF StillSo, AdminIn
    <2>3. CASE ~c.self
      BY <1>1, <1>3, <2>1, <2>3 DEF StillSo, AdminIn
    <2> QED
      BY <2>2, <2>3
  <1>8. SecretsTold'
    BY <1>1, <1>3 DEF AccountInv, SecretsTold, Answer
  <1>9. NamesKept(c.user, c)
    BY <1>1, <1>3 DEF NamesKept, ChangesName
  <1> QED
    BY <1>1, <1>2, <1>5, <1>6, <1>7, <1>8, <1>9, RequestEnds DEF c

(* The one who sent the request is left: he may not delete himself.        *)
LEMMA UserDeleted ==
  ASSUME SetUp, AccountInv, NEW h \in AccountHandlers, Destroy(h)
  PROVE  AccountInv'
  <1> DEFINE c == account_calls[h]
  <1>1. /\ c.pc = "destroy" /\ Answer(h) /\ UNCHANGED <<last_user, stepped_down>>
        /\ users' = Without(users, c.user) /\ told' = Without(told, c.user)
    BY DEF Destroy, At
  <1>2. c # NoCall
    BY <1>1 DEF NoCall
  <1> HIDE DEF c
  <1>3. /\ DOMAIN users' = DOMAIN users \ {c.user} /\ DOMAIN told' = DOMAIN users'
        /\ \A u \in DOMAIN users' : users'[u] = users[u] /\ told'[u] = told[u]
        /\ users' \in [DOMAIN users' -> User] /\ told' \in [DOMAIN users' -> Secrets \cup {Untold}]
    BY <1>1 DEF Without, AccountInv, TypesOK, AccountTypeOK
  <1>4. AccountTypeOK'
    BY <1>1, <1>3 DEF AccountInv, TypesOK, AccountTypeOK, Answer
  <1>5. AdminRemains'
    <2> SUFFICES ASSUME ~stepped_down, ~crossed
                 PROVE  \E u \in DOMAIN users' : users'[u].role = "admin"
      BY <1>1 DEF AdminRemains, Answer
    <2>1. StillSo(users, told, c)
      BY DEF AccountInv, CallsStillSo, c
    <2> QED
      BY <1>1, <1>3, <2>1 DEF StillSo, AdminIn
  <1>6. SecretsTold'
    BY <1>1, <1>3 DEF AccountInv, SecretsTold, Answer
  <1>7. NamesKept(c.user, c)
    BY <1>3 DEF NamesKept
  <1> QED
    BY <1>1, <1>2, <1>4, <1>5, <1>6, <1>7, RequestEnds DEF c, AccountInv, TypesOK

-----------------------------------------------------------------------------
(* A statement that sets the password of one user to the hash of p.        *)
LEMMA PasswordWritten ==
  ASSUME AccountInv, NEW u \in DOMAIN users, NEW p \in Plain,
         users' = [users EXCEPT ![u].password = Hash(p)],
         UNCHANGED <<last_user, contended, crossed, stepped_down>>,
         DOMAIN told' = DOMAIN users, told' \in [DOMAIN users -> Secrets \cup {Untold}],
         ~crossed => /\ told'[u] \in {p.secret, Untold}
                     /\ \A v \in DOMAIN users \ {u} : told'[v] = told[v]
  PROVE  AccountTypeOK' /\ AdminRemains' /\ SecretsTold' /\ \A old : NamesKept(u, old)
  <1>1. users[u] \in User /\ Hash(p) \in [secret : Secrets, hashes : 0..1]
    BY PlainHashed DEF AccountInv, TypesOK, AccountTypeOK, Plain
  <1>2. /\ DOMAIN users' = DOMAIN users
        /\ \A v \in DOMAIN users \ {u} : users'[v] = users[v]
        /\ users'[u].username = users[u].username /\ users'[u].role = users[u].role
        /\ users'[u].password = Hash(p) /\ users'[u] \in User
        /\ users' \in [DOMAIN users -> User]
    BY <1>1 DEF User, AccountInv, TypesOK, AccountTypeOK
  <1>3. AccountTypeOK'
    BY <1>2 DEF AccountInv, TypesOK, AccountTypeOK
  <1>4. AdminRemains'
    BY <1>2 DEF AccountInv, AdminRemains
  <1>5. Hash(p).secret = p.secret
    BY PlainHashed
  <1>6. SecretsTold'
    BY <1>2, <1>5 DEF AccountInv, SecretsTold
  <1>7. \A v \in DOMAIN users' : users'[v].username = users[v].username
    BY <1>2
  <1> QED
    BY <1>2, <1>3, <1>4, <1>6, <1>7 DEF NamesKept

LEMMA TablesSame ==
  ASSUME AccountInv, UNCHANGED <<users, last_user, told, contended, crossed, stepped_down>>
  PROVE  AccountTypeOK' /\ AdminRemains' /\ SecretsTold' /\ \A w, old : NamesKept(w, old)
  BY DEF AccountInv, TypesOK, AccountTypeOK, AdminRemains, SecretsTold, NamesKept

LEMMA PasswordReset ==
  ASSUME AccountInv, NEW h \in AccountHandlers, ResetSave(h)
  PROVE  AccountInv'
  <1> DEFINE c == account_calls[h]
             d == [c EXCEPT !.pc = "verify"]
  <1>1. /\ c.pc = "reset" /\ account_calls' = [account_calls EXCEPT ![h] = d]
        /\ UNCHANGED <<last_user, contended, crossed, stepped_down>>
    BY DEF ResetSave, At
  <1>2. c \in ResetCalls /\ c.password \in Plain /\ c # NoCall
    BY <1>1, CallShape DEF AccountInv, TypesOK, ResetCalls
  <1>3. /\ d \in Calls /\ d.pc = "verify" /\ d.user = c.user /\ d.password = c.password
    BY <1>2 DEF ResetCalls, Calls
  <1> HIDE DEF d
  <1>4. CASE c.user \notin DOMAIN users /\ UNCHANGED <<users, told>>
    <2>1. AccountTypeOK' /\ AdminRemains' /\ SecretsTold' /\ \A w, old : NamesKept(w, old)
      BY <1>1, <1>4, TablesSame
    <2>2. StillSo(users', told', d)
      BY <1>3, <1>4 DEF StillSo
    <2> QED
      BY <1>1, <1>2, <1>3, <2>1, <2>2, RequestWrites DEF AccountInv, TypesOK
  <1>5. CASE /\ c.user \in DOMAIN users
             /\ users' = [users EXCEPT ![c.user].password = Hash(c.password)]
             /\ told' = [told EXCEPT ![c.user] = Untold]
    <2> DEFINE u == c.user
               p == c.password
    <2>1. /\ u \in DOMAIN users /\ p \in Plain /\ d.user = u /\ d.password = p
          /\ users' = [users EXCEPT ![u].password = Hash(p)]
          /\ told' = [told EXCEPT ![u] = Untold]
      BY <1>2, <1>3, <1>5
    <2> HIDE DEF u, p
    <2>2. /\ DOMAIN told' = DOMAIN users /\ told' \in [DOMAIN users -> Secrets \cup {Untold}]
          /\ told'[u] \in {p.secret, Untold} /\ \A v \in DOMAIN users \ {u} : told'[v] = told[v]
      BY <2>1 DEF AccountInv, TypesOK, AccountTypeOK
    <2>3. AccountTypeOK' /\ AdminRemains' /\ SecretsTold' /\ \A old : NamesKept(u, old)
      BY <1>1, <2>1, <2>2, PasswordWritten
    <2>4. users[u] \in User /\ users'[u].password = Hash(p)
      BY <2>1 DEF AccountInv, TypesOK, AccountTypeOK, User
    <2>5. StillSo(users', told', d)
      BY <1>3, <2>1, <2>4, PlainHashed DEF StillSo
    <2> QED
      BY <1>1, <1>2, <1>3, <2>3, <2>5, RequestWrites DEF AccountInv, TypesOK
  <1> QED
    BY <1>4, <1>5 DEF ResetSave

(* A reset that has found the user again tells what it wrote. *)
LEMMA PasswordVerified ==
  ASSUME AccountInv, NEW h \in AccountHandlers, ResetVerify(h)
  PROVE  AccountInv'
  <1> DEFINE c == account_calls[h]
             u == c.user
             secret == c.password.secret
  <1>1. /\ c.pc = "verify" /\ c.user \in DOMAIN users /\ Answer(h)
        /\ told' = [told EXCEPT ![u] = secret]
        /\ UNCHANGED <<users, last_user, contended, crossed, stepped_down>>
    BY DEF ResetVerify, At, Answer
  <1>2. c # NoCall /\ secret \in Secrets
    BY <1>1, CallShape DEF AccountInv, TypesOK, ResetCalls, Plain
  <1>3. ~crossed => users[u].password.secret = secret
    BY <1>1 DEF AccountInv, CallsStillSo, StillSo
  <1> HIDE DEF secret, u
  <1>4. AccountTypeOK'
    BY <1>1, <1>2 DEF AccountInv, TypesOK, AccountTypeOK
  <1>5. AdminRemains'
    BY <1>1 DEF AccountInv, AdminRemains
  <1>6. SecretsTold'
    BY <1>1, <1>3 DEF AccountInv, SecretsTold, TypesOK, AccountTypeOK
  <1>7. \E w : NamesKept(w, c)
    BY <1>1 DEF NamesKept
  <1> QED
    BY <1>1, <1>2, <1>4, <1>5, <1>6, <1>7, RequestEnds DEF AccountInv, TypesOK

(* fix-passwords hashes what it has read. *)
LEMMA PasswordFixed ==
  ASSUME AccountInv, NEW h \in AccountHandlers, NEW u \in UserIds, FixUser(h, u)
  PROVE  AccountInv'
  <1> DEFINE c == account_calls[h]
             d == IF DOMAIN c.read = {u} THEN NoCall ELSE [c EXCEPT !.read = Without(@, u)]
  <1>1. /\ c.pc = "fix" /\ u \in DOMAIN c.read
        /\ account_calls' = [account_calls EXCEPT ![h] = d]
        /\ users' = IF u \in DOMAIN users
                      THEN [users EXCEPT ![u].password = Hash(c.read[u])] ELSE users
        /\ UNCHANGED <<last_user, told, contended, crossed, stepped_down>>
    BY DEF FixUser, At
  <1>2. c \in FixCalls /\ c # NoCall
    BY <1>1, CallShape DEF AccountInv, TypesOK
  <1>3. PICK S \in SUBSET UserIds : c.read \in [S -> Plain]
    BY <1>2 DEF FixCalls
  <1>4. ~crossed => \A v \in DOMAIN c.read \cap DOMAIN users : told[v] \in {c.read[v].secret, Untold}
    BY <1>1 DEF AccountInv, CallsStillSo, StillSo
  <1> HIDE DEF c
  <1>5. /\ d \in Calls /\ d.pc \in {"none", "fix"}
        /\ d.pc = "fix" => \A v \in DOMAIN d.read : v \in DOMAIN c.read /\ d.read[v] = c.read[v]
    <2>1. CASE d = NoCall
      BY <2>1, NothingLeft
    <2>2. CASE d = [c EXCEPT !.read = Without(c.read, u)]
      <3>1. Without(c.read, u) \in [S \ {u} -> Plain] /\ S \ {u} \in SUBSET UserIds
        BY <1>3 DEF Without
      <3>2. Without(c.read, u) \in UNION {[T -> Plain] : T \in SUBSET UserIds}
        BY <3>1
      <3>3. d \in FixCalls /\ d.pc = "fix" /\ d.read = Without(c.read, u)
        BY <1>2, <2>2, <3>2 DEF FixCalls
      <3> HIDE DEF d
      <3> QED
        BY <3>3 DEF Calls, Without
    <2> QED
      BY <2>1, <2>2
  <1>6. account_calls' = [account_calls EXCEPT ![h] = d]
    BY <1>1
  <1> HIDE DEF d
  <1>7. /\ AccountTypeOK' /\ AdminRemains' /\ SecretsTold' /\ NamesKept(u, c)
        /\ DOMAIN users' = DOMAIN users
    <2>1. CASE users' = users
      BY <1>1, <2>1, TablesSame
    <2>2. CASE u \in DOMAIN users /\ users' = [users EXCEPT ![u].password = Hash(c.read[u])]
      <3> DEFINE p == c.read[u]
      <3>1. p \in Plain /\ (~crossed => told[u] \in {p.secret, Untold})
        BY <1>1, <1>3, <1>4, <2>2
      <3>2. users' = [users EXCEPT ![u].password = Hash(p)]
        BY <2>2
      <3> HIDE DEF p
      <3>3. /\ DOMAIN told' = DOMAIN users /\ told' \in [DOMAIN users -> Secrets \cup {Untold}]
            /\ ~crossed => /\ told'[u] \in {p.secret, Untold}
                           /\ \A v \in DOMAIN users \ {u} : told'[v] = told[v]
        BY <1>1, <3>1 DEF AccountInv, TypesOK, AccountTypeOK
      <3>4. DOMAIN users' = DOMAIN users
        BY <3>2
      <3> QED
        BY <1>1, <2>2, <3>1, <3>2, <3>3, <3>4, PasswordWritten
    <2> QED
      BY <1>1, <2>1, <2>2
  <1>8. ~crossed => StillSo(users', told', d)
    BY <1>1, <1>4, <1>5, <1>7 DEF StillSo
  <1>9. stepped_down' \in BOOLEAN
    BY <1>1 DEF AccountInv, TypesOK
  <1> QED
    BY <1>1, <1>2, <1>5, <1>6, <1>7, <1>8, <1>9, RequestWrites DEF c

LEMMA RequestFails ==
  ASSUME AccountInv, NEW h \in AccountHandlers, Fail(h)
  PROVE  AccountInv'
  <1>1. /\ account_calls[h] # NoCall /\ Answer(h)
        /\ UNCHANGED <<users, last_user, told, stepped_down, contended, crossed>>
    BY DEF Fail, Answer
  <1> QED
    BY <1>1, TablesSame, RequestEnds DEF AccountInv, TypesOK

-----------------------------------------------------------------------------
LEMMA AccountInit ==
  ASSUME SetUp, Init
  PROVE  AccountInv
  <1>1. PICK hashes \in 0..1 :
          users = [u \in {1} |-> [username |-> FirstName, role |-> "admin",
                     password |-> [secret |-> FirstSecret, hashes |-> hashes]]]
    BY DEF Init
  <1>2. /\ last_user = 1 /\ account_calls = [h \in AccountHandlers |-> NoCall]
        /\ told = [u \in {1} |-> FirstSecret]
        /\ contended = {} /\ crossed = FALSE /\ stepped_down = FALSE
    BY DEF Init
  <1>3. users \in [{1} -> User]
    BY <1>1 DEF SetUp, User, Roles
  <1>4. AccountTypeOK
    BY <1>2, <1>3 DEF SetUp, AccountTypeOK
  <1>5. TypesOK
    BY <1>2, <1>4, NothingLeft DEF TypesOK
  <1>6. UsernamesDiffer
    BY <1>3 DEF UsernamesDiffer
  <1>7. AdminRemains /\ SecretsTold
    BY <1>1, <1>2 DEF AdminRemains, SecretsTold
  <1>8. \A h \in AccountHandlers : account_calls[h] = NoCall /\ account_calls[h].pc = "none"
    BY <1>2, NothingLeft
  <1>9. NamesWanted /\ WantedOnce /\ Alone /\ CallsStillSo
    BY <1>8, NothingLeft DEF NamesWanted, ChangesName, WantedOnce, Alone, CallsStillSo
  <1> QED
    BY <1>5, <1>6, <1>7, <1>9 DEF AccountInv

LEMMA AccountStep ==
  ASSUME SetUp, AccountInv, [Next]_accountVars
  PROVE  AccountInv'
  <1>1. CASE UNCHANGED accountVars
    BY <1>1 DEF accountVars, AccountInv, TypesOK, AccountTypeOK, UsernamesDiffer, NamesWanted,
                ChangesName, Named, WantedOnce, AdminRemains, Alone, CallsStillSo, SecretsTold
  <1>2. ASSUME NEW h \in AccountHandlers, NEW actor \in DOMAIN users, Arrive(h, actor)
        PROVE  AccountInv'
    <2>1. ASSUME NEW secret \in Secrets \ {FirstSecret}, NEW u \in DOMAIN users,
                 ResetRead(h, actor, u, secret)
          PROVE  AccountInv'
      BY <2>1, ResetStarts
    <2> QED
      BY <1>2, <2>1, RegistrationStarts, UpdateStarts, DeletionStarts, FixStarts DEF Arrive
  <1>3. CASE Next
    BY <1>2, <1>3, UserRegistered, UserUpdated, UserDeleted, PasswordReset, PasswordVerified,
       PasswordFixed,
       RequestFails DEF Next
  <1> QED
    BY <1>1, <1>3

(* No two users have the same name, which no key of the table enforces,    *)
(* unless two requests wanted to write that name at the same time.         *)
THEOREM NamesStayDifferent ==
  ASSUME SetUp
  PROVE  Spec => []UsernamesDiffer
  <1>1. AccountInv => UsernamesDiffer
    BY DEF AccountInv
  <1> QED
    BY <1>1, AccountInit, AccountStep, PTL DEF Spec

(* There is an administrator, unless the last one gave the role away or    *)
(* two requests of administrators met.                                     *)
THEOREM AdminStays ==
  ASSUME SetUp
  PROVE  Spec => []AdminRemains
  <1>1. AccountInv => AdminRemains
    BY DEF AccountInv
  <1> QED
    BY <1>1, AccountInit, AccountStep, PTL DEF Spec

LEMMA SecretsWork ==
  ASSUME AccountInv
  PROVE  ToldPasswordWorks
  BY HashedLogsIn DEF AccountInv, SecretsTold, ToldPasswordWorks

(* A user whose password is hashed logs in with the one he was last told,  *)
(* unless a reset has changed it and told nobody, or requests met.         *)
THEOREM PasswordsWork ==
  ASSUME SetUp
  PROVE  Spec => []ToldPasswordWorks
  BY SecretsWork, AccountInit, AccountStep, PTL DEF Spec
=============================================================================
