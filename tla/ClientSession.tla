----------------------------- MODULE ClientSession -----------------------------
(***************************************************************************)
(* The session in the browser: AuthContext, the axios interceptor, the     *)
(* guards of the routes, the pages that log in, log out and impersonate.   *)
(* Tabs share localStorage; each has its own React state, its own          *)
(* Authorization header and its own requests under way.                    *)
(*                                                                         *)
(* A token is a number, in the order in which the server signs them.       *)
(***************************************************************************)
EXTENDS Integers, FiniteSets

CONSTANTS
    Tabs,
    People,       \* users of the application
    Admins,       \* those of them whose role is admin
    MaxTokens     \* tokens signed at most

VARIABLES
    owner,      \* token -> the user it was signed for
    ended,      \* tokens that have expired
    store,      \* the token in localStorage, or NoToken
    tab         \* what each tab holds

sessionVars == <<owner, ended, store, tab>>

NoToken == 0
Nobody == "nobody"
Tokens == 1..MaxTokens
Signed == DOMAIN owner
Next1 == Cardinality(Signed) + 1

Closed == [token |-> NoToken, header |-> NoToken, user |-> Nobody, banner |-> FALSE,
           where |-> "closed", verifying |-> {}, asking |-> {}, entering |-> Nobody,
           crossed |-> FALSE]

SessionTypeOK ==
    /\ Signed \subseteq Tokens /\ \A t \in Signed : owner[t] \in People
    /\ ended \subseteq Signed
    /\ store \in Signed \cup {NoToken}
    /\ \A b \in Tabs :
          /\ {tab[b].token, tab[b].header} \subseteq Signed \cup {NoToken}
          /\ tab[b].user \in People \cup {Nobody}
          /\ tab[b].where \in {"closed", "login", "pages", "alert"}
          /\ tab[b].verifying \cup tab[b].asking \subseteq Signed
          /\ tab[b].entering \in People \cup {Nobody}

SessionInit ==
    /\ owner = [t \in {} |-> Nobody]
    /\ ended = {}
    /\ store = NoToken
    /\ tab = [b \in Tabs |-> Closed]

Accepted(t) == t \in Signed \ ended
Becomes(b, new) == tab' = [tab EXCEPT ![b] = new]
-----------------------------------------------------------------------------
(***************************************************************************)
(* A page is loaded, at an address of the login page or another one: the   *)
(* token is read from localStorage and verified, nobody is shown yet.      *)
(* Requests of the page before it are forgotten.                           *)
(***************************************************************************)
Load(b, where) ==
    /\ Becomes(b, [Closed EXCEPT !.token = store, !.header = store,
                      !.where = IF store = NoToken THEN "login" ELSE where,
                      !.verifying = IF store = NoToken THEN {} ELSE {store}])
    /\ UNCHANGED <<owner, ended, store>>

Shown(b) == tab[b].where = "pages" /\ tab[b].user # Nobody

(* The effect on the token sets the header and verifies the token.  It is  *)
(* passive and that of the outermost component: the requests of the page   *)
(* that was rendered with a new token are sent before, unless who set the  *)
(* token has set the header too.  React runs it before it renders again.   *)
Due(r) == r.where = "pages" /\ r.token \notin {NoToken, r.header}
Settled(r) ==
    IF Due(r) THEN [r EXCEPT !.header = r.token, !.verifying = @ \cup {r.token}] ELSE r

Effect(b) ==
    /\ Due(tab[b])
    /\ Becomes(b, Settled(tab[b]))
    /\ UNCHANGED <<owner, ended, store>>

(* The hourly refresh *)
Refresh(b) ==
    /\ tab[b].where \in {"pages", "login"} /\ NoToken \notin {tab[b].token, tab[b].header}
    /\ Becomes(b, [tab[b] EXCEPT !.verifying = @ \cup {tab[b].header}])
    /\ UNCHANGED <<owner, ended, store>>

(* GET /me is answered with the user of the token that asked.  Nothing     *)
(* compares that token with the one the tab holds by then.                 *)
MeAnswers(b, t) ==
    /\ t \in tab[b].verifying /\ tab[b].where # "alert"
    /\ Accepted(t)
    /\ Becomes(b, [Settled(tab[b]) EXCEPT !.user = owner[t], !.banner = FALSE,
                      !.verifying = @ \ {t},
                      !.crossed = IF t = tab[b].token THEN @ ELSE TRUE])
    /\ UNCHANGED <<owner, ended, store>>

LoggedOut(r) ==
    [r EXCEPT !.token = NoToken, !.header = NoToken, !.user = Nobody, !.banner = FALSE,
              !.where = "login", !.crossed = FALSE]

(* The interceptor of any answer 401, off the login page, takes the token  *)
(* away from all tabs and shows an alert; the page is loaded again after   *)
(* it.                                                                     *)
Intercepted(r) == [r EXCEPT !.header = NoToken, !.where = "alert"]

(* GET /me is answered 401, for a token that has ended or because the      *)
(* database did not answer the middleware in time: logout() follows.       *)
MeRefused(b, t) ==
    LET r == [tab[b] EXCEPT !.verifying = @ \ {t}]
        out == [LoggedOut(r) EXCEPT !.where = r.where]
    IN
    /\ t \in tab[b].verifying /\ tab[b].where # "alert"
    /\ Becomes(b, IF r.where = "login" THEN LoggedOut(r) ELSE Intercepted(out))
    /\ store' = NoToken
    /\ UNCHANGED <<owner, ended>>

(* Another error is only noted; with nobody shown, the routes lead to the  *)
(* login page, the token stays.                                            *)
MeFails(b, t) ==
    /\ t \in tab[b].verifying /\ tab[b].where # "alert"
    /\ Becomes(b, [Settled(tab[b]) EXCEPT !.verifying = @ \ {t},
                      !.where = IF tab[b].user = Nobody THEN "login" ELSE @])
    /\ UNCHANGED <<owner, ended, store>>
-----------------------------------------------------------------------------
(* Any other request of a page, which carries the header of its moment *)
Ask(b) ==
    /\ Shown(b)
    /\ tab[b].header # NoToken
    /\ Becomes(b, [tab[b] EXCEPT !.asking = @ \cup {tab[b].header}])
    /\ UNCHANGED <<owner, ended, store>>

Answered(b, t) ==
    /\ t \in tab[b].asking /\ tab[b].where # "alert"
    /\ Accepted(t)
    /\ Becomes(b, [tab[b] EXCEPT !.asking = @ \ {t}])
    /\ UNCHANGED <<owner, ended, store>>

Refused(b, t) ==
    /\ t \in tab[b].asking /\ tab[b].where # "alert"
    /\ IF tab[b].where = "login"
         THEN Becomes(b, [tab[b] EXCEPT !.asking = @ \ {t}]) /\ UNCHANGED store
         ELSE Becomes(b, [Intercepted(tab[b]) EXCEPT !.asking = @ \ {t}]) /\ store' = NoToken
    /\ UNCHANGED <<owner, ended>>

DismissAlert(b) == tab[b].where = "alert" /\ Load(b, "login")
-----------------------------------------------------------------------------
(***************************************************************************)
(* Login and impersonation: a request is sent, and its answer carries a    *)
(* new token and its user.  Login sets the header itself, impersonation    *)
(* leaves it to the effect.                                                *)
(***************************************************************************)
Sign(person) ==
    /\ Next1 \in Tokens
    /\ owner' = [t \in Signed \cup {Next1} |-> IF t = Next1 THEN person ELSE owner[t]]

Entered_StoreOnly(r, person, banner) ==   \* variant: only localStorage gets the token
    [r EXCEPT !.user = person, !.banner = banner, !.entering = Nobody, !.where = "pages"]
Entered(r, person, banner) ==
    [r EXCEPT !.token = Next1, !.user = person, !.banner = banner,
              !.entering = Nobody, !.where = "pages", !.crossed = FALSE]

SubmitLogin(b, person) ==
    /\ tab[b].where = "login" /\ tab[b].entering = Nobody
    /\ Becomes(b, [tab[b] EXCEPT !.entering = person])
    /\ UNCHANGED <<owner, ended, store>>

LoginSucceeds(b) ==
    /\ tab[b].where = "login" /\ tab[b].entering # Nobody
    /\ Sign(tab[b].entering)
    /\ store' = Next1
    /\ Becomes(b, Settled(Entered(tab[b], tab[b].entering, FALSE)))
    /\ UNCHANGED ended

(* 401 on the login page, and other errors: a message *)
LoginFails(b) ==
    /\ tab[b].where = "login" /\ tab[b].entering # Nobody
    /\ Becomes(b, [tab[b] EXCEPT !.entering = Nobody])
    /\ UNCHANGED <<owner, ended, store>>

(* The list of users offers it to admins, for everybody but themselves. *)
Impersonate(b, person) ==
    /\ Shown(b) /\ tab[b].user \in Admins /\ person # tab[b].user
    /\ Accepted(tab[b].header) /\ owner[tab[b].header] \in Admins
    /\ Sign(person)
    /\ store' = Next1
    /\ Becomes(b, Entered(Settled(tab[b]), person, TRUE))
    /\ UNCHANGED ended

(* Also "End Impersonation": the admin has to log in again. *)
Logout(b) ==
    /\ Shown(b)
    /\ Becomes(b, LoggedOut(Settled(tab[b])))
    /\ store' = NoToken
    /\ UNCHANGED <<owner, ended>>

Expire(t) ==
    /\ Accepted(t)
    /\ ended' = ended \cup {t}
    /\ UNCHANGED <<owner, store, tab>>

SessionNext ==
    \/ \E b \in Tabs :
          \/ \E where \in {"login", "pages"} : tab[b].where # "alert" /\ Load(b, where)
          \/ Effect(b) \/ Refresh(b) \/ Ask(b) \/ DismissAlert(b)
          \/ LoginSucceeds(b) \/ LoginFails(b) \/ Logout(b)
          \/ \E t \in Signed :
                MeAnswers(b, t) \/ MeRefused(b, t) \/ MeFails(b, t) \/ Answered(b, t) \/ Refused(b, t)
          \/ \E person \in People : SubmitLogin(b, person) \/ Impersonate(b, person)
    \/ \E t \in Signed : Expire(t)

SessionSpec == SessionInit /\ [][SessionNext]_sessionVars
-----------------------------------------------------------------------------
(* The requests of a page act for the user whom the page shows, whatever   *)
(* the other tabs do, but for those that the page sends when impersonation *)
(* has begun and the effect has not set the header, and unless an answer   *)
(* to an earlier token of this tab has come in since.                      *)
ActsAsShown ==
    \A b \in Tabs :
        Shown(b) /\ ~tab[b].crossed /\ ~Due(tab[b]) =>
            tab[b].header # NoToken /\ owner[tab[b].header] = tab[b].user
=============================================================================
