---------------------------- MODULE SavedSearches ----------------------------
(***************************************************************************)
(* routes/savedSearches.js: the searches a user keeps, one of which may be *)
(* the default.  POST and PUT clear the old default in one statement and   *)
(* write the new one in another.  A step is a statement with the code up   *)
(* to the next await; the first statement of a handler is its first step.  *)
(***************************************************************************)
EXTENDS Integers, FiniteSets

CONSTANTS
    Users,
    MaxSearches,      \* searches created in this instance
    SearchHandlers    \* requests the server serves at the same time

VARIABLES
    searches,      \* saved_searches: id -> [user_id, is_default]
    last_search,   \* ids given out so far; none is given twice
    search_calls,  \* what the request in each slot keeps between two awaits
    contended      \* users of whom two requests for a default have overlapped

SearchIds == 1..MaxSearches
searchVars == <<searches, last_search, search_calls, contended>>

SearchRow == [user_id : Users, is_default : BOOLEAN]

NoCall == [pc |-> "none"]
Undefined == {}              \* is_default left out of the body of a PUT
Calls == {NoCall}
    \cup [pc : {"insert"}, user : Users]
    \cup [pc : {"clear", "save"}, user : Users, id : SearchIds,
          is_default : {{TRUE}, {FALSE}, Undefined}, was : BOOLEAN]
    \cup [pc : {"destroy"}, user : Users, id : SearchIds]

TypeOK ==
    /\ searches \in [DOMAIN searches -> SearchRow]
    /\ DOMAIN searches \subseteq 1..last_search
    /\ last_search \in 0..MaxSearches
    /\ search_calls \in [SearchHandlers -> Calls]
    /\ contended \subseteq Users

Init ==
    /\ searches = [id \in {} |-> id]
    /\ last_search = 0
    /\ search_calls = [h \in SearchHandlers |-> NoCall]
    /\ contended = {}
-----------------------------------------------------------------------------
(* The request c will write a default of its user. *)
MakesDefault(c) ==
    \/ c.pc = "insert"
    \/ c.pc \in {"clear", "save"} /\ TRUE \in c.is_default /\ ~c.was

Rivals(h, c) ==
    {g \in SearchHandlers \ {h} :
        MakesDefault(search_calls[g]) /\ search_calls[g].user = c.user}

Start(h, c) ==
    /\ search_calls[h] = NoCall
    /\ search_calls' = [search_calls EXCEPT ![h] = c]
    /\ contended' = IF MakesDefault(c) /\ Rivals(h, c) # {}
                      THEN contended \cup {c.user} ELSE contended

Become(h, c) ==
    /\ search_calls' = [search_calls EXCEPT ![h] = c]
    /\ UNCHANGED contended

At(h, pc) == search_calls[h].pc = pc

(* SavedSearch.update({ is_default: false }, { where: { user_id, ... } }) *)
Cleared_AnyUser(u) ==   \* variant: without user_id in the condition
    [id \in DOMAIN searches |-> [searches[id] EXCEPT !.is_default = FALSE]]
Cleared(u) ==
    [id \in DOMAIN searches |->
        [searches[id] EXCEPT !.is_default = @ /\ searches[id].user_id # u]]

InsertSearch(row) ==
    /\ last_search < MaxSearches
    /\ last_search' = last_search + 1
    /\ searches' = [k \in DOMAIN searches \cup {last_search'} |->
                       IF k = last_search' THEN row ELSE searches[k]]

(* POST / *)
CreatePlain(h, u) ==
    /\ search_calls[h] = NoCall
    /\ InsertSearch([user_id |-> u, is_default |-> FALSE])
    /\ UNCHANGED <<search_calls, contended>>

CreateDefault_Insert(h, u) ==   \* variant: inserts first and clears nothing
    /\ Start(h, NoCall)
    /\ InsertSearch([user_id |-> u, is_default |-> TRUE])
CreateDefault(h, u) ==
    /\ Start(h, [pc |-> "insert", user |-> u])
    /\ searches' = Cleared(u)
    /\ UNCHANGED last_search

InsertDefault(h) ==
    /\ At(h, "insert")
    /\ InsertSearch([user_id |-> search_calls[h].user, is_default |-> TRUE])
    /\ Become(h, NoCall)
-----------------------------------------------------------------------------
(* findOne({ where: { id, user_id } }) *)
Own(u, id) == id \in DOMAIN searches /\ searches[id].user_id = u

(* PUT /:id.  update() writes the fields that differ from what was read,   *)
(* and no row at all if the search is gone.                                *)
UpdateRead(h, u, id, d) ==
    LET was == searches[id].is_default IN
    /\ Own(u, id)
    /\ Start(h, [pc |-> IF TRUE \in d /\ ~was THEN "clear" ELSE "save",
                 user |-> u, id |-> id, is_default |-> d, was |-> was])
    /\ UNCHANGED <<searches, last_search>>

UpdateClear(h) ==
    /\ At(h, "clear")
    /\ searches' = Cleared(search_calls[h].user)
    /\ Become(h, [search_calls[h] EXCEPT !.pc = "save"])
    /\ UNCHANGED last_search

UpdateSave(h) ==
    LET c == search_calls[h] IN
    /\ At(h, "save")
    /\ searches' = IF c.id \in DOMAIN searches /\ (~c.was) \in c.is_default
                     THEN [searches EXCEPT ![c.id].is_default = ~c.was]
                     ELSE searches
    /\ Become(h, NoCall)
    /\ UNCHANGED last_search

(* DELETE /:id *)
DeleteRead(h, u, id) ==
    /\ Own(u, id)
    /\ Start(h, [pc |-> "destroy", user |-> u, id |-> id])
    /\ UNCHANGED <<searches, last_search>>

Destroy(h) ==
    /\ At(h, "destroy")
    /\ searches' = [k \in DOMAIN searches \ {search_calls[h].id} |-> searches[k]]
    /\ Become(h, NoCall)
    /\ UNCHANGED last_search

(* A statement fails: the handler answers 500, and what it did stays. *)
Fail(h) ==
    /\ search_calls[h] # NoCall
    /\ Become(h, NoCall)
    /\ UNCHANGED <<searches, last_search>>

Next ==
    \E h \in SearchHandlers :
        \/ \E u \in Users : CreatePlain(h, u)
        \/ \E u \in Users : CreateDefault(h, u)
        \/ \E u \in Users, id \in DOMAIN searches :
              \/ \E d \in {{TRUE}, {FALSE}, Undefined} : UpdateRead(h, u, id, d)
              \/ DeleteRead(h, u, id)
        \/ InsertDefault(h) \/ UpdateClear(h) \/ UpdateSave(h) \/ Destroy(h) \/ Fail(h)

Spec == Init /\ [][Next]_searchVars
-----------------------------------------------------------------------------
(* A user has at most one default search, unless two requests of that user *)
(* that write a default have overlapped: then both clear before either     *)
(* writes, and both stay default.                                          *)
OneDefault ==
    \A u \in Users \ contended :
        Cardinality({id \in DOMAIN searches :
            searches[id].user_id = u /\ searches[id].is_default}) <= 1

(* A request changes searches of the user who sent it only, also in the    *)
(* statement that clears by condition and not by id.                       *)
TouchesOwnSearches ==
    \A id \in DOMAIN searches :
        \/ id \in DOMAIN searches' /\ searches'[id] = searches[id]
        \/ \E h \in SearchHandlers :
              \E c \in {search_calls[h], search_calls'[h]} :
                  c # NoCall /\ c.user = searches[id].user_id
OwnSearchesOnly == [][TouchesOwnSearches]_searchVars
=============================================================================
