------------------------- MODULE SavedSearches_proofs -------------------------
(***************************************************************************)
(* Proofs about SavedSearches, for any users, any number of searches and   *)
(* any number of requests served at the same time.                         *)
(***************************************************************************)
EXTENDS SavedSearches, FiniteSetTheorems, TLAPS

-----------------------------------------------------------------------------
Defaults(table, u) == {id \in DOMAIN table : table[id].user_id = u /\ table[id].is_default}

(* A request that has cleared the defaults of its user and has not written  *)
(* the new one yet.                                                        *)
HasCleared(c) == MakesDefault(c) /\ c.pc # "clear"

(***************************************************************************)
(* OneDefault alone is not inductive: InsertDefault and UpdateSave write a *)
(* default without a look at the table.  What they rely on is that nobody  *)
(* has written one since they cleared: the requests for a default of a     *)
(* user who is not contended come one after another.                       *)
(***************************************************************************)
OneWriter ==
    \A g, h \in SearchHandlers :
        /\ MakesDefault(search_calls[g]) /\ MakesDefault(search_calls[h])
        /\ search_calls[g].user = search_calls[h].user
        /\ search_calls[g].user \notin contended
        => g = h

ClearedStays ==
    \A h \in SearchHandlers :
        HasCleared(search_calls[h]) /\ search_calls[h].user \notin contended
        => Defaults(searches, search_calls[h].user) = {}

AtMostOne ==
    \A u \in Users \ contended : \A i, j \in Defaults(searches, u) : i = j

(* The row a request works on is its user's: no id is given out twice. *)
OwnRows ==
    \A h \in SearchHandlers :
        LET c == search_calls[h] IN
        c.pc \in {"clear", "save", "destroy"} =>
            /\ c.id \in 1..last_search
            /\ c.id \in DOMAIN searches => searches[c.id].user_id = c.user

SearchInv == TypeOK /\ OwnRows /\ OneWriter /\ ClearedStays /\ AtMostOne

-----------------------------------------------------------------------------
(* What a request keeps between two awaits, by the step it is at. *)
UpdateCall == [pc : {"clear", "save"}, user : Users, id : SearchIds,
               is_default : {{TRUE}, {FALSE}, Undefined}, was : BOOLEAN]

LEMMA CallShape ==
  ASSUME NEW c \in Calls
  PROVE  /\ c.pc \in {"none", "insert", "clear", "save", "destroy"}
         /\ c # NoCall => c.user \in Users /\ c.pc # "none"
         /\ c.pc \in {"clear", "save"} => c \in UpdateCall
         /\ c.pc \in {"destroy", "clear", "save"} => c.id \in SearchIds
  <1>1. CASE c = NoCall
    BY <1>1 DEF NoCall
  <1>2. CASE c \in [pc : {"insert"}, user : Users]
    BY <1>2 DEF NoCall
  <1>3. CASE c \in UpdateCall
    BY <1>3 DEF NoCall, UpdateCall
  <1>4. CASE c \in [pc : {"destroy"}, user : Users, id : SearchIds]
    BY <1>4 DEF NoCall
  <1> QED
    BY <1>1, <1>2, <1>3, <1>4 DEF Calls, UpdateCall

LEMMA CallsKept ==
  ASSUME TypeOK, NEW h \in SearchHandlers, NEW c \in Calls,
         search_calls' = [search_calls EXCEPT ![h] = c]
  PROVE  search_calls' \in [SearchHandlers -> Calls]
  BY DEF TypeOK

(* What the statements leave of the table's type. *)
RowsOK == /\ searches \in [DOMAIN searches -> SearchRow]
          /\ DOMAIN searches \subseteq 1..last_search
          /\ last_search \in 0..MaxSearches

LEMMA RowsInserted ==
  ASSUME MaxSearches \in Nat, RowsOK, NEW row \in SearchRow, InsertSearch(row)
  PROVE  RowsOK'
  BY DEF RowsOK, InsertSearch

LEMMA RowsCleared ==
  ASSUME RowsOK, NEW u, searches' = Cleared(u), UNCHANGED last_search
  PROVE  RowsOK'
  BY DEF RowsOK, Cleared, SearchRow

-----------------------------------------------------------------------------
LEMMA TypeInit ==
  ASSUME MaxSearches \in Nat, Init
  PROVE  TypeOK
  BY DEF Init, TypeOK, Calls

LEMMA TypeStep ==
  ASSUME MaxSearches \in Nat, TypeOK, [Next]_searchVars
  PROVE  TypeOK'
  <1>0. RowsOK
    BY DEF TypeOK, RowsOK
  <1>a. NoCall \in Calls
    BY DEF Calls
  <1>1. CASE UNCHANGED searchVars
    BY <1>1 DEF TypeOK, searchVars
  <1>2. ASSUME NEW h \in SearchHandlers, NEW u \in Users, CreatePlain(h, u)
        PROVE  TypeOK'
    <2>1. RowsOK'
      BY <1>0, <1>2, RowsInserted DEF CreatePlain, SearchRow
    <2> QED
      BY <1>2, <2>1 DEF CreatePlain, TypeOK, RowsOK
  <1>3. ASSUME NEW h \in SearchHandlers, NEW u \in Users, CreateDefault(h, u)
        PROVE  TypeOK'
    <2>1. RowsOK'
      BY <1>0, <1>3, RowsCleared DEF CreateDefault
    <2> DEFINE c == [pc |-> "insert", user |-> u]
    <2>2. c \in Calls /\ c.user = u
      BY DEF Calls
    <2>3. Start(h, c)
      BY <1>3 DEF CreateDefault
    <2> HIDE DEF c
    <2> QED
      BY <2>1, <2>2, <2>3, CallsKept DEF Start, TypeOK, RowsOK
  <1>4. ASSUME NEW h \in SearchHandlers, NEW u \in Users, NEW id \in DOMAIN searches,
               NEW d \in {{TRUE}, {FALSE}, Undefined}, UpdateRead(h, u, id, d)
        PROVE  TypeOK'
    <2> DEFINE was == searches[id].is_default
               c == [pc |-> IF TRUE \in d /\ ~was THEN "clear" ELSE "save",
                     user |-> u, id |-> id, is_default |-> d, was |-> was]
    <2>1. was \in BOOLEAN /\ id \in SearchIds
      BY <1>0 DEF RowsOK, SearchRow, SearchIds
    <2>2. c \in UpdateCall /\ c.user = u
      <3> HIDE DEF was
      <3> QED
        BY <2>1 DEF UpdateCall
    <2>3. Start(h, c) /\ UNCHANGED <<searches, last_search>>
      BY <1>4 DEF UpdateRead
    <2> HIDE DEF c
    <2>4. c \in Calls
      BY <2>2 DEF Calls, UpdateCall
    <2> QED
      BY <2>2, <2>3, <2>4, CallsKept DEF Start, TypeOK
  <1>5. ASSUME NEW h \in SearchHandlers, NEW u \in Users, NEW id \in DOMAIN searches,
               DeleteRead(h, u, id)
        PROVE  TypeOK'
    <2> DEFINE c == [pc |-> "destroy", user |-> u, id |-> id]
    <2>1. id \in SearchIds
      BY <1>0 DEF RowsOK, SearchIds
    <2>2. c \in Calls /\ c.user = u
      BY <2>1 DEF Calls
    <2>3. Start(h, c) /\ UNCHANGED <<searches, last_search>>
      BY <1>5 DEF DeleteRead
    <2> HIDE DEF c
    <2> QED
      BY <2>2, <2>3, CallsKept DEF Start, TypeOK
  <1>6. ASSUME NEW h \in SearchHandlers, InsertDefault(h)
        PROVE  TypeOK'
    <2>1. search_calls[h] \in Calls /\ search_calls[h] # NoCall
      BY <1>6 DEF TypeOK, InsertDefault, At, NoCall
    <2>2. RowsOK'
      BY <1>0, <1>6, <2>1, CallShape, RowsInserted DEF InsertDefault, SearchRow
    <2> QED
      BY <1>6, <1>a, <2>2, CallsKept DEF InsertDefault, Become, TypeOK, RowsOK
  <1>7. ASSUME NEW h \in SearchHandlers, UpdateClear(h)
        PROVE  TypeOK'
    <2>1. RowsOK'
      BY <1>0, <1>7, RowsCleared DEF UpdateClear
    <2>2. search_calls[h] \in UpdateCall
      BY <1>7, CallShape DEF TypeOK, UpdateClear, At
    <2>3. [search_calls[h] EXCEPT !.pc = "save"] \in UpdateCall
      BY <2>2 DEF UpdateCall
    <2>4. [search_calls[h] EXCEPT !.pc = "save"] \in Calls
      BY <2>3 DEF Calls, UpdateCall
    <2> QED
      BY <1>7, <2>1, <2>4, CallsKept DEF UpdateClear, Become, TypeOK, RowsOK
  <1>8. ASSUME NEW h \in SearchHandlers, UpdateSave(h)
        PROVE  TypeOK'
    <2> DEFINE c == search_calls[h]
    <2>1. c \in UpdateCall
      BY <1>8, CallShape DEF TypeOK, UpdateSave, At
    <2>2. RowsOK'
      <3>1. c.was \in BOOLEAN
        BY <2>1 DEF UpdateCall
      <3> HIDE DEF c
      <3> QED
        BY <1>0, <1>8, <3>1 DEF UpdateSave, RowsOK, SearchRow, c
    <2> QED
      BY <1>8, <1>a, <2>2, CallsKept DEF UpdateSave, Become, TypeOK, RowsOK
  <1>9. ASSUME NEW h \in SearchHandlers, Destroy(h)
        PROVE  TypeOK'
    <2>1. RowsOK'
      BY <1>0, <1>9 DEF Destroy, RowsOK
    <2> QED
      BY <1>9, <1>a, <2>1, CallsKept DEF Destroy, Become, TypeOK, RowsOK
  <1>10. ASSUME NEW h \in SearchHandlers, Fail(h)
        PROVE  TypeOK'
    BY <1>10, <1>a, CallsKept DEF Fail, Become, TypeOK
  <1> QED
    BY <1>1, <1>2, <1>3, <1>4, <1>5, <1>6, <1>7, <1>8, <1>9, <1>10 DEF Next

-----------------------------------------------------------------------------
(* No step changes the user of a row, or gives an old id to a new row. *)
RowsFollow ==
    /\ last_search' \in {last_search, last_search + 1}
    /\ \A id \in DOMAIN searches' :
          \/ id \in DOMAIN searches /\ searches'[id].user_id = searches[id].user_id
          \/ id = last_search' /\ last_search' = last_search + 1

LEMMA RowsStep ==
  ASSUME TypeOK, [Next]_searchVars
  PROVE  RowsFollow
  <1> USE DEF RowsFollow
  <1>1. CASE UNCHANGED <<searches, last_search>>
    BY <1>1
  <1>2. ASSUME NEW row, InsertSearch(row)
        PROVE  RowsFollow
    BY <1>2 DEF InsertSearch
  <1>3. ASSUME NEW u, searches' = Cleared(u), UNCHANGED last_search
        PROVE  RowsFollow
    BY <1>3 DEF Cleared, TypeOK, SearchRow
  <1>4. ASSUME NEW h \in SearchHandlers, UpdateSave(h)
        PROVE  RowsFollow
    BY <1>4 DEF UpdateSave, TypeOK, SearchRow
  <1>5. ASSUME NEW h \in SearchHandlers, Destroy(h)
        PROVE  RowsFollow
    BY <1>5 DEF Destroy
  <1> QED
    BY <1>1, <1>2, <1>3, <1>4, <1>5
    DEF Next, searchVars, CreatePlain, CreateDefault, UpdateRead, DeleteRead,
        InsertDefault, UpdateClear, Fail

(* A request takes up a row of its user, or keeps the one it has. *)
CallFollows(g) ==
    LET old == search_calls[g]
        new == search_calls'[g]
    IN  \/ new.pc \in {"none", "insert"}
        \/ /\ old.pc \in {"clear", "save", "destroy"}
           /\ new.id = old.id /\ new.user = old.user
        \/ /\ UNCHANGED <<searches, last_search>>
           /\ Own(new.user, new.id)

LEMMA CallKept ==
  ASSUME TypeOK, NEW g \in SearchHandlers, search_calls'[g] = search_calls[g]
  PROVE  CallFollows(g)
  <1>1. search_calls[g] \in Calls
    BY DEF TypeOK
  <1>2. search_calls[g].pc \in {"none", "insert", "clear", "save", "destroy"}
    BY <1>1, CallShape
  <1> QED
    BY <1>2 DEF CallFollows

LEMMA CallStep ==
  ASSUME TypeOK, [Next]_searchVars, NEW g \in SearchHandlers
  PROVE  CallFollows(g)
  <1>1. CASE search_calls' = search_calls
    BY <1>1, CallKept
  <1>2. ASSUME NEW h \in SearchHandlers, NEW c,
               search_calls' = [search_calls EXCEPT ![h] = c],
               h = g => CallFollows(g)
        PROVE  CallFollows(g)
    BY <1>2, CallKept DEF TypeOK
  <1>3. ASSUME NEW h \in SearchHandlers, Become(h, NoCall)
        PROVE  CallFollows(g)
    <2>1. h = g => search_calls'[g].pc = "none"
      BY <1>3 DEF Become, NoCall, TypeOK
    <2> QED
      BY <1>2, <1>3, <2>1 DEF Become, CallFollows
  <1>4. ASSUME NEW h \in SearchHandlers, NEW u \in Users, CreateDefault(h, u)
        PROVE  CallFollows(g)
    <2>1. h = g => search_calls'[g].pc = "insert"
      BY <1>4 DEF CreateDefault, Start, TypeOK
    <2> QED
      BY <1>2, <1>4, <2>1 DEF CreateDefault, Start, CallFollows
  <1>5. ASSUME NEW h \in SearchHandlers, NEW u \in Users, NEW id \in DOMAIN searches,
               NEW d \in {{TRUE}, {FALSE}, Undefined}, UpdateRead(h, u, id, d)
        PROVE  CallFollows(g)
    <2> DEFINE was == searches[id].is_default
               c == [pc |-> IF TRUE \in d /\ ~was THEN "clear" ELSE "save",
                     user |-> u, id |-> id, is_default |-> d, was |-> was]
    <2>1. /\ Start(h, c) /\ UNCHANGED <<searches, last_search>>
          /\ Own(u, id) /\ c.user = u /\ c.id = id
      BY <1>5 DEF UpdateRead
    <2> HIDE DEF c
    <2> QED
      BY <1>2, <2>1 DEF Start, CallFollows, TypeOK
  <1>6. ASSUME NEW h \in SearchHandlers, NEW u \in Users, NEW id \in DOMAIN searches,
               DeleteRead(h, u, id)
        PROVE  CallFollows(g)
    <2> DEFINE c == [pc |-> "destroy", user |-> u, id |-> id]
    <2>1. /\ Start(h, c) /\ UNCHANGED <<searches, last_search>>
          /\ Own(u, id) /\ c.user = u /\ c.id = id
      BY <1>6 DEF DeleteRead
    <2> HIDE DEF c
    <2> QED
      BY <1>2, <2>1 DEF Start, CallFollows, TypeOK
  <1>7. ASSUME NEW h \in SearchHandlers, UpdateClear(h)
        PROVE  CallFollows(g)
    <2> DEFINE c == search_calls[h]
               new == [c EXCEPT !.pc = "save"]
    <2>1. c.pc = "clear" /\ Become(h, new)
      BY <1>7 DEF UpdateClear, At
    <2>2. c \in UpdateCall
      BY <2>1, CallShape DEF TypeOK
    <2>3. new.user = c.user /\ new.id = c.id
      BY <2>2 DEF UpdateCall
    <2> HIDE DEF new
    <2> QED
      BY <1>2, <2>1, <2>3 DEF Become, CallFollows, TypeOK
  <1> QED
    BY <1>1, <1>3, <1>4, <1>5, <1>6, <1>7
    DEF Next, searchVars, CreatePlain, InsertDefault, UpdateSave, Destroy, Fail

LEMMA OwnRowsStep ==
  ASSUME TypeOK, OwnRows, [Next]_searchVars
  PROVE  OwnRows'
  <1>1. RowsFollow
    BY RowsStep
  <1>2. \A g \in SearchHandlers : CallFollows(g)
    BY CallStep
  <1> QED
    BY <1>1, <1>2 DEF OwnRows, TypeOK, Own, RowsFollow, CallFollows

LEMMA WritersAfterStart ==
  ASSUME TypeOK, OneWriter, NEW h \in SearchHandlers, NEW c, Start(h, c)
  PROVE  OneWriter'
  BY DEF TypeOK, OneWriter, Start, Rivals

LEMMA WritersAfterBecome ==
  ASSUME TypeOK, OneWriter, NEW h \in SearchHandlers, NEW c, Become(h, c),
         MakesDefault(c) => /\ MakesDefault(search_calls[h])
                            /\ c.user = search_calls[h].user
  PROVE  OneWriter'
  BY DEF TypeOK, OneWriter, Become

(* A step after which no user has a new default. *)
LEMMA NoNewDefault ==
  ASSUME ClearedStays, AtMostOne, contended \subseteq contended',
         \A u : Defaults(searches', u) \subseteq Defaults(searches, u),
         \A g \in SearchHandlers :
            HasCleared(search_calls'[g]) =>
               \/ search_calls'[g] = search_calls[g]
               \/ Defaults(searches', search_calls'[g].user) = {}
  PROVE  ClearedStays' /\ AtMostOne'
  <1> USE DEF ClearedStays, AtMostOne
  <1>1. ASSUME NEW g \in SearchHandlers, HasCleared(search_calls'[g]),
               search_calls'[g].user \notin contended'
        PROVE  Defaults(searches', search_calls'[g].user) = {}
    BY <1>1
  <1>2. ASSUME NEW u \in Users \ contended', NEW i \in Defaults(searches', u), NEW j \in Defaults(searches', u)
        PROVE  i = j
    BY <1>2
  <1> QED
    BY <1>1, <1>2 DEF HasCleared, MakesDefault

(* A step that gives the user of the request in h one default, when it has  *)
(* cleared the others.                                                     *)
LEMMA OneNewDefault ==
  ASSUME TypeOK, SearchInv, NEW h \in SearchHandlers, NEW id,
         HasCleared(search_calls[h]), Become(h, NoCall),
         \A u : Defaults(searches', u) \subseteq
            IF u = search_calls[h].user THEN Defaults(searches, u) \cup {id} ELSE Defaults(searches, u)
  PROVE  ClearedStays' /\ AtMostOne'
  <1> USE DEF SearchInv
  <1> DEFINE w == search_calls[h].user
  <1>0. ~MakesDefault(NoCall)
    BY DEF MakesDefault, NoCall
  <1>1. /\ contended' = contended
        /\ \A g \in SearchHandlers : search_calls'[g] = IF g = h THEN NoCall ELSE search_calls[g]
    BY DEF Become, TypeOK
  <1>2. w \notin contended => Defaults(searches, w) = {}
    BY DEF ClearedStays
  <1>3. AtMostOne'
    BY <1>1, <1>2 DEF AtMostOne
  <1>4. ASSUME NEW g \in SearchHandlers, HasCleared(search_calls'[g]),
               search_calls'[g].user \notin contended'
        PROVE  Defaults(searches', search_calls'[g].user) = {}
    <2>1. g # h /\ search_calls'[g] = search_calls[g]
      BY <1>0, <1>1, <1>4 DEF HasCleared
    <2>2. search_calls[g].user # w
      BY <1>1, <1>4, <2>1 DEF OneWriter, HasCleared
    <2>3. Defaults(searches, search_calls[g].user) = {}
      BY <1>1, <1>4, <2>1 DEF ClearedStays
    <2> QED
      BY <2>1, <2>2, <2>3
  <1> QED
    BY <1>3, <1>4 DEF ClearedStays, HasCleared, MakesDefault

LEMMA DefaultsKept ==
  ASSUME UNCHANGED searches
  PROVE  \A u : Defaults(searches', u) = Defaults(searches, u)
  BY DEF Defaults

LEMMA DefaultsCleared ==
  ASSUME NEW w, TypeOK, searches' = Cleared(w)
  PROVE  /\ \A u : Defaults(searches', u) \subseteq Defaults(searches, u)
         /\ Defaults(searches', w) = {}
  BY DEF Defaults, Cleared, TypeOK, SearchRow

LEMMA DefaultsInserted ==
  ASSUME TypeOK, NEW row \in SearchRow, InsertSearch(row)
  PROVE  \A u : Defaults(searches', u) \subseteq
            IF row.is_default /\ u = row.user_id THEN Defaults(searches, u) \cup {last_search'}
                                                 ELSE Defaults(searches, u)
  BY DEF Defaults, InsertSearch

-----------------------------------------------------------------------------
LEMMA SearchInit ==
  ASSUME MaxSearches \in Nat, Init
  PROVE  SearchInv
  <1>1. TypeOK
    BY TypeInit
  <1>2. \A h \in SearchHandlers : ~MakesDefault(search_calls[h])
    BY DEF Init, MakesDefault, NoCall
  <1>3. \A u : Defaults(searches, u) = {}
    BY DEF Init, Defaults
  <1>4. OwnRows
    BY DEF Init, OwnRows, NoCall
  <1> QED
    BY <1>1, <1>2, <1>3, <1>4 DEF SearchInv, OneWriter, ClearedStays, AtMostOne, HasCleared

LEMMA SearchStep ==
  ASSUME MaxSearches \in Nat, SearchInv, [Next]_searchVars
  PROVE  SearchInv'
  <1> USE DEF SearchInv
  <1>t. TypeOK'
    BY TypeStep
  <1>o. OwnRows'
    BY OwnRowsStep
  <1>n. ~MakesDefault(NoCall)
    BY DEF MakesDefault, NoCall
  <1>1. CASE UNCHANGED searchVars
    BY <1>1, <1>o, <1>t DEF searchVars, OneWriter, ClearedStays, AtMostOne, Defaults
  <1>2. ASSUME NEW h \in SearchHandlers, NEW u \in Users, CreatePlain(h, u)
        PROVE  SearchInv'
    <2> DEFINE row == [user_id |-> u, is_default |-> FALSE]
    <2>1. row \in SearchRow /\ ~row.is_default /\ InsertSearch(row)
      BY <1>2 DEF SearchRow, CreatePlain
    <2> HIDE DEF row
    <2>2. \A v : Defaults(searches', v) \subseteq Defaults(searches, v)
      BY <2>1, DefaultsInserted
    <2>3. UNCHANGED <<search_calls, contended>>
      BY <1>2 DEF CreatePlain
    <2>4. OneWriter'
      BY <2>3 DEF OneWriter
    <2> QED
      BY <1>o, <1>t, <2>2, <2>3, <2>4, NoNewDefault
  <1>3. ASSUME NEW h \in SearchHandlers, NEW u \in Users, CreateDefault(h, u)
        PROVE  SearchInv'
    <2> DEFINE c == [pc |-> "insert", user |-> u]
    <2>1. Start(h, c) /\ c.user = u /\ searches' = Cleared(u)
      BY <1>3 DEF CreateDefault
    <2> HIDE DEF c
    <2>2. OneWriter'
      BY <2>1, WritersAfterStart
    <2>3. \A g \in SearchHandlers : search_calls'[g] = IF g = h THEN c ELSE search_calls[g]
      BY <2>1 DEF Start, TypeOK
    <2>4. contended \subseteq contended'
      BY <2>1 DEF Start
    <2> QED
      BY <1>o, <1>t, <2>1, <2>2, <2>3, <2>4, DefaultsCleared, NoNewDefault
  <1>4. ASSUME NEW h \in SearchHandlers, NEW u \in Users, NEW id \in DOMAIN searches,
               NEW d \in {{TRUE}, {FALSE}, Undefined}, UpdateRead(h, u, id, d)
        PROVE  SearchInv'
    <2> DEFINE was == searches[id].is_default
               c == [pc |-> IF TRUE \in d /\ ~was THEN "clear" ELSE "save",
                     user |-> u, id |-> id, is_default |-> d, was |-> was]
    <2>1. Start(h, c) /\ UNCHANGED searches
      BY <1>4 DEF UpdateRead
    <2>2. ~HasCleared(c)
      BY DEF HasCleared, MakesDefault
    <2> HIDE DEF c
    <2>3. \A g \in SearchHandlers : search_calls'[g] = IF g = h THEN c ELSE search_calls[g]
      BY <2>1 DEF Start, TypeOK
    <2>4. contended \subseteq contended'
      BY <2>1 DEF Start
    <2> QED
      BY <1>o, <1>t, <2>1, <2>2, <2>3, <2>4, WritersAfterStart, DefaultsKept, NoNewDefault
  <1>5. ASSUME NEW h \in SearchHandlers, NEW u \in Users, NEW id \in DOMAIN searches,
               DeleteRead(h, u, id)
        PROVE  SearchInv'
    <2> DEFINE c == [pc |-> "destroy", user |-> u, id |-> id]
    <2>1. Start(h, c) /\ UNCHANGED searches
      BY <1>5 DEF DeleteRead
    <2>2. ~HasCleared(c)
      BY DEF HasCleared, MakesDefault
    <2> HIDE DEF c
    <2>3. \A g \in SearchHandlers : search_calls'[g] = IF g = h THEN c ELSE search_calls[g]
      BY <2>1 DEF Start, TypeOK
    <2>4. contended \subseteq contended'
      BY <2>1 DEF Start
    <2> QED
      BY <1>o, <1>t, <2>1, <2>2, <2>3, <2>4, WritersAfterStart, DefaultsKept, NoNewDefault
  <1>6. ASSUME NEW h \in SearchHandlers, InsertDefault(h)
        PROVE  SearchInv'
    <2> DEFINE row == [user_id |-> search_calls[h].user, is_default |-> TRUE]
    <2>1. InsertSearch(row) /\ Become(h, NoCall) /\ HasCleared(search_calls[h])
      BY <1>6 DEF InsertDefault, At, HasCleared, MakesDefault
    <2>2. search_calls[h] \in Calls /\ search_calls[h] # NoCall
      BY <1>6 DEF TypeOK, InsertDefault, At, NoCall
    <2>3. row \in SearchRow /\ row.user_id = search_calls[h].user
      BY <2>2, CallShape DEF SearchRow
    <2> HIDE DEF row
    <2>4. \A u : Defaults(searches', u) \subseteq
            IF u = search_calls[h].user THEN Defaults(searches, u) \cup {last_search'} ELSE Defaults(searches, u)
      BY <2>1, <2>3, DefaultsInserted
    <2>5. OneWriter'
      BY <1>n, <2>1, WritersAfterBecome
    <2> QED
      BY <1>o, <1>t, <2>1, <2>4, <2>5, OneNewDefault
  <1>7. ASSUME NEW h \in SearchHandlers, UpdateClear(h)
        PROVE  SearchInv'
    <2> DEFINE c == search_calls[h]
               new == [c EXCEPT !.pc = "save"]
    <2>1. c.pc = "clear" /\ searches' = Cleared(c.user) /\ Become(h, new)
      BY <1>7 DEF UpdateClear, At
    <2>2. c \in UpdateCall
      BY <2>1, CallShape DEF TypeOK
    <2>3. /\ new.pc = "save" /\ new.user = c.user
          /\ new.is_default = c.is_default /\ new.was = c.was
      BY <2>2 DEF UpdateCall
    <2> HIDE DEF new
    <2>4. OneWriter'
      BY <2>1, <2>3, WritersAfterBecome DEF MakesDefault
    <2>5. \A g \in SearchHandlers : search_calls'[g] = IF g = h THEN new ELSE search_calls[g]
      BY <2>1 DEF Become, TypeOK
    <2>6. contended' = contended
      BY <2>1 DEF Become
    <2> QED
      BY <1>o, <1>t, <2>1, <2>3, <2>4, <2>5, <2>6, DefaultsCleared, NoNewDefault
  <1>8. ASSUME NEW h \in SearchHandlers, UpdateSave(h)
        PROVE  SearchInv'
    <2> DEFINE c == search_calls[h]
    <2>1. c.pc = "save" /\ Become(h, NoCall)
      BY <1>8 DEF UpdateSave, At
    <2>2. c \in UpdateCall
      BY <2>1, CallShape DEF TypeOK
    <2>3. OneWriter'
      BY <1>n, <2>1, WritersAfterBecome
    <2>4. \A g \in SearchHandlers : search_calls'[g] = IF g = h THEN NoCall ELSE search_calls[g]
      BY <2>1 DEF Become, TypeOK
    <2>5. contended' = contended
      BY <2>1 DEF Become
    <2>6. CASE ~c.was /\ TRUE \in c.is_default
      <3>1. HasCleared(c)
        BY <2>1, <2>6 DEF HasCleared, MakesDefault
      <3>2. searches' = IF c.id \in DOMAIN searches
                          THEN [searches EXCEPT ![c.id].is_default = TRUE] ELSE searches
        BY <1>8, <2>6 DEF UpdateSave
      <3>3. c.id \in DOMAIN searches => searches[c.id].user_id = c.user
        BY <2>1 DEF OwnRows
      <3>4. \A u : Defaults(searches', u) \subseteq
              IF u = c.user THEN Defaults(searches, u) \cup {c.id} ELSE Defaults(searches, u)
        BY <3>2, <3>3 DEF Defaults, TypeOK, SearchRow
      <3> HIDE DEF c
      <3> QED
        BY <1>o, <1>t, <2>1, <2>3, <3>1, <3>4, OneNewDefault DEF c
    <2>7. CASE c.was \/ TRUE \notin c.is_default
      <3>1. \A u : Defaults(searches', u) \subseteq Defaults(searches, u)
        <4>1. c.was \in BOOLEAN
          BY <2>2 DEF UpdateCall
        <4>2. \/ UNCHANGED searches
              \/ searches' = [searches EXCEPT ![c.id].is_default = FALSE]
          BY <1>8, <2>7, <4>1 DEF UpdateSave
        <4> QED
          BY <4>2 DEF Defaults, TypeOK, SearchRow
      <3> QED
        BY <1>o, <1>t, <1>n, <2>3, <2>4, <2>5, <3>1, NoNewDefault DEF HasCleared
    <2> QED
      BY <2>6, <2>7
  <1>9. ASSUME NEW h \in SearchHandlers, Destroy(h) \/ Fail(h)
        PROVE  SearchInv'
    <2>1. Become(h, NoCall)
      BY <1>9 DEF Destroy, Fail
    <2>2. OneWriter'
      BY <1>n, <2>1, WritersAfterBecome
    <2>3. \A g \in SearchHandlers : search_calls'[g] = IF g = h THEN NoCall ELSE search_calls[g]
      BY <2>1 DEF Become, TypeOK
    <2>4. contended' = contended
      BY <2>1 DEF Become
    <2>5. \A u : Defaults(searches', u) \subseteq Defaults(searches, u)
      BY <1>9 DEF Destroy, Fail, Defaults
    <2> QED
      BY <1>o, <1>t, <1>n, <2>2, <2>3, <2>4, <2>5, NoNewDefault DEF HasCleared
  <1> QED
    BY <1>1, <1>2, <1>3, <1>4, <1>5, <1>6, <1>7, <1>8, <1>9 DEF Next

(* No user has two defaults: a set of which any two members are equal has   *)
(* at most one.                                                            *)
LEMMA InvOneDefault ==
  ASSUME SearchInv
  PROVE  OneDefault
  <1> SUFFICES ASSUME NEW u \in Users \ contended
               PROVE  Cardinality(Defaults(searches, u)) <= 1
    BY DEF OneDefault, Defaults
  <1>1. \A i, j \in Defaults(searches, u) : i = j
    BY DEF SearchInv, AtMostOne
  <1>2. CASE Defaults(searches, u) = {}
    BY <1>2, FS_EmptySet
  <1>3. ASSUME NEW i \in Defaults(searches, u)
        PROVE  Cardinality(Defaults(searches, u)) <= 1
    <2>1. Defaults(searches, u) = {i}
      BY <1>1
    <2> QED
      BY <2>1, FS_Singleton
  <1> QED
    BY <1>2, <1>3

(* A user has at most one default search, unless two requests of that user  *)
(* that write a default have overlapped.                                   *)
THEOREM OneDefaultHolds ==
  ASSUME MaxSearches \in Nat
  PROVE  Spec => []OneDefault
  <1>1. Init => SearchInv
    BY SearchInit
  <1>2. SearchInv /\ [Next]_searchVars => SearchInv'
    BY SearchStep
  <1>3. SearchInv => OneDefault
    BY InvOneDefault
  <1> QED
    BY <1>1, <1>2, <1>3, PTL DEF Spec

-----------------------------------------------------------------------------
LEMMA ClearsOwn ==
  ASSUME TypeOK, NEW u, searches' = Cleared(u), NEW id \in DOMAIN searches,
         searches[id].user_id # u
  PROVE  id \in DOMAIN searches' /\ searches'[id] = searches[id]
  <1>1. searches[id] \in SearchRow
    BY DEF TypeOK
  <1>2. searches[id].is_default \in BOOLEAN
    BY <1>1 DEF SearchRow
  <1>3. searches'[id] = [searches[id] EXCEPT !.is_default = searches[id].is_default]
    BY <1>2 DEF Cleared
  <1> QED
    BY <1>1, <1>3 DEF Cleared, SearchRow

LEMMA TouchesOwnStep ==
  ASSUME SearchInv, [Next]_searchVars
  PROVE  TouchesOwnSearches
  <1> USE DEF SearchInv
  <1> SUFFICES ASSUME NEW id \in DOMAIN searches,
                      ~(id \in DOMAIN searches' /\ searches'[id] = searches[id])
               PROVE  \E h \in SearchHandlers :
                         \E c \in {search_calls[h], search_calls'[h]} :
                            c # NoCall /\ c.user = searches[id].user_id
    BY DEF TouchesOwnSearches
  <1>1. ASSUME NEW row, InsertSearch(row)
        PROVE  FALSE
    BY <1>1 DEF InsertSearch, TypeOK
  <1>2. ASSUME NEW h \in SearchHandlers, NEW u \in Users, CreateDefault(h, u)
        PROVE  search_calls'[h] # NoCall /\ search_calls'[h].user = searches[id].user_id
    <2>1. searches[id].user_id = u
      BY <1>2, ClearsOwn DEF CreateDefault
    <2>2. search_calls'[h] = [pc |-> "insert", user |-> u]
      BY <1>2 DEF CreateDefault, Start, TypeOK
    <2> QED
      BY <2>1, <2>2 DEF NoCall
  <1>3. ASSUME NEW h \in SearchHandlers, UpdateClear(h)
        PROVE  search_calls[h] # NoCall /\ search_calls[h].user = searches[id].user_id
    BY <1>3, ClearsOwn DEF UpdateClear, At, NoCall
  <1>4. ASSUME NEW h \in SearchHandlers, UpdateSave(h)
        PROVE  search_calls[h] # NoCall /\ search_calls[h].user = searches[id].user_id
    <2>1. id = search_calls[h].id
      BY <1>4 DEF UpdateSave
    <2> QED
      BY <1>4, <2>1 DEF UpdateSave, At, NoCall, OwnRows
  <1>5. ASSUME NEW h \in SearchHandlers, Destroy(h)
        PROVE  search_calls[h] # NoCall /\ search_calls[h].user = searches[id].user_id
    <2>1. id = search_calls[h].id
      BY <1>5 DEF Destroy
    <2> QED
      BY <1>5, <2>1 DEF Destroy, At, NoCall, OwnRows
  <1>6. CASE UNCHANGED searches
    BY <1>6
  <1> QED
    BY <1>1, <1>2, <1>3, <1>4, <1>5, <1>6
    DEF Next, searchVars, CreatePlain, UpdateRead, DeleteRead, InsertDefault, Fail

(* A request changes searches of the user who sent it only, also in the     *)
(* statement that clears by condition and not by id.                       *)
THEOREM OwnSearchesHold ==
  ASSUME MaxSearches \in Nat
  PROVE  Spec => OwnSearchesOnly
  <1>1. Init => SearchInv
    BY SearchInit
  <1>2. SearchInv /\ [Next]_searchVars => SearchInv'
    BY SearchStep
  <1>3. SearchInv /\ [Next]_searchVars => [TouchesOwnSearches]_searchVars
    BY TouchesOwnStep
  <1> QED
    BY <1>1, <1>2, <1>3, PTL DEF Spec, OwnSearchesOnly
=============================================================================
