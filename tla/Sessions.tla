------------------------------- MODULE Sessions -------------------------------
(***************************************************************************)
(* Login, logout and sessions (ttsmagic-server/src/web/steam.rs,           *)
(* web/session.rs, user.rs), as one browser with several tabs sees them.   *)
(* A login asks Steam for the name of the account, stores the user, draws  *)
(* a session, saves it in Redis for RedisDays and answers with a cookie    *)
(* the browser keeps for CookieDays.  Every other request carries the      *)
(* cookie the browser had when it was sent; the middleware looks the       *)
(* session up in Redis and the user in the database, and serves a request  *)
(* for which it finds none, or fails to, as nobody's.  Logging out answers with an empty *)
(* cookie and leaves Redis alone.  Answers may come in any order, requests *)
(* may fail between two steps, and days pass.                              *)
(***************************************************************************)
EXTENDS Naturals

CONSTANTS
  Tabs,
  Users, Names,
  SessionIds,   \* Uuid::new_v4 draws a new one each time
  Null,
  RedisDays,    \* SESSION_EXPIRE_SECONDS: 3 days
  CookieDays,   \* max_age: 7 days
  MaxDay        \* bound

ASSUME NullAssumption == Null \notin Users \cup Names \cup SessionIds
ASSUME DaysAssumption == RedisDays \in Nat /\ CookieDays \in Nat /\ MaxDay \in Nat

VARIABLES
  day,
  steam,        \* the name of each account at Steam
  row,          \* its name in ttsmagic_user, or Null
  redis,        \* the user of each saved session, or Null
  since,        \* the day it was saved
  jar,          \* the session of the browser's cookie, or Null
  jarSince,     \* the day it was set
  pc,           \* where the request of each tab stands
  user, name, session,  \* what it has found so far
  drawn         \* the sessions that were drawn

world == <<day, steam>>
cookie == <<jar, jarSince>>
store == <<row, redis, since>>
request == <<pc, user, name, session>>
vars == <<world, cookie, store, request, drawn>>

Steps == {"idle", "name", "lookup", "upsert", "draw", "save", "login",
          "logout", "cache", "user", "page", "error"}

TypeOK ==
  /\ day \in 0 .. MaxDay
  /\ steam \in [Users -> Names]
  /\ row \in [Users -> Names \cup {Null}]
  /\ redis \in [SessionIds -> Users \cup {Null}]
  /\ since \in [SessionIds -> 0 .. day]
  /\ jar \in SessionIds \cup {Null} /\ jarSince \in 0 .. day
  /\ pc \in [Tabs -> Steps]
  /\ user \in [Tabs -> Users \cup {Null}]
  /\ name \in [Tabs -> Names \cup {Null}]
  /\ session \in [Tabs -> SessionIds \cup {Null}]
  /\ drawn \in SUBSET SessionIds

Init ==
  /\ day = 0
  /\ steam \in [Users -> Names]
  /\ row = [u \in Users |-> Null]
  /\ redis = [s \in SessionIds |-> Null]
  /\ since = [s \in SessionIds |-> 0]
  /\ jar = Null /\ jarSince = 0
  /\ pc = [t \in Tabs |-> "idle"]
  /\ user = [t \in Tabs |-> Null]
  /\ name = [t \in Tabs |-> Null]
  /\ session = [t \in Tabs |-> Null]
  /\ drawn = {}

Go(t, from, to) == /\ pc[t] = from
                   /\ pc' = [pc EXCEPT ![t] = to]

\* What the browser sends: a cookie it still keeps.
Cookie == IF day - jarSince < CookieDays THEN jar ELSE Null
\* What Redis finds: a session it still keeps.
Cached(s) == IF s # Null /\ redis[s] # Null /\ day - since[s] < RedisDays THEN redis[s]
             ELSE Null
-----------------------------------------------------------------------------
(* steam::handle_redirect, User::steam_login *)

Login(t, u) ==
  /\ Go(t, "idle", "name")
  /\ user' = [user EXCEPT ![t] = u]
  /\ UNCHANGED <<world, cookie, store, name, session, drawn>>

GetName(t) ==
  /\ Go(t, "name", "lookup")
  /\ name' = [name EXCEPT ![t] = steam[user[t]]]
  /\ UNCHANGED <<world, cookie, store, user, session, drawn>>

\* get_or_create_user
Lookup(t) ==
  /\ Go(t, "lookup", IF row[user[t]] = name[t] THEN "draw" ELSE "upsert")
  /\ UNCHANGED <<world, cookie, store, user, name, session, drawn>>

Upsert(t) ==
  /\ Go(t, "upsert", "draw")
  /\ row' = [row EXCEPT ![user[t]] = name[t]]
  /\ UNCHANGED <<world, cookie, redis, since, user, name, session, drawn>>

\* Session::new, an error when the user has no row
Draw(t) ==
  /\ Go(t, "draw", "save")
  /\ row[user[t]] # Null
  /\ \E s \in SessionIds \ drawn : /\ session' = [session EXCEPT ![t] = s]
                                   /\ drawn' = drawn \cup {s}
  /\ UNCHANGED <<world, cookie, store, user, name>>

\* Mutant: a session without a user is not saved, and a login counts as one.
SaveNothing(t) ==
  /\ Go(t, "save", "login")
  /\ UNCHANGED <<world, cookie, store, user, name, session, drawn>>

\* set_session saves first, and makes the cookie then.
Save(t) ==
  /\ Go(t, "save", "login")
  /\ redis' = [redis EXCEPT ![session[t]] = user[t]]
  /\ since' = [since EXCEPT ![session[t]] = day]
  /\ UNCHANGED <<world, cookie, row, user, name, session, drawn>>

\* The request is over, and the tab forgets it.
Over(t) == /\ pc' = [pc EXCEPT ![t] = "idle"]
           /\ user' = [user EXCEPT ![t] = Null]
           /\ name' = [name EXCEPT ![t] = Null]
           /\ session' = [session EXCEPT ![t] = Null]

LoginAnswer(t) ==
  /\ pc[t] = "login" /\ Over(t)
  /\ jar' = session[t] /\ jarSince' = day
  /\ UNCHANGED <<world, store, drawn>>
-----------------------------------------------------------------------------
(* steam::logout *)

Logout(t) ==
  /\ Go(t, "idle", "logout")
  /\ UNCHANGED <<world, cookie, store, user, name, session, drawn>>

LogoutAnswer(t) ==
  /\ pc[t] = "logout" /\ Over(t)
  /\ jar' = Null /\ jarSince' = day
  /\ UNCHANGED <<world, store, drawn>>
-----------------------------------------------------------------------------
(* SessionMiddleware, and the login of a websocket *)

Send(t) ==
  /\ Go(t, "idle", "cache")
  /\ session' = [session EXCEPT ![t] = Cookie]
  /\ UNCHANGED <<world, cookie, store, user, name, drawn>>

\* Mutant: looks the session of the browser's present cookie up.
ReadCacheLate(t) ==
  /\ Go(t, "cache", IF Cached(jar) = Null THEN "page" ELSE "user")
  /\ user' = [user EXCEPT ![t] = Cached(jar)]
  /\ UNCHANGED <<world, cookie, store, name, session, drawn>>

\* load_from_cache
ReadCache(t) ==
  /\ Go(t, "cache", IF Cached(session[t]) = Null THEN "page" ELSE "user")
  /\ user' = [user EXCEPT ![t] = Cached(session[t])]
  /\ UNCHANGED <<world, cookie, store, name, session, drawn>>

\* from_user_id
ReadUser(t) ==
  /\ Go(t, "user", "page")
  /\ row[user[t]] # Null
  /\ name' = [name EXCEPT ![t] = row[user[t]]]
  /\ UNCHANGED <<world, cookie, store, user, session, drawn>>

\* The middleware logs an error of Redis, of the database or of from_user_id, and
\* serves the request as nobody's.
FindNobody(t) ==
  /\ Go(t, "cache", "error") \/ Go(t, "user", "error")
  /\ user' = [user EXCEPT ![t] = Null]
  /\ UNCHANGED <<world, cookie, store, name, session, drawn>>

\* The page is shown; it sets no cookie.
PageAnswer(t) ==
  /\ pc[t] \in {"page", "error"} /\ Over(t)
  /\ UNCHANGED <<world, cookie, store, drawn>>
-----------------------------------------------------------------------------
\* Steam, Redis, the database or the connection fails: no cookie is set.
Fail(t) ==
  /\ pc[t] # "idle" /\ Over(t)
  /\ UNCHANGED <<world, cookie, store, drawn>>

NextDay == /\ day < MaxDay /\ day' = day + 1
           /\ UNCHANGED <<steam, cookie, store, request, drawn>>

Rename(u) == /\ \E n \in Names \ {steam[u]} : steam' = [steam EXCEPT ![u] = n]
             /\ UNCHANGED <<day, cookie, store, request, drawn>>

Next == \/ \E t \in Tabs : \/ \E u \in Users : Login(t, u)
                           \/ GetName(t) \/ Lookup(t) \/ Upsert(t) \/ Draw(t) \/ Save(t)
                           \/ LoginAnswer(t) \/ Logout(t) \/ LogoutAnswer(t)
                           \/ Send(t) \/ ReadCache(t) \/ ReadUser(t) \/ FindNobody(t)
                           \/ PageAnswer(t) \/ Fail(t)
        \/ NextDay
        \/ \E u \in Users : Rename(u)

Spec == Init /\ [][Next]_vars
-----------------------------------------------------------------------------
\* As long as Redis and the database answer, a page is nobody's only when the browser
\* sent no cookie, or one whose session is past its days in Redis: until then every
\* cookie that a login has set is recognised, whatever other tabs log in or out
\* meanwhile (set_session, load_from_cache).
CookiesWork == \A t \in Tabs :
  pc[t] = "page" /\ user[t] = Null /\ session[t] # Null
    => day - since[session[t]] >= RedisDays

\* Nobody has a session, or is about to get one, without being in the database: the
\* error of from_user_id is never met.
SessionsHaveUsers ==
  /\ \A s \in SessionIds : redis[s] # Null => row[redis[s]] # Null
  /\ \A t \in Tabs : pc[t] = "draw" => row[user[t]] # Null

\* A session is one user's for ever, so that an answer that comes late shows what the
\* cookie it was sent with stands for, and not what the browser has by now.
OneUserEach ==
  /\ [][\A s \in SessionIds : redis[s] # Null => redis'[s] = redis[s]]_vars
  /\ [](\A t \in Tabs : pc[t] = "page" /\ user[t] # Null
       => session[t] # Null /\ redis[session[t]] = user[t])
=============================================================================
