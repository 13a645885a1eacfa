---------------------------- MODULE SessionsProofs ----------------------------
(***************************************************************************)
(* Theorems about Sessions, for any tabs, accounts and lifetimes.          *)
(***************************************************************************)
EXTENDS Sessions, TLAPS

\* What Redis has was drawn by a login, and is some user's in the database.
RedisInv == \A s \in SessionIds : redis[s] # Null => s \in drawn /\ row[redis[s]] # Null

\* The cookie names a session that was saved.
CookieInv == jar # Null => redis[jar] # Null

\* What a login knows.
LoginInv(t) ==
  /\ pc[t] \in {"name", "lookup", "upsert", "draw", "save", "login"} => user[t] # Null
  /\ pc[t] \in {"lookup", "upsert"} => name[t] # Null
  /\ pc[t] \in {"draw", "save"} => row[user[t]] # Null
  /\ pc[t] \in {"save", "login"} => session[t] # Null /\ session[t] \in drawn
  /\ pc[t] = "save" => redis[session[t]] = Null
  /\ pc[t] = "login" => redis[session[t]] # Null

\* What a request that came with a cookie knows.
PageInv(t) ==
  /\ pc[t] \in {"cache", "user", "page", "error"} /\ session[t] # Null
       => redis[session[t]] # Null
  /\ pc[t] = "user" => user[t] # Null
  /\ pc[t] \in {"user", "page"} /\ user[t] # Null
       => session[t] # Null /\ redis[session[t]] = user[t]
  /\ pc[t] = "page" /\ user[t] = Null /\ session[t] # Null
       => day - since[session[t]] >= RedisDays

\* Two logins save two sessions.
ApartInv == \A t, q \in Tabs : pc[t] = "save" /\ pc[q] = "save" /\ t # q
                                 => session[t] # session[q]

IInv == /\ TypeOK /\ RedisInv /\ CookieInv /\ ApartInv
        /\ \A t \in Tabs : LoginInv(t) /\ PageInv(t)

LEMMA Initially == Init => IInv
BY NullAssumption, DaysAssumption
   DEF Init, IInv, TypeOK, RedisInv, CookieInv, ApartInv, LoginInv, PageInv, Steps

LEMMA TypeKept == IInv /\ [Next]_vars => TypeOK'
<1> SUFFICES ASSUME IInv, [Next]_vars PROVE TypeOK'
    OBVIOUS
<1> USE NullAssumption, DaysAssumption DEF IInv, TypeOK, Steps
<1>1. ASSUME NEW t \in Tabs, NEW u \in Users, Login(t, u) PROVE TypeOK'
      BY <1>1 DEF Login, Go, world, cookie, store
<1>2. ASSUME NEW t \in Tabs, GetName(t) PROVE TypeOK'
      BY <1>2 DEF GetName, Go, world, cookie, store, LoginInv
<1>3. ASSUME NEW t \in Tabs, Lookup(t) PROVE TypeOK'
      BY <1>3 DEF Lookup, Go, world, cookie, store
<1>4. ASSUME NEW t \in Tabs, Upsert(t) PROVE TypeOK'
      BY <1>4 DEF Upsert, Go, world, cookie, store, LoginInv
<1>5. ASSUME NEW t \in Tabs, Draw(t) PROVE TypeOK'
      BY <1>5 DEF Draw, Go, world, cookie, store
<1>6. ASSUME NEW t \in Tabs, Save(t) PROVE TypeOK'
      BY <1>6 DEF Save, Go, world, cookie, store, LoginInv
<1>7. ASSUME NEW t \in Tabs, LoginAnswer(t) PROVE TypeOK'
      BY <1>7 DEF LoginAnswer, Over, world, cookie, store
<1>8. ASSUME NEW t \in Tabs, Logout(t) PROVE TypeOK'
      BY <1>8 DEF Logout, Go, world, cookie, store
<1>9. ASSUME NEW t \in Tabs, LogoutAnswer(t) PROVE TypeOK'
      BY <1>9 DEF LogoutAnswer, Over, world, cookie, store
<1>10. ASSUME NEW t \in Tabs, Send(t) PROVE TypeOK'
      BY <1>10 DEF Send, Cookie, Go, world, cookie, store
<1>11. ASSUME NEW t \in Tabs, ReadCache(t) PROVE TypeOK'
      BY <1>11 DEF ReadCache, Cached, Go, world, cookie, store
<1>12. ASSUME NEW t \in Tabs, ReadUser(t) PROVE TypeOK'
      BY <1>12 DEF ReadUser, Go, world, cookie, store, PageInv
<1>13. ASSUME NEW t \in Tabs, FindNobody(t) PROVE TypeOK'
      BY <1>13 DEF FindNobody, Go, world, cookie, store
<1>14. ASSUME NEW t \in Tabs, PageAnswer(t) PROVE TypeOK'
      BY <1>14 DEF PageAnswer, Over, world, cookie, store
<1>15. ASSUME NEW t \in Tabs, Fail(t) PROVE TypeOK'
      BY <1>15 DEF Fail, Over, world, cookie, store
<1>16. CASE NextDay
      BY <1>16 DEF NextDay, cookie, store, request
<1>17. ASSUME NEW u \in Users, Rename(u) PROVE TypeOK'
      BY <1>17 DEF Rename, cookie, store, request
<1>18. CASE UNCHANGED vars
      BY <1>18 DEF vars, world, cookie, store, request
<1> QED BY <1>1, <1>2, <1>3, <1>4, <1>5, <1>6, <1>7, <1>8, <1>9, <1>10, <1>11, <1>12,
           <1>13, <1>14, <1>15, <1>16, <1>17, <1>18 DEF Next
-----------------------------------------------------------------------------
\* What a step leaves as it is, whichever it is.
Kept ==
  /\ \A s \in SessionIds : redis[s] # Null => redis'[s] = redis[s] /\ since'[s] = since[s]
  /\ \A u \in Users : row[u] # Null => row'[u] # Null
  /\ drawn \subseteq drawn'
  /\ day \in Nat /\ day' \in Nat /\ day <= day'

\* The requests of the other tabs.
OthersKept(t) == \A q \in Tabs \ {t} : /\ pc'[q] = pc[q] /\ user'[q] = user[q]
                                       /\ name'[q] = name[q] /\ session'[q] = session[q]

\* Steps of a request that leave the tables and the cookie alone.
Reading(t) == \/ \E u \in Users : Login(t, u)
              \/ GetName(t) \/ Lookup(t) \/ Logout(t) \/ Send(t) \/ ReadCache(t)
              \/ ReadUser(t) \/ FindNobody(t) \/ PageAnswer(t) \/ Fail(t)

Answer(t) == LoginAnswer(t) \/ LogoutAnswer(t)

TabStep(t) == Reading(t) \/ Answer(t) \/ Upsert(t) \/ Draw(t) \/ Save(t)

LEMMA NextSteps == Next <=> (\E t \in Tabs : TabStep(t)) \/ NextDay \/ \E u \in Users : Rename(u)
BY DEF Next, TabStep, Reading, Answer

LEMMA ReadingKeeps == \A t \in Tabs : Reading(t) => UNCHANGED <<world, cookie, store, drawn>>
BY DEF Reading, Login, GetName, Lookup, Logout, Send, ReadCache, ReadUser, FindNobody,
       PageAnswer, Fail

LEMMA Others == ASSUME TypeOK, NEW t \in Tabs, TabStep(t)
                PROVE  OthersKept(t)
<1> USE DEF TypeOK, OthersKept
<1>1. CASE Reading(t)
  <2>1. ASSUME NEW u \in Users, Login(t, u) PROVE OthersKept(t)
        BY <2>1 DEF Login, Go
  <2>2. CASE GetName(t) \/ Lookup(t) \/ Logout(t) \/ Send(t)
        BY <2>2 DEF GetName, Lookup, Logout, Send, Go
  <2>3. CASE ReadCache(t) \/ ReadUser(t) \/ FindNobody(t)
        BY <2>3 DEF ReadCache, ReadUser, FindNobody, Go
  <2>4. CASE PageAnswer(t) \/ Fail(t)
        BY <2>4 DEF PageAnswer, Fail, Over
  <2> QED BY <1>1, <2>1, <2>2, <2>3, <2>4 DEF Reading
<1>2. CASE Answer(t)
      BY <1>2 DEF Answer, LoginAnswer, LogoutAnswer, Over
<1>3. CASE Upsert(t) \/ Draw(t) \/ Save(t)
      BY <1>3 DEF Upsert, Draw, Save, Go
<1> QED BY <1>1, <1>2, <1>3 DEF TabStep

LEMMA StoreKept == IInv /\ [Next]_vars => Kept
<1> SUFFICES ASSUME IInv, [Next]_vars PROVE Kept
    OBVIOUS
<1> USE NullAssumption, DaysAssumption DEF IInv, TypeOK, Kept
<1>1. ASSUME NEW t \in Tabs, TabStep(t) PROVE Kept
  <2>1. CASE Reading(t)
        BY <2>1, ReadingKeeps DEF world, store
  <2>2. CASE Answer(t)
        BY <2>2 DEF Answer, LoginAnswer, LogoutAnswer, world, store
  <2>3. CASE Upsert(t)
        BY <2>3 DEF Upsert, Go, world, LoginInv
  <2>4. CASE Draw(t)
        BY <2>4 DEF Draw, world, store
  <2>5. CASE Save(t)
        BY <2>5 DEF Save, Go, world, LoginInv
  <2> QED BY <1>1, <2>1, <2>2, <2>3, <2>4, <2>5 DEF TabStep
<1>2. CASE NextDay
      BY <1>2 DEF NextDay, store
<1>3. CASE \E u \in Users : Rename(u)
      BY <1>3 DEF Rename, store
<1>4. CASE UNCHANGED vars
      BY <1>4 DEF vars, world, store
<1> QED BY <1>1, <1>2, <1>3, <1>4, NextSteps

LEMMA TablesKept == IInv /\ [Next]_vars => RedisInv' /\ CookieInv'
<1> SUFFICES ASSUME IInv, [Next]_vars PROVE RedisInv' /\ CookieInv'
    OBVIOUS
<1>k. Kept
      BY StoreKept
<1>t. TypeOK'
      BY TypeKept
<1> USE NullAssumption DEF IInv, TypeOK, RedisInv, CookieInv
<1>1. ASSUME NEW t \in Tabs, TabStep(t) PROVE RedisInv' /\ CookieInv'
  <2>1. CASE Reading(t)
        BY <2>1, ReadingKeeps DEF world, store, cookie
  <2>2. CASE Answer(t)
        BY <2>2 DEF Answer, LoginAnswer, LogoutAnswer, store, LoginInv
  <2>3. CASE Upsert(t)
        BY <2>3, <1>k DEF Upsert, cookie, Kept
  <2>4. CASE Draw(t)
        BY <2>4 DEF Draw, cookie, store
  <2>5. CASE Save(t)
        BY <2>5, <1>k DEF Save, Go, cookie, LoginInv, Kept
  <2> QED BY <1>1, <2>1, <2>2, <2>3, <2>4, <2>5 DEF TabStep
<1>2. CASE NextDay
      BY <1>2 DEF NextDay, cookie, store
<1>3. CASE \E u \in Users : Rename(u)
      BY <1>3 DEF Rename, cookie, store
<1>4. CASE UNCHANGED vars
      BY <1>4 DEF vars, cookie, store
<1> QED BY <1>1, <1>2, <1>3, <1>4, NextSteps
-----------------------------------------------------------------------------
\* A step of one tab leaves what another one knows true.
LEMMA OtherTab == ASSUME IInv, [Next]_vars, NEW t \in Tabs, TabStep(t),
                         NEW q \in Tabs \ {t}
                  PROVE  LoginInv(q)' /\ PageInv(q)'
<1>k. Kept
      BY StoreKept
<1>t. TypeOK'
      BY TypeKept
<1>q. pc'[q] = pc[q] /\ user'[q] = user[q] /\ name'[q] = name[q] /\ session'[q] = session[q]
      BY Others DEF IInv, OthersKept
<1> USE NullAssumption, DaysAssumption DEF IInv, TypeOK
<1>1. pc[q] = "save" => redis'[session[q]] = Null
  <2> SUFFICES ASSUME pc[q] = "save" PROVE redis'[session[q]] = Null
      OBVIOUS
  <2>1. redis[session[q]] = Null /\ session[q] \in SessionIds
        BY DEF LoginInv
  <2>2. CASE Save(t)
        BY <2>1, <2>2 DEF Save, Go, ApartInv, LoginInv
  <2>3. CASE Reading(t)
        BY <2>1, <2>3, ReadingKeeps DEF store
  <2>4. CASE Answer(t) \/ Upsert(t) \/ Draw(t)
        BY <2>1, <2>4 DEF Answer, LoginAnswer, LogoutAnswer, Upsert, Draw, store
  <2> QED BY <2>2, <2>3, <2>4 DEF TabStep
<1>2. LoginInv(q)'
      BY <1>1, <1>q, <1>k DEF LoginInv, Kept
<1>3. PageInv(q)'
      BY <1>q, <1>k, <1>t DEF PageInv, Kept
<1> QED BY <1>2, <1>3

\* A step leaves what its own tab has found out true.
LEMMA OwnTab == ASSUME IInv, [Next]_vars, NEW t \in Tabs, TabStep(t)
                PROVE  LoginInv(t)' /\ PageInv(t)'
<1>k. Kept
      BY StoreKept
<1>t. TypeOK'
      BY TypeKept
<1>l. LoginInv(t) /\ PageInv(t)
      BY DEF IInv
<1> USE NullAssumption, DaysAssumption DEF IInv, TypeOK
<1>1. ASSUME NEW u \in Users, Login(t, u) PROVE LoginInv(t)' /\ PageInv(t)'
      BY <1>1 DEF Login, Go, LoginInv, PageInv
<1>2. CASE GetName(t)
      BY <1>2, <1>l DEF GetName, Go, LoginInv, PageInv
<1>3. CASE Lookup(t)
      BY <1>3, <1>l DEF Lookup, Go, LoginInv, PageInv, store
<1>4. CASE Upsert(t)
      BY <1>4, <1>l DEF Upsert, Go, LoginInv, PageInv
<1>5. CASE Draw(t)
  <2>1. PICK s \in SessionIds \ drawn : session' = [session EXCEPT ![t] = s]
                                         /\ drawn' = drawn \cup {s}
        BY <1>5 DEF Draw
  <2>2. redis'[s] = Null
        BY <1>5, <2>1 DEF Draw, store, RedisInv
  <2> QED BY <1>5, <1>l, <2>1, <2>2 DEF Draw, Go, LoginInv, PageInv, store
<1>6. CASE Save(t)
      BY <1>6, <1>l DEF Save, Go, LoginInv, PageInv
<1>7. CASE Answer(t)
      BY <1>7 DEF Answer, LoginAnswer, LogoutAnswer, Over, LoginInv, PageInv
<1>8. CASE Logout(t)
      BY <1>8 DEF Logout, Go, LoginInv, PageInv
<1>9. CASE Send(t)
      BY <1>9 DEF Send, Go, Cookie, CookieInv, LoginInv, PageInv, store
<1>10. CASE ReadCache(t)
      BY <1>10, <1>l DEF ReadCache, Go, Cached, LoginInv, PageInv, store, world
<1>11. CASE ReadUser(t)
      BY <1>11, <1>l DEF ReadUser, Go, LoginInv, PageInv, store, world
<1>12. CASE FindNobody(t)
      BY <1>12, <1>l DEF FindNobody, Go, LoginInv, PageInv, store
<1>13. CASE PageAnswer(t) \/ Fail(t)
      BY <1>13 DEF PageAnswer, Fail, Over, LoginInv, PageInv
<1> QED BY <1>1, <1>2, <1>3, <1>4, <1>5, <1>6, <1>7, <1>8, <1>9, <1>10, <1>11, <1>12, <1>13
        DEF TabStep, Reading

LEMMA TabsKept == IInv /\ [Next]_vars => \A q \in Tabs : LoginInv(q)' /\ PageInv(q)'
<1> SUFFICES ASSUME IInv, [Next]_vars, NEW q \in Tabs PROVE LoginInv(q)' /\ PageInv(q)'
    OBVIOUS
<1>k. Kept
      BY StoreKept
<1>t. TypeOK'
      BY TypeKept
<1>l. LoginInv(q) /\ PageInv(q)
      BY DEF IInv
<1>1. ASSUME NEW t \in Tabs, TabStep(t) PROVE LoginInv(q)' /\ PageInv(q)'
      BY <1>1, OtherTab, OwnTab
<1>2. CASE NextDay \/ (\E u \in Users : Rename(u)) \/ UNCHANGED vars
  <2>1. UNCHANGED <<store, request, drawn>>
        BY <1>2 DEF NextDay, Rename, vars
  <2> QED BY <1>k, <1>t, <1>l, <2>1, NullAssumption, DaysAssumption
          DEF IInv, TypeOK, Kept, LoginInv, PageInv, store, request
<1> QED BY <1>1, <1>2, NextSteps

LEMMA ApartKept == IInv /\ [Next]_vars => ApartInv'
<1> SUFFICES ASSUME IInv, [Next]_vars,
                    NEW a \in Tabs, NEW b \in Tabs, pc'[a] = "save", pc'[b] = "save", a # b
             PROVE  session'[a] # session'[b]
    BY DEF ApartInv
<1> USE DEF IInv, TypeOK
<1>1. ASSUME NEW t \in Tabs, TabStep(t) PROVE session'[a] # session'[b]
  <2>o. OthersKept(t)
        BY <1>1, Others
  <2>1. CASE t # a /\ t # b
        BY <2>1, <2>o DEF OthersKept, ApartInv
  <2>2. ASSUME NEW x \in Tabs, t # x, pc'[t] = "save", pc'[x] = "save"
        PROVE  session'[t] # session'[x]
    <3>1. session'[x] = session[x] /\ session[x] \in drawn
          BY <2>2, <2>o DEF OthersKept, LoginInv
    <3>2. Draw(t)
          BY <1>1, <2>2 DEF TabStep, Reading, Answer, Login, GetName, Lookup, Logout, Send,
             ReadCache, ReadUser, FindNobody, PageAnswer, Fail, LoginAnswer, LogoutAnswer,
             Upsert, Save, Go, Over
    <3> QED BY <3>1, <3>2 DEF Draw
  <2> QED BY <2>1, <2>2
<1>2. CASE NextDay \/ (\E u \in Users : Rename(u)) \/ UNCHANGED vars
      BY <1>2 DEF NextDay, Rename, vars, request, ApartInv
<1> QED BY <1>1, <1>2, NextSteps

LEMMA Inductive == Spec => []IInv
<1>1. IInv /\ [Next]_vars => IInv'
      BY TypeKept, TablesKept, TabsKept, ApartKept DEF IInv
<1> QED BY <1>1, Initially, PTL DEF Spec
-----------------------------------------------------------------------------
\* The variables have their types.
THEOREM TypeCorrect == Spec => []TypeOK
<1>1. IInv => TypeOK
      BY DEF IInv
<1> QED BY <1>1, Inductive, PTL

\* While Redis and the database answer, every cookie that a login has set is recognised
\* until its days in Redis are over, whatever the other tabs do (load_from_cache,
\* set_session).
THEOREM EveryCookieWorks == Spec => []CookiesWork
<1>1. IInv => CookiesWork
      BY DEF IInv, PageInv, CookiesWork
<1> QED BY <1>1, Inductive, PTL

\* Nobody has a session, or is about to get one, without a row in the database: the error
\* of from_user_id is never met.
THEOREM EverySessionHasAUser == Spec => []SessionsHaveUsers
<1>1. IInv => SessionsHaveUsers
      BY DEF IInv, RedisInv, LoginInv, SessionsHaveUsers
<1> QED BY <1>1, Inductive, PTL

\* A session stays one user's, and a page shows the user of the cookie it was asked with,
\* however late it comes (set_session, SessionMiddleware).
THEOREM SessionStaysOneUsers == Spec => OneUserEach
<1>1. IInv /\ [Next]_vars
        => [\A s \in SessionIds : redis[s] # Null => redis'[s] = redis[s]]_vars
      BY StoreKept DEF Kept
<1>2. IInv => \A t \in Tabs : pc[t] = "page" /\ user[t] # Null
                => session[t] # Null /\ redis[session[t]] = user[t]
      BY DEF IInv, PageInv
<1> QED BY <1>1, <1>2, Inductive, PTL DEF OneUserEach, Spec
=============================================================================
