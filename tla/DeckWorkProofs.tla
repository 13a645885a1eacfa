---------------------------- MODULE DeckWorkProofs ----------------------------
(***************************************************************************)
(* Proofs about DeckWork, for any cards, lists, redirections, loads and    *)
(* renders, and about the stream that loads a render's images              *)
(* (ParallelStream), for any number of them and any parallelism.           *)
(*                                                                         *)
(* Each stage has an invariant of its own; a step of another stage leaves  *)
(* its variables alone.                                                    *)
(***************************************************************************)
EXTENDS DeckWork, ParallelStream, FiniteSetTheorems, FunctionTheorems, SequenceTheorems, TLAPS

------------------------------------------------------------------------------
(* RedirectMiddleware: the request to the deck site *)

(***************************************************************************)
(* The next request goes to the end of a chain of redirections from the    *)
(* caller's URL, as many as were counted.  (A redirection without a usable *)
(* Location is counted, too, but ends the request with an error.)          *)
(***************************************************************************)
AtEndOf(c) == /\ c \in Fetch!Chains(redirects)
              /\ request.url = c[redirects]
              /\ request.method = IF Fetch!SeenOther(c, redirects) THEN "GET" ELSE asked.method
ChainInv == response # "error" => \E c \in Fetch!Chains(redirects) : AtEndOf(c)
AnswerInv == /\ response = "response" => redirects < Limit
                                         /\ answers[request.url].kind = "final"
             /\ response = "panicked" => redirects = Limit

FetchInv == Fetch!TypeOK /\ ChainInv /\ AnswerInv

\* The limit is a number.
LEMMA FetchConstants == Limit \in Nat \ {0}
  BY FetchAssumption DEF Fetch!LimitAssumption

\* The first request is the caller's.
LEMMA FetchInit == Fetch!Init => FetchInv
<1> SUFFICES ASSUME Fetch!Init PROVE FetchInv
  OBVIOUS
<1>1. /\ answers \in [Urls -> Fetch!Answers] /\ asked \in Fetch!Requests /\ request = asked
      /\ redirects = 0 /\ response = "none"
  BY DEF Fetch!Init
<1>2. Fetch!TypeOK
  BY <1>1, FetchConstants DEF Fetch!TypeOK
<1> DEFINE c == [i \in 0 .. 0 |-> asked.url]
<1>3. asked.url \in Urls
  BY <1>1 DEF Fetch!Requests
<1>4. c \in [0 .. 0 -> Urls] /\ c[0] = asked.url /\ 0 .. 0 - 1 = {}
  BY <1>3
<1> HIDE DEF c
<1>5. c \in Fetch!Chains(0) /\ ~Fetch!SeenOther(c, 0)
  BY <1>4 DEF Fetch!Chains, Fetch!SeenOther
<1> QED
  BY <1>1, <1>2, <1>4, <1>5 DEF FetchInv, ChainInv, AnswerInv, AtEndOf

\* Following a redirection makes the chain longer by one.
LEMMA LongerChain ==
  ASSUME FetchInv, Fetch!Follow PROVE FetchInv'
<1>1. /\ response = "none" /\ redirects < Limit
      /\ Fetch!Redirects(answers[request.url])
      /\ request' = Fetch!Redirected(request, answers[request.url])
      /\ redirects' = redirects + 1
      /\ UNCHANGED <<answers, asked, response>>
  BY DEF Fetch!Follow, Fetch!MoreAllowed
<1>2. /\ answers \in [Urls -> Fetch!Answers] /\ asked \in Fetch!Requests
      /\ request \in Fetch!Requests /\ redirects \in 0 .. Limit /\ Limit \in Nat
  BY FetchConstants DEF FetchInv, Fetch!TypeOK
<1> DEFINE n == redirects
           to == answers[request.url].to
<1>3. request.url \in Urls /\ to \in Urls
  <2>1. request.url \in Urls
    BY <1>2 DEF Fetch!Requests
  <2>2. answers[request.url] \in [kind : {"see", "keep"}, to : Urls]
    BY <1>1, <1>2, <2>1 DEF Fetch!Answers, Fetch!Redirects
  <2> QED
    BY <2>1, <2>2
<1>4. PICK c \in Fetch!Chains(n) : AtEndOf(c)
  BY <1>1 DEF FetchInv, ChainInv
<1>5. /\ c \in [0 .. n -> Urls] /\ c[0] = asked.url /\ c[n] = request.url /\ n \in Nat
      /\ \A i \in 0 .. n - 1 : Fetch!Redirects(answers[c[i]]) /\ c[i + 1] = answers[c[i]].to
  BY <1>2, <1>4 DEF AtEndOf, Fetch!Chains
<1>6. PICK e \in [0 .. n + 1 -> Urls] :
        e[n + 1] = to /\ e[0] = asked.url /\ \A i \in 0 .. n : e[i] = c[i]
  <2> DEFINE f == [i \in 0 .. n + 1 |-> IF i = n + 1 THEN to ELSE c[i]]
  <2>1. /\ f \in [0 .. n + 1 -> Urls] /\ f[n + 1] = to /\ f[0] = asked.url
        /\ \A i \in 0 .. n : f[i] = c[i]
    BY <1>3, <1>5
  <2> HIDE DEF f
  <2> QED
    BY <2>1
<1>7. e \in Fetch!Chains(n + 1)
  <2>1. \A i \in 0 .. n : Fetch!Redirects(answers[e[i]]) /\ e[i + 1] = answers[e[i]].to
    <3> SUFFICES ASSUME NEW i \in 0 .. n
                 PROVE  Fetch!Redirects(answers[e[i]]) /\ e[i + 1] = answers[e[i]].to
      OBVIOUS
    <3>1. CASE i = n
      BY <1>1, <1>5, <1>6, <3>1
    <3>2. CASE i # n
      <4>1. i \in 0 .. n - 1 /\ i + 1 \in 0 .. n
        BY <1>5, <3>2
      <4> QED
        BY <1>5, <1>6, <4>1
    <3> QED
      BY <3>1, <3>2
  <2> DEFINE m == n + 1
  <2>2. 0 .. m - 1 = 0 .. n
    BY <1>5
  <2>3. /\ e \in [0 .. m -> Urls] /\ e[0] = asked.url
        /\ \A i \in 0 .. m - 1 : /\ Fetch!Redirects(answers[e[i]])
                                    /\ e[i + 1] = answers[e[i]].to
    <3>1. \A i \in 0 .. m - 1 : /\ Fetch!Redirects(answers[e[i]])
                               /\ e[i + 1] = answers[e[i]].to
      BY <2>1, <2>2
    <3> QED
      BY <1>6, <3>1
  <2> HIDE DEF m
  <2>4. e \in Fetch!Chains(m)
    BY <2>3 DEF Fetch!Chains
  <2> QED
    BY <2>4 DEF m
<1>8. Fetch!SeenOther(e, n + 1) <=> Fetch!SeenOther(c, n) \/ answers[request.url].kind = "see"
  <2>1. 0 .. n + 1 - 1 = 0 .. n /\ 0 .. n = (0 .. n - 1) \cup {n}
    BY <1>5
  <2> QED
    BY <1>5, <1>6, <2>1 DEF Fetch!SeenOther
<1>9. /\ request'.url = to
      /\ request'.method = IF Fetch!SeenOther(e, n + 1) THEN "GET" ELSE asked.method
  BY <1>1, <1>4, <1>8 DEF Fetch!Redirected, AtEndOf
<1>10. Fetch!TypeOK'
  <2>1. request' \in Fetch!Requests
    BY <1>1, <1>2, <1>3 DEF Fetch!Redirected, Fetch!Requests
  <2>2. response \in {"none", "response", "error", "panicked"}
    BY DEF FetchInv, Fetch!TypeOK
  <2> QED
    BY <1>1, <1>2, <2>1, <2>2 DEF Fetch!TypeOK
<1>11. e \in Fetch!Chains(redirects)' /\ AtEndOf(e)'
  <2>1. Fetch!Chains(n + 1) = Fetch!Chains(redirects)'
    BY <1>1 DEF Fetch!Chains
  <2>2. Fetch!SeenOther(e, redirects)' = Fetch!SeenOther(e, n + 1)
    BY <1>1 DEF Fetch!SeenOther
  <2> QED
    BY <1>1, <1>6, <1>7, <1>9, <2>1, <2>2 DEF AtEndOf
<1> QED
  BY <1>1, <1>10, <1>11 DEF FetchInv, ChainInv, AnswerInv

\* No step of the request leaves the invariant.
LEMMA FetchStep == FetchInv /\ [Fetch!Next]_fetchVars => FetchInv'
<1> SUFFICES ASSUME FetchInv, [Fetch!Next]_fetchVars PROVE FetchInv'
  OBVIOUS
<1>1. CASE UNCHANGED fetchVars
  BY <1>1 DEF fetchVars, FetchInv, ChainInv, AnswerInv, AtEndOf, Fetch!TypeOK, Fetch!Chains,
     Fetch!SeenOther
<1>2. CASE Fetch!Respond
  BY <1>2 DEF Fetch!Respond, Fetch!MoreAllowed, FetchInv, ChainInv, AnswerInv, AtEndOf,
     Fetch!TypeOK, Fetch!Chains, Fetch!SeenOther
<1>3. CASE Fetch!GiveUp
  <2>1. redirects' \in 0 .. Limit
    BY <1>3, FetchConstants DEF Fetch!GiveUp, Fetch!MoreAllowed, FetchInv, Fetch!TypeOK
  <2> QED
    BY <1>3, <2>1 DEF Fetch!GiveUp, FetchInv, ChainInv, AnswerInv, Fetch!TypeOK
<1>4. CASE Fetch!LimitReached
  <2>1. redirects = Limit
    BY <1>4, FetchConstants DEF Fetch!LimitReached, Fetch!MoreAllowed, FetchInv, Fetch!TypeOK
  <2> QED
    BY <1>4, <2>1 DEF Fetch!LimitReached, FetchInv, ChainInv, AnswerInv, AtEndOf, Fetch!TypeOK,
       Fetch!Chains, Fetch!SeenOther
<1> QED
  BY <1>1, <1>2, <1>3, <1>4, LongerChain DEF Fetch!Next

\* What the invariant says of a request that has ended.
LEMMA FetchFacts == FetchInv => Fetch!ResponseEndsChain
<1> SUFFICES ASSUME FetchInv PROVE Fetch!ResponseEndsChain
  OBVIOUS
<1>1. redirects \in 0 .. Limit /\ Limit \in Nat
  BY FetchConstants DEF FetchInv, Fetch!TypeOK
<1>2. ASSUME response = "response"
      PROVE  /\ answers[request.url].kind = "final"
             /\ \E n \in 0 .. Limit - 1 : \E c \in Fetch!Chains(n) :
                  /\ request.url = c[n]
                  /\ request.method = IF Fetch!SeenOther(c, n) THEN "GET" ELSE asked.method
  <2>1. PICK c \in Fetch!Chains(redirects) : AtEndOf(c)
    BY <1>2 DEF FetchInv, ChainInv
  <2>2. redirects \in 0 .. Limit - 1
    BY <1>1, <1>2 DEF FetchInv, AnswerInv
  <2> QED
    BY <1>2, <2>1, <2>2 DEF AtEndOf, FetchInv, AnswerInv
<1>3. ASSUME response = "panicked" PROVE Fetch!Chains(Limit) # {}
  BY <1>3 DEF FetchInv, ChainInv, AnswerInv
<1> QED
  BY <1>2, <1>3 DEF Fetch!ResponseEndsChain

------------------------------------------------------------------------------
(* Remainders *)

\* A number is a multiple of m and its remainder.
LEMMA Divided ==
  ASSUME NEW i \in Nat, NEW m \in Nat \ {0}
  PROVE  i % m \in 0 .. m - 1 /\ \E q \in Nat : i = m * q + (i % m)
<1>1. i % m \in 0 .. m - 1
  OBVIOUS
<1>2. i = m * (i \div m) + (i % m) /\ i \div m \in Int
  OBVIOUS
<1>3. i \div m >= 0
  OBVIOUS
<1>4. i \div m \in Nat
  BY <1>2, <1>3
<1> QED
  BY <1>1, <1>2, <1>4

\* A multiple of m and less than m has just that remainder.
LEMMA Remainder ==
  ASSUME NEW m \in Nat \ {0}, NEW q \in Nat, NEW b \in 0 .. m - 1
  PROVE  (m * q + b) % m = b
<1> DEFINE i == m * q + b
<1>1. i \in Nat
  OBVIOUS
<1> HIDE DEF i
<1>2. i % m \in 0 .. m - 1 /\ \E p \in Nat : i = m * p + (i % m)
  BY <1>1, Divided
<1>3. PICK p \in Nat : i = m * p + (i % m)
  BY <1>2
<1> DEFINE r == i % m
<1>4. r \in 0 .. m - 1 /\ m * q + b = m * p + r
  BY <1>2, <1>3 DEF i
<1> HIDE DEF r
<1>5. ASSUME p < q PROVE FALSE
  <2>1. m * q >= m * p + m
    <3>1. PICK d \in Nat : q = p + 1 + d
      BY <1>5
    <3>2. m * q = m * p + m + m * d
      BY <3>1
    <3> QED
      BY <3>2
  <2> QED
    BY <1>4, <2>1
<1>6. ASSUME q < p PROVE FALSE
  <2>1. m * p >= m * q + m
    <3>1. PICK d \in Nat : p = q + 1 + d
      BY <1>6
    <3>2. m * p = m * q + m + m * d
      BY <3>1
    <3> QED
      BY <3>2
  <2> QED
    BY <1>4, <2>1
<1>7. p = q
  BY <1>5, <1>6
<1>8. r = b
  BY <1>4, <1>7
<1> QED
  BY <1>8 DEF r, i

\* What is less than m is its own remainder.
LEMMA SmallRemainder ==
  ASSUME NEW m \in Nat \ {0}, NEW b \in 0 .. m - 1 PROVE b % m = b
<1>1. 0 \in Nat /\ m * 0 + b = b
  OBVIOUS
<1>2. (m * 0 + b) % m = b
  BY <1>1, Remainder
<1> QED
  BY <1>1, <1>2

\* A remainder may be taken before something is added.
LEMMA RemainderOfSum ==
  ASSUME NEW i \in Nat, NEW k \in Nat, NEW m \in Nat \ {0}
  PROVE  ((i % m) + k) % m = (i + k) % m
<1> DEFINE s == (i % m) + k
           r == s % m
<1>1. PICK q \in Nat : i = m * q + (i % m)
  BY Divided
<1>2. i % m \in 0 .. m - 1
  BY Divided
<1>3. s \in Nat
  BY <1>2
<1> HIDE DEF s
<1>4. PICK p \in Nat : s = m * p + r
  BY <1>3, Divided
<1>5. r \in 0 .. m - 1
  BY <1>3, Divided
<1> HIDE DEF r
<1>6. i + k = m * q + m * p + r
  <2> DEFINE t == i % m
  <2>1. t \in Nat /\ i = m * q + t /\ s = t + k
    BY <1>1, <1>2 DEF s
  <2> HIDE DEF t
  <2> QED
    BY <1>4, <1>5, <2>1
<1>7. i + k = m * (q + p) + r /\ q + p \in Nat
  BY <1>5, <1>6
<1>8. (m * (q + p) + r) % m = r
  BY <1>5, <1>7, Remainder
<1> QED
  BY <1>7, <1>8 DEF r, s

------------------------------------------------------------------------------
(* Sums as sizes *)

\* DeckLists' Sum.
Units(f) == UNION {{x} \X (1 .. f[x]) : x \in DOMAIN f}
Weight(f) == Cardinality(Units(f))

\* The units of a function on numbers.
LEMMA UnitsAre ==
  ASSUME NEW D, NEW f \in [D -> Nat]
  PROVE  \A u : u \in Units(f) <=> \E x \in D : \E i \in 1 .. f[x] : u = <<x, i>>
  BY DEF Units

\* What is counted in finitely many places is finitely much.
LEMMA WeightType ==
  ASSUME NEW D, IsFiniteSet(D), NEW f \in [D -> Nat]
  PROVE  IsFiniteSet(Units(f)) /\ Weight(f) \in Nat
<1> DEFINE U == {{x} \X (1 .. f[x]) : x \in D}
           g == [x \in D |-> {x} \X (1 .. f[x])]
<1>1. g \in Surjection(D, U)
  BY Fun_IsSurj
<1>2. IsFiniteSet(U)
  BY <1>1, FS_Surjection
<1>3. \A T \in U : IsFiniteSet(T)
  <2> SUFFICES ASSUME NEW x \in D PROVE IsFiniteSet({x} \X (1 .. f[x]))
    OBVIOUS
  <2>1. 1 \in Int /\ f[x] \in Int
    OBVIOUS
  <2>2. IsFiniteSet(1 .. f[x]) /\ IsFiniteSet({x})
    BY <2>1, FS_Interval, FS_Singleton
  <2> QED
    BY <2>2, FS_Product
<1>4. IsFiniteSet(UNION U)
  BY <1>2, <1>3, FS_UNION
<1> QED
  BY <1>4, FS_CardinalityType DEF Units, Weight

\* A sum over two disjoint parts.
LEMMA WeightSplits ==
  ASSUME NEW D, NEW E, IsFiniteSet(D), IsFiniteSet(E), D \cap E = {},
         NEW f \in [D -> Nat], NEW g \in [E -> Nat], NEW h \in [D \cup E -> Nat],
         \A x \in D : h[x] = f[x], \A x \in E : h[x] = g[x]
  PROVE  Weight(h) = Weight(f) + Weight(g)
<1>1. Units(h) = Units(f) \cup Units(g)
  BY DEF Units
<1>2. Units(f) \cap Units(g) = {}
  BY DEF Units
<1>3. /\ IsFiniteSet(Units(f)) /\ IsFiniteSet(Units(g))
      /\ Weight(f) \in Nat /\ Weight(g) \in Nat
  BY WeightType
<1>4. Cardinality(Units(f) \cap Units(g)) = 0
  BY <1>2, FS_EmptySet
<1>5. Cardinality(Units(f) \cup Units(g)) =
        Cardinality(Units(f)) + Cardinality(Units(g)) - Cardinality(Units(f) \cap Units(g))
  BY <1>3, FS_Union
<1> QED
  BY <1>1, <1>3, <1>4, <1>5 DEF Weight

\* A sum over one place.
LEMMA WeightOfOne ==
  ASSUME NEW x, NEW f \in [{x} -> Nat] PROVE Weight(f) = f[x]
<1>1. Units(f) = {x} \X (1 .. f[x])
  BY DEF Units
<1>2. 1 \in Int /\ f[x] \in Nat
  OBVIOUS
<1>3. IsFiniteSet(1 .. f[x]) /\ Cardinality(1 .. f[x]) = IF 1 > f[x] THEN 0 ELSE f[x] - 1 + 1
  BY <1>2, FS_Interval
<1>4. IsFiniteSet({x}) /\ Cardinality({x}) = 1
  BY FS_Singleton
<1>5. Cardinality({x} \X (1 .. f[x])) = Cardinality({x}) * Cardinality(1 .. f[x])
  BY <1>3, <1>4, FS_Product
<1>6. Cardinality(1 .. f[x]) = f[x]
  BY <1>2, <1>3
<1> QED
  BY <1>1, <1>2, <1>4, <1>5, <1>6 DEF Weight

\* A sum over nothing but zeros.
LEMMA WeightOfZeros ==
  ASSUME NEW D, NEW f \in [D -> Nat], \A x \in D : f[x] = 0 PROVE Weight(f) = 0
<1>1. Units(f) = {}
  BY DEF Units
<1> QED
  BY <1>1, FS_EmptySet DEF Weight

\* A sum of ones.
LEMMA WeightOfOnes ==
  ASSUME NEW D, IsFiniteSet(D), NEW f \in [D -> Nat], \A x \in D : f[x] = 1
  PROVE  Weight(f) = Cardinality(D)
<1> DEFINE b == [x \in D |-> <<x, 1>>]
<1>1. \A u : u \in Units(f) <=> \E x \in D : u = <<x, 1>>
  BY DEF Units
<1>2. b \in Bijection(D, Units(f))
  <2>1. b \in [D -> Units(f)]
    BY <1>1
  <2>2. \A x, y \in D : b[x] = b[y] => x = y
    OBVIOUS
  <2>3. \A u \in Units(f) : \E x \in D : b[x] = u
    BY <1>1
  <2> QED
    BY <2>1, <2>2, <2>3, Fun_IsBij
<1>3. ExistsBijection(D, Units(f))
  BY <1>2 DEF ExistsBijection
<1> QED
  BY <1>3, FS_Bijection DEF Weight

\* A sum with one more place.
LEMMA WeightGrows ==
  ASSUME NEW D, IsFiniteSet(D), NEW x, x \notin D, NEW f \in [D -> Nat],
         NEW h \in [D \cup {x} -> Nat], \A y \in D : h[y] = f[y]
  PROVE  Weight(h) = Weight(f) + h[x]
<1> DEFINE g == [y \in {x} |-> h[x]]
<1>1. h[x] \in Nat /\ g \in [{x} -> Nat] /\ \A y \in {x} : h[y] = g[y]
  OBVIOUS
<1>2. Weight(g) = g[x] /\ g[x] = h[x]
  BY <1>1, WeightOfOne
<1> HIDE DEF g
<1>3. IsFiniteSet({x}) /\ D \cap {x} = {}
  BY FS_Singleton
<1>4. Weight(h) = Weight(f) + Weight(g)
  BY <1>1, <1>3, WeightSplits
<1> QED
  BY <1>2, <1>4

\* The sizes of the parts of a set add up to its own.
LEMMA WeightOfParts ==
  ASSUME NEW T, IsFiniteSet(T), NEW K, NEW h \in [T -> K],
         NEW f \in [K -> Nat], \A k \in K : f[k] = Cardinality({t \in T : h[t] = k})
  PROVE  Weight(f) = Cardinality(T)
<1> DEFINE Part(k) == {t \in T : h[t] = k}
<1>1. ASSUME NEW k \in K PROVE \E b : b \in Bijection(Part(k), 1 .. f[k])
  <2>1. IsFiniteSet(Part(k))
    BY FS_Subset
  <2>2. ExistsBijection(1 .. f[k], Part(k))
    BY <2>1, FS_CardinalityType
  <2>3. ExistsBijection(Part(k), 1 .. f[k])
    BY <2>2, Fun_ExistsBijSymmetric
  <2> QED
    BY <2>3 DEF ExistsBijection
<1> DEFINE n == [k \in K |-> CHOOSE b : b \in Bijection(Part(k), 1 .. f[k])]
<1>2. \A k \in K : n[k] \in Bijection(Part(k), 1 .. f[k])
  BY <1>1
<1> HIDE DEF n
<1>3. \A k \in K : /\ n[k] \in [Part(k) -> 1 .. f[k]]
                   /\ \A s, t \in Part(k) : n[k][s] = n[k][t] => s = t
                   /\ \A i \in 1 .. f[k] : \E t \in Part(k) : n[k][t] = i
  BY <1>2 DEF Bijection, Injection, Surjection, IsInjective
<1> DEFINE b == [t \in T |-> <<h[t], n[h[t]][t]>>]
<1>4. \A t \in T : h[t] \in K /\ t \in Part(h[t])
  OBVIOUS
<1>5. \A u : u \in Units(f) <=> \E k \in K : \E i \in 1 .. f[k] : u = <<k, i>>
  BY UnitsAre
<1>6. b \in [T -> Units(f)]
  <2> SUFFICES ASSUME NEW t \in T PROVE <<h[t], n[h[t]][t]>> \in Units(f)
    OBVIOUS
  <2>1. n[h[t]][t] \in 1 .. f[h[t]]
    <3>1. PICK k \in K : k = h[t] /\ t \in Part(k)
      BY <1>4
    <3>2. n[k] \in [Part(k) -> 1 .. f[k]]
      BY <1>3
    <3> QED
      BY <3>1, <3>2
  <2> QED
    BY <1>4, <1>5, <2>1
<1>7. ASSUME NEW s \in T, NEW t \in T, b[s] = b[t] PROVE s = t
  <2>1. PICK k \in K : k = h[t] /\ t \in Part(k)
    BY <1>4
  <2>2. h[s] = k /\ s \in Part(k) /\ n[k][s] = n[k][t]
    BY <1>7, <2>1
  <2>3. \A r, q \in Part(k) : n[k][r] = n[k][q] => r = q
    BY <1>3
  <2> QED
    BY <2>1, <2>2, <2>3
<1>8. \A u \in Units(f) : \E t \in T : b[t] = u
  <2> SUFFICES ASSUME NEW u \in Units(f) PROVE \E t \in T : b[t] = u
    OBVIOUS
  <2>1. PICK k \in K : \E i \in 1 .. f[k] : u = <<k, i>>
    BY <1>5
  <2>2. PICK i \in 1 .. f[k] : u = <<k, i>>
    BY <2>1
  <2>3. PICK t \in Part(k) : n[k][t] = i
    BY <1>3
  <2> QED
    BY <2>2, <2>3
<1> HIDE DEF b
<1>9. b \in Bijection(T, Units(f))
  BY <1>6, <1>7, <1>8, Fun_IsBij
<1>10. ExistsBijection(T, Units(f))
  BY <1>9 DEF ExistsBijection
<1> QED
  BY <1>10, FS_Bijection DEF Weight

------------------------------------------------------------------------------
(* expand_oracle_id: the printings of a card *)

\* DeckLists counts as this module does.
LEMMA ListSets ==
  /\ \A S : Release!Cardinality(S) = Cardinality(S) /\ Debug!Cardinality(S) = Cardinality(S)
  /\ \A f : Release!Sum(f) = Weight(f) /\ Debug!Sum(f) = Weight(f)
<1>1. \A S : Release!Cardinality(S) = Cardinality(S) /\ Debug!Cardinality(S) = Cardinality(S)
  BY DEF Release!Cardinality, Debug!Cardinality, Cardinality
<1> QED
  BY <1>1 DEF Release!Sum, Debug!Sum, Weight, Units

\* What is assumed of the cards and the counts.
LEMMA ListConstants ==
  /\ ColorsOf \in [OracleIds -> SUBSET Colors]
  /\ \A c \in OracleIds : Printings[c] \in Seq([full : BOOLEAN, funny : BOOLEAN])
  /\ MaxCopies \in Nat /\ DeckSize \in Nat \ {0}
  BY ListAssumption DEF Release!ColorsAssumption, Release!PrintingsAssumption,
     Release!CopiesAssumption

\* The printings that are used: the first class that has any.
LEMMA OptionsAre ==
  ASSUME NEW c
  PROVE  Release!Options(c) =
           IF Release!Class(c, TRUE, FALSE) # {} THEN Release!Class(c, TRUE, FALSE)
           ELSE IF Release!Class(c, FALSE, FALSE) # {} THEN Release!Class(c, FALSE, FALSE)
           ELSE IF Release!Class(c, TRUE, TRUE) # {} THEN Release!Class(c, TRUE, TRUE)
           ELSE Release!Class(c, FALSE, TRUE)
<1> DEFINE ranked == <<Release!Class(c, TRUE, FALSE), Release!Class(c, FALSE, FALSE),
                       Release!Class(c, TRUE, TRUE), Release!Class(c, FALSE, TRUE)>>
           some == {i \in 1 .. 4 : ranked[i] # {}}
<1>1. Release!Options(c) = IF some = {} THEN {} ELSE ranked[Release!Min(some)]
  BY DEF Release!Options
<1>2. ASSUME NEW i \in some, \A j \in some : i <= j PROVE Release!Min(some) = i
  <2>1. \A k \in some : (\A j \in some : k <= j) => k = i
    <3>1. some \subseteq Nat
      OBVIOUS
    <3> HIDE DEF some
    <3> QED
      BY <1>2, <3>1
  <2> HIDE DEF some
  <2> QED
    BY <1>2, <2>1 DEF Release!Min
<1>3. \A i : i \in some <=> i \in 1 .. 4 /\ ranked[i] # {}
  OBVIOUS
<1>4. /\ ranked[1] = Release!Class(c, TRUE, FALSE)
      /\ ranked[2] = Release!Class(c, FALSE, FALSE)
      /\ ranked[3] = Release!Class(c, TRUE, TRUE)
      /\ ranked[4] = Release!Class(c, FALSE, TRUE)
  OBVIOUS
<1> HIDE DEF some, ranked
<1>5. CASE ranked[1] # {}
  <2>1. 1 \in some /\ \A j \in some : 1 <= j
    BY <1>3, <1>5
  <2> QED
    BY <1>1, <1>2, <1>4, <1>5, <2>1
<1>6. CASE ranked[1] = {} /\ ranked[2] # {}
  <2>1. 2 \in some /\ \A j \in some : 2 <= j
    BY <1>3, <1>6
  <2> QED
    BY <1>1, <1>2, <1>4, <1>6, <2>1
<1>7. CASE ranked[1] = {} /\ ranked[2] = {} /\ ranked[3] # {}
  <2>1. 3 \in some /\ \A j \in some : 3 <= j
    BY <1>3, <1>7
  <2> QED
    BY <1>1, <1>2, <1>4, <1>7, <2>1
<1>8. CASE ranked[1] = {} /\ ranked[2] = {} /\ ranked[3] = {} /\ ranked[4] # {}
  <2>1. 4 \in some /\ \A j \in some : 4 <= j
    BY <1>3, <1>8
  <2> QED
    BY <1>1, <1>2, <1>4, <1>8, <2>1
<1>9. CASE ranked[1] = {} /\ ranked[2] = {} /\ ranked[3] = {} /\ ranked[4] = {}
  <2>1. some = {}
    BY <1>3, <1>9
  <2> QED
    BY <1>1, <1>4, <1>9, <2>1
<1> QED
  BY <1>5, <1>6, <1>7, <1>8, <1>9

\* They are printings of one kind, and of the best there is.
LEMMA OptionsFacts ==
  ASSUME NEW c \in OracleIds
  PROVE  /\ Release!Options(c) \subseteq DOMAIN Printings[c]
         /\ DOMAIN Printings[c] \subseteq Nat /\ IsFiniteSet(DOMAIN Printings[c])
         /\ \A k \in Release!Options(c), l \in DOMAIN Printings[c] :
              /\ Printings[c][l].full /\ ~Printings[c][l].funny =>
                   Printings[c][k] = Printings[c][l]
              /\ Printings[c][k].funny => Printings[c][l].funny
              /\ Printings[c][k] = Printings[c][l] => l \in Release!Options(c)
<1> DEFINE P == Printings[c]
           C(full, funny) == {k \in DOMAIN P : P[k] = [full |-> full, funny |-> funny]}
<1>1. P \in Seq([full : BOOLEAN, funny : BOOLEAN])
  BY ListConstants
<1>2. DOMAIN P = 1 .. Len(P) /\ Len(P) \in Nat /\ DOMAIN P \subseteq Nat
  BY <1>1
<1>3. IsFiniteSet(DOMAIN P)
  <2>1. 1 \in Int /\ Len(P) \in Int
    BY <1>2
  <2> QED
    BY <1>2, <2>1, FS_Interval
<1>4. \A full, funny : Release!Class(c, full, funny) = C(full, funny)
  BY DEF Release!Class
<1>5. \A k \in DOMAIN P : \E full, funny \in BOOLEAN :
        P[k] = [full |-> full, funny |-> funny]
  <2> SUFFICES ASSUME NEW k \in DOMAIN P
               PROVE  \E full, funny \in BOOLEAN : P[k] = [full |-> full, funny |-> funny]
    OBVIOUS
  <2>1. P[k] \in [full : BOOLEAN, funny : BOOLEAN]
    <3> HIDE DEF P
    <3>1. k \in 1 .. Len(P)
      BY <1>2
    <3> QED
      BY <1>1, <3>1, ElementOfSeq
  <2>2. P[k].full \in BOOLEAN
    BY <2>1
  <2>3. P[k].funny \in BOOLEAN
    BY <2>1
  <2>4. P[k] = [full |-> P[k].full, funny |-> P[k].funny]
    BY <2>1
  <2> QED
    BY <2>2, <2>3, <2>4
<1> DEFINE O == Release!Options(c)
<1>6. \/ O = C(TRUE, FALSE)
      \/ O = C(FALSE, FALSE) /\ C(TRUE, FALSE) = {}
      \/ O = C(TRUE, TRUE) /\ C(TRUE, FALSE) = {} /\ C(FALSE, FALSE) = {}
      \/ O = C(FALSE, TRUE) /\ C(TRUE, FALSE) = {} /\ C(FALSE, FALSE) = {}
  BY <1>4, OptionsAre
<1> HIDE DEF O, P
<1>7. O \subseteq DOMAIN P
  BY <1>6
<1>8. ASSUME NEW k \in O, NEW l \in DOMAIN P
      PROVE  /\ P[l].full /\ ~P[l].funny => P[k] = P[l]
             /\ P[k].funny => P[l].funny
             /\ P[k] = P[l] => l \in O
  <2>1. PICK a \in BOOLEAN : \E b \in BOOLEAN : P[l] = [full |-> a, funny |-> b]
    BY <1>5
  <2>2. PICK b \in BOOLEAN : P[l] = [full |-> a, funny |-> b]
    BY <2>1
  <2>3. P[l].full = a /\ P[l].funny = b /\ l \in C(a, b)
    BY <2>2
  <2>4. ASSUME NEW e \in BOOLEAN, NEW f \in BOOLEAN, O = C(e, f),
               f \/ ~e => C(TRUE, FALSE) = {}, f => C(FALSE, FALSE) = {}
        PROVE  /\ P[l].full /\ ~P[l].funny => P[k] = P[l]
               /\ P[k].funny => P[l].funny
               /\ P[k] = P[l] => l \in O
    <3>1. P[k] = [full |-> e, funny |-> f] /\ P[k].funny = f
      BY <2>4
    <3>2. ASSUME P[l].full, ~P[l].funny PROVE P[k] = P[l]
      <4>1. a = TRUE /\ b = FALSE
        BY <2>3, <3>2
      <4>2. l \in C(TRUE, FALSE)
        BY <2>3, <4>1
      <4>3. e = TRUE /\ f = FALSE
        BY <2>4, <4>2
      <4> QED
        BY <2>2, <3>1, <4>1, <4>3
    <3>3. ASSUME P[k].funny PROVE P[l].funny
      <4>1. f = TRUE
        BY <3>1, <3>3
      <4>2. b # FALSE
        <5> SUFFICES ASSUME b = FALSE PROVE FALSE
          OBVIOUS
        <5>1. a = TRUE \/ a = FALSE
          OBVIOUS
        <5>2. l \in C(TRUE, FALSE) \/ l \in C(FALSE, FALSE)
          BY <2>3, <5>1
        <5> QED
          BY <2>4, <4>1, <5>2
      <4> QED
        BY <2>3, <4>2
    <3>4. P[k] = P[l] => l \in O
      BY <2>4, <3>1
    <3> QED
      BY <3>2, <3>3, <3>4
  <2> QED
    BY <1>6, <2>4
<1> QED
  BY <1>2, <1>3, <1>7, <1>8 DEF O, P

\* Numbers that are counted from the smallest on get all places, each one of its own.
LEMMA PlacesAre ==
  ASSUME NEW O \in SUBSET Nat, IsFiniteSet(O)
  PROVE  LET place == [k \in O |-> Cardinality({x \in O : x < k})]
         IN  place \in Bijection(O, 0 .. Cardinality(O) - 1)
<1> DEFINE m == Cardinality(O)
           B(k) == {x \in O : x < k}
           place == [k \in O |-> Cardinality(B(k))]
<1>1. m \in Nat
  BY FS_CardinalityType
<1>2. \A k \in O : IsFiniteSet(B(k)) /\ Cardinality(B(k)) \in Nat
  BY FS_Subset, FS_CardinalityType
<1>3. ASSUME NEW k \in O PROVE place[k] \in 0 .. m - 1
  <2>1. B(k) \in SUBSET (O \ {k})
    OBVIOUS
  <2>2. IsFiniteSet(O \ {k}) /\ Cardinality(O \ {k}) = m - 1
    BY FS_RemoveElement
  <2>3. Cardinality(B(k)) <= Cardinality(O \ {k})
    BY <2>1, <2>2, FS_Subset
  <2> QED
    BY <1>1, <1>2, <2>2, <2>3
<1>4. ASSUME NEW k \in O, NEW l \in O, k < l PROVE place[k] < place[l]
  <2>0. \A x \in O : x \in Nat
    OBVIOUS
  <2>1. B(k) \in SUBSET (B(l) \ {k}) /\ k \in B(l)
    <3>1. \A x \in O : x < k => x < l /\ x # k
      BY <1>4, <2>0
    <3> QED
      BY <1>4, <3>1
  <2>2. IsFiniteSet(B(l) \ {k}) /\ Cardinality(B(l) \ {k}) = Cardinality(B(l)) - 1
    BY <1>2, <2>1, FS_RemoveElement
  <2>3. Cardinality(B(k)) <= Cardinality(B(l) \ {k})
    BY <2>1, <2>2, FS_Subset
  <2> QED
    BY <1>2, <2>2, <2>3
<1>5. place \in Injection(O, 0 .. m - 1)
  <2>1. \A k, l \in O : place[k] = place[l] => k = l
    <3> SUFFICES ASSUME NEW k \in O, NEW l \in O, k # l PROVE place[k] # place[l]
      OBVIOUS
    <3>1. k < l \/ l < k
      OBVIOUS
    <3>2. place[k] \in Nat /\ place[l] \in Nat
      BY <1>2
    <3> HIDE DEF place
    <3> QED
      BY <1>4, <3>1, <3>2
  <2>2. place \in [O -> 0 .. m - 1]
    BY <1>3
  <2> QED
    BY <2>1, <2>2, Fun_IsInj
<1>6. IsFiniteSet(0 .. m - 1) /\ Cardinality(0 .. m - 1) = m
  <2>1. 0 \in Int /\ m - 1 \in Int
    BY <1>1
  <2>2. /\ IsFiniteSet(0 .. m - 1)
        /\ Cardinality(0 .. m - 1) = IF 0 > m - 1 THEN 0 ELSE m - 1 - 0 + 1
    BY <2>1, FS_Interval
  <2> QED
    BY <1>1, <2>2
<1>7. place \in Surjection(O, 0 .. m - 1)
  BY <1>5, <1>6, FS_Injection
<1> HIDE DEF place
<1>8. place \in Bijection(O, 0 .. m - 1)
  BY <1>5, <1>7 DEF Bijection
<1> QED
  BY <1>8 DEF place, B

\* Dealt out in turn, n copies give no place two more than another.
LEMMA DealtEvenly ==
  ASSUME NEW m \in Nat \ {0}, NEW n \in Nat, NEW a \in 0 .. m - 1, NEW b \in 0 .. m - 1
  PROVE  LET T(x) == {i \in 0 .. n - 1 : i % m = x}
         IN  /\ IsFiniteSet(T(a)) /\ Cardinality(T(a)) \in Nat
             /\ Cardinality(T(a)) <= Cardinality(T(b)) + 1
<1> DEFINE T(x) == {i \in 0 .. n - 1 : i % m = x}
<1>1. IsFiniteSet(0 .. n - 1)
  <2>1. 0 \in Int /\ n - 1 \in Int
    OBVIOUS
  <2> QED
    BY <2>1, FS_Interval
<1>2. IsFiniteSet(T(a)) /\ IsFiniteSet(T(b))
  BY <1>1, FS_Subset
<1>3. Cardinality(T(a)) \in Nat /\ Cardinality(T(b)) \in Nat
  BY <1>2, FS_CardinalityType
<1> DEFINE F == [i \in T(a) \ {a} |-> i - m - a + b]
<1>4. ASSUME NEW i \in T(a) \ {a} PROVE i - m - a + b \in T(b)
  <2>1. i \in 0 .. n - 1 /\ i % m = a /\ i # a
    BY <1>4
  <2>2. PICK q \in Nat : i = m * q + a
    <3>1. i \in Nat
      BY <2>1
    <3>2. \E q \in Nat : i = m * q + (i % m)
      BY <3>1, Divided
    <3> QED
      BY <2>1, <3>2
  <2>3. q # 0
    BY <2>1, <2>2
  <2>4. PICK p \in Nat : q = p + 1
    BY <2>3
  <2>5. i = m * p + m + a
    BY <2>2, <2>4
  <2> DEFINE z == m * p
  <2>6. z \in Nat /\ i = z + m + a
    BY <2>5
  <2>7. (z + b) % m = b
    BY Remainder
  <2> HIDE DEF z
  <2>8. i - m - a + b = z + b /\ z + b \in 0 .. n - 1
    BY <2>1, <2>6
  <2> QED
    BY <2>7, <2>8
<1>5. F \in Injection(T(a) \ {a}, T(b))
  <2>1. F \in [T(a) \ {a} -> T(b)]
    BY <1>4
  <2>2. \A i, j \in T(a) \ {a} : F[i] = F[j] => i = j
    OBVIOUS
  <2> QED
    BY <2>1, <2>2, Fun_IsInj
<1>6. Cardinality(T(a) \ {a}) <= Cardinality(T(b))
  BY <1>2, <1>5, FS_Injection
<1>7. Cardinality(T(a)) <= Cardinality(T(a) \ {a}) + 1
  <2>1. CASE a \in T(a)
    <3>1. Cardinality(T(a) \ {a}) = Cardinality(T(a)) - 1
      BY <1>2, <2>1, FS_RemoveElement
    <3> QED
      BY <1>3, <3>1
  <2>2. CASE a \notin T(a)
    <3>1. T(a) \ {a} = T(a)
      BY <2>2
    <3> QED
      BY <1>3, <3>1
  <2> QED
    BY <2>1, <2>2
<1>8. Cardinality(T(a) \ {a}) \in Nat
  BY <1>2, FS_Difference, FS_CardinalityType
<1> QED
  BY <1>2, <1>3, <1>6, <1>7, <1>8

\* The copies of each printing of a card.
LEMMA ExpandedIs ==
  ASSUME NEW c \in OracleIds, NEW n \in Nat
  PROVE  LET O == Release!Options(c)
             place == [k \in O |-> Cardinality({x \in O : x < k})]
             m == Cardinality(O)
         IN  Release!Expanded(c, n) =
               [k \in DOMAIN Printings[c] |->
                  IF k \in O THEN Cardinality({i \in 0 .. n - 1 : i % m = place[k]}) ELSE 0]
  BY ListSets DEF Release!Expanded

\* All copies are dealt out, evenly, to the printings that are used.
LEMMA ExpandedFacts ==
  ASSUME NEW c \in OracleIds, NEW n \in Nat, Release!Options(c) # {}
  PROVE  LET f == Release!Expanded(c, n)
         IN  /\ f \in [DOMAIN Printings[c] -> Nat] /\ Weight(f) = n
             /\ \A k \in DOMAIN Printings[c] : f[k] > 0 => k \in Release!Options(c)
             /\ \A k, l \in Release!Options(c) : f[k] <= f[l] + 1
<1> DEFINE O == Release!Options(c)
           place == [k \in O |-> Cardinality({x \in O : x < k})]
           m == Cardinality(O)
           K == DOMAIN Printings[c]
           f == Release!Expanded(c, n)
           T(x) == {i \in 0 .. n - 1 : i % m = x}
<1>1. O \in SUBSET K /\ O \in SUBSET Nat /\ IsFiniteSet(K) /\ IsFiniteSet(O)
  BY OptionsFacts, FS_Subset
<1>2. m \in Nat \ {0}
  BY <1>1, FS_EmptySet, FS_CardinalityType
<1>3. place \in Bijection(O, 0 .. m - 1)
  BY <1>1, PlacesAre
<1>4. f = [k \in K |-> IF k \in O THEN Cardinality(T(place[k])) ELSE 0]
  BY ExpandedIs
<1> HIDE DEF O, place, m, K, f
<1>5. /\ place \in [O -> 0 .. m - 1] /\ \A x \in 0 .. m - 1 : \E k \in O : place[k] = x
      /\ \A k, l \in O : place[k] = place[l] => k = l
  BY <1>3 DEF Bijection, Injection, Surjection, IsInjective
<1>6. \A a, b \in 0 .. m - 1 : /\ Cardinality(T(a)) \in Nat
                               /\ Cardinality(T(a)) <= Cardinality(T(b)) + 1
  BY <1>2, DealtEvenly
<1>7. f \in [K -> Nat]
  <2>1. \A k \in O : Cardinality(T(place[k])) \in Nat
    BY <1>5, <1>6
  <2> HIDE DEF T
  <2> QED
    BY <1>4, <2>1
<1> DEFINE h == [i \in 0 .. n - 1 |-> CHOOSE k \in O : place[k] = i % m]
<1>8. \A i \in 0 .. n - 1 : h[i] \in O /\ place[h[i]] = i % m
  <2> SUFFICES ASSUME NEW i \in 0 .. n - 1 PROVE h[i] \in O /\ place[h[i]] = i % m
    OBVIOUS
  <2>1. i % m \in 0 .. m - 1
    BY <1>2, Divided
  <2>2. \E k \in O : place[k] = i % m
    BY <1>5, <2>1
  <2> QED
    BY <2>2
<1>9. h \in [0 .. n - 1 -> K]
  BY <1>1, <1>8
<1> HIDE DEF h
<1>10. ASSUME NEW k \in K PROVE f[k] = Cardinality({i \in 0 .. n - 1 : h[i] = k})
  <2>1. CASE k \in O
    <3>1. \A i \in 0 .. n - 1 : h[i] = k <=> i % m = place[k]
      BY <1>5, <1>8, <2>1
    <3>2. {i \in 0 .. n - 1 : h[i] = k} = T(place[k])
      BY <3>1
    <3> QED
      BY <1>4, <2>1, <3>2
  <2>2. CASE k \notin O
    <3>1. {i \in 0 .. n - 1 : h[i] = k} = {}
      BY <1>8, <2>2
    <3> QED
      BY <1>4, <2>2, <3>1, FS_EmptySet
  <2> QED
    BY <2>1, <2>2
<1>11. Weight(f) = n
  <2>1. 0 \in Int /\ n - 1 \in Int
    OBVIOUS
  <2>2. /\ IsFiniteSet(0 .. n - 1)
        /\ Cardinality(0 .. n - 1) = IF 0 > n - 1 THEN 0 ELSE n - 1 - 0 + 1
    BY <2>1, FS_Interval
  <2>3. Cardinality(0 .. n - 1) = n
    BY <2>2
  <2> DEFINE S == 0 .. n - 1
  <2>4. /\ IsFiniteSet(S) /\ h \in [S -> K]
        /\ \A k \in K : f[k] = Cardinality({i \in S : h[i] = k})
    BY <1>9, <1>10, <2>2
  <2>5. Cardinality(S) = n
    BY <2>3
  <2> HIDE DEF S
  <2>6. Weight(f) = Cardinality(S)
    BY <1>7, <2>4, WeightOfParts
  <2> QED
    BY <2>5, <2>6
<1>12. \A k \in K : f[k] > 0 => k \in O
  BY <1>4
<1>13. ASSUME NEW k \in O, NEW l \in O PROVE f[k] <= f[l] + 1
  <2>1. f[k] = Cardinality(T(place[k])) /\ f[l] = Cardinality(T(place[l]))
    BY <1>1, <1>4, <1>13
  <2>2. place[k] \in 0 .. m - 1 /\ place[l] \in 0 .. m - 1
    BY <1>5
  <2> HIDE DEF T
  <2> QED
    BY <1>6, <2>1, <2>2
<1> QED
  BY <1>7, <1>11, <1>12, <1>13 DEF O, K, f

------------------------------------------------------------------------------
(* The rows of a list *)

\* Row r counts for card c on a board.
Fits(r, s, board, c) ==
  /\ r.card = c /\ ~r.commander
  /\ \/ r.board = board
     \/ s = "archidekt" /\ board = "main" /\ r.board = "other"

Count(r) == IF r.count = Bad THEN 0 ELSE r.count

\* What a list asks for, with the list as a parameter.
RowsIn(rows, s, board, c) == {i \in DOMAIN rows : Fits(rows[i], s, board, c)}
TotalIn(rows, s, board, c) == Weight([i \in RowsIn(rows, s, board, c) |-> Count(rows[i])])
WantedIn(rows, s, board, c) ==
  IF RowsIn(rows, s, board, c) = {} THEN 0
  ELSE IF s = "tappedout" THEN TotalIn(rows, s, board, c) % (MaxCopies + 1)
  ELSE Count(rows[Release!Max(RowsIn(rows, s, board, c))])

\* DeckLists asks for the same, whichever build it is.
LEMMA WantedIs ==
  ASSUME NEW board, NEW c
  PROVE  /\ Release!Total(board, c) = TotalIn(list, site, board, c)
         /\ Debug!Total(board, c) = TotalIn(list, site, board, c)
         /\ Release!Wanted(board, c) = WantedIn(list, site, board, c)
<1>1. /\ Release!RowsFor(board, c) = RowsIn(list, site, board, c)
      /\ Debug!RowsFor(board, c) = RowsIn(list, site, board, c)
  <2>1. \A i \in DOMAIN list :
          /\ i \in Release!RowsFor(board, c) <=> Fits(list[i], site, board, c)
          /\ i \in Debug!RowsFor(board, c) <=> Fits(list[i], site, board, c)
    BY DEF Release!RowsFor, Debug!RowsFor, Fits
  <2>2. /\ Release!RowsFor(board, c) \subseteq DOMAIN list
        /\ Debug!RowsFor(board, c) \subseteq DOMAIN list
    BY DEF Release!RowsFor, Debug!RowsFor
  <2> QED
    BY <2>1, <2>2 DEF RowsIn
<1>2. /\ \A i : Release!CountIn(i) = Count(list[i])
      /\ \A i : Debug!CountIn(i) = Count(list[i])
  BY DEF Release!CountIn, Debug!CountIn, Count
<1>3. /\ Release!Total(board, c) = TotalIn(list, site, board, c)
      /\ Debug!Total(board, c) = TotalIn(list, site, board, c)
  BY <1>1, <1>2, ListSets DEF Release!Total, Debug!Total, TotalIn
<1> QED
  BY <1>1, <1>2, <1>3 DEF Release!Wanted, WantedIn

\* What the rows count is a number.
LEMMA RowsFacts ==
  ASSUME NEW rows \in Seq(Release!Rows), NEW s, NEW board, NEW c
  PROVE  LET R == RowsIn(rows, s, board, c)
         IN  /\ Len(rows) \in Nat /\ DOMAIN rows = 1 .. Len(rows)
             /\ R \subseteq DOMAIN rows /\ IsFiniteSet(R)
             /\ [i \in R |-> Count(rows[i])] \in [R -> Nat]
             /\ TotalIn(rows, s, board, c) \in Nat
<1> DEFINE R == RowsIn(rows, s, board, c)
<1>1. Len(rows) \in Nat /\ DOMAIN rows = 1 .. Len(rows)
  OBVIOUS
<1>2. R \subseteq DOMAIN rows
  BY DEF RowsIn
<1>3. IsFiniteSet(DOMAIN rows)
  <2>1. 1 \in Int /\ Len(rows) \in Int
    BY <1>1
  <2> QED
    BY <1>1, <2>1, FS_Interval
<1>4. IsFiniteSet(R)
  BY <1>2, <1>3, FS_Subset
<1>5. \A i \in DOMAIN rows : Count(rows[i]) \in Nat
  <2> SUFFICES ASSUME NEW i \in DOMAIN rows PROVE Count(rows[i]) \in Nat
    OBVIOUS
  <2>1. rows[i] \in Release!Rows
    BY <1>1, ElementOfSeq
  <2>2. rows[i].count \in 0 .. MaxCopies \cup {Bad}
    BY <2>1 DEF Release!Rows
  <2> QED
    BY <2>2, ListConstants DEF Count
<1> HIDE DEF R
<1>6. [i \in R |-> Count(rows[i])] \in [R -> Nat]
  BY <1>2, <1>5
<1>7. Weight([i \in R |-> Count(rows[i])]) \in Nat
  BY <1>4, <1>6, WeightType
<1> QED
  BY <1>1, <1>2, <1>4, <1>6, <1>7 DEF R, TotalIn

\* One row more.
LEMMA RowsAfter ==
  ASSUME NEW rows \in Seq(Release!Rows), NEW r \in Release!Rows, NEW s, NEW board, NEW c
  PROVE  LET more == Append(rows, r)
             R == RowsIn(rows, s, board, c)
             n == Len(rows) + 1
         IN  /\ RowsIn(more, s, board, c) = IF Fits(r, s, board, c) THEN R \cup {n} ELSE R
             /\ n \notin R /\ \A i \in R : i <= n
             /\ \A i \in R : more[i] = rows[i]
             /\ more[n] = r
<1> DEFINE more == Append(rows, r)
           R == RowsIn(rows, s, board, c)
           n == Len(rows) + 1
<1>1. /\ Len(rows) \in Nat /\ DOMAIN rows = 1 .. Len(rows)
      /\ R \subseteq DOMAIN rows
  BY RowsFacts
<1>2. /\ DOMAIN more = DOMAIN rows \cup {n}
      /\ \A i \in DOMAIN rows : more[i] = rows[i]
      /\ more[n] = r
  BY <1>1, AppendProperties
<1>3. n \notin DOMAIN rows /\ \A i \in DOMAIN rows : i <= n
  BY <1>1
<1>4. RowsIn(more, s, board, c) = IF Fits(r, s, board, c) THEN R \cup {n} ELSE R
  <2> HIDE DEF more, n
  <2> QED
    BY <1>2, <1>3 DEF RowsIn
<1> QED
  BY <1>1, <1>2, <1>3, <1>4

\* A largest number there is.
LEMMA Largest ==
  ASSUME NEW R \in SUBSET Nat, IsFiniteSet(R), R # {}
  PROVE  \E x \in R : \A y \in R : x >= y
<1> DEFINE B(k) == {x \in R : x < k}
           place == [k \in R |-> Cardinality(B(k))]
           m == Cardinality(R)
<1>1. m \in Nat \ {0}
  BY FS_EmptySet, FS_CardinalityType
<1>2. place \in Bijection(R, 0 .. m - 1)
  BY PlacesAre
<1>3. PICK x \in R : place[x] = m - 1
  <2>1. m - 1 \in 0 .. m - 1
    BY <1>1
  <2> QED
    BY <1>2, <2>1 DEF Bijection, Surjection
<1>4. B(x) \in SUBSET (R \ {x})
  OBVIOUS
<1>5. IsFiniteSet(R \ {x}) /\ Cardinality(R \ {x}) = m - 1
  BY FS_RemoveElement
<1>6. Cardinality(B(x)) = m - 1
  BY <1>3
<1>7. B(x) = R \ {x}
  BY <1>4, <1>5, <1>6, FS_Subset
<1>8. \A y \in R : y \in B(x) \/ y = x
  BY <1>7
<1> QED
  BY <1>8

\* What the list asks for after one row more.
LEMMA WantedAfter ==
  ASSUME NEW rows \in Seq(Release!Rows), NEW r \in Release!Rows, NEW s, NEW board, NEW c
  PROVE  LET more == Append(rows, r)
         IN  /\ ~Fits(r, s, board, c) =>
                  /\ WantedIn(more, s, board, c) = WantedIn(rows, s, board, c)
                  /\ TotalIn(more, s, board, c) = TotalIn(rows, s, board, c)
             /\ Fits(r, s, board, c) =>
                  /\ TotalIn(more, s, board, c) = TotalIn(rows, s, board, c) + Count(r)
                  /\ s # "tappedout" => WantedIn(more, s, board, c) = Count(r)
                  /\ s = "tappedout" =>
                       WantedIn(more, s, board, c)
                         = (WantedIn(rows, s, board, c) + Count(r)) % (MaxCopies + 1)
<1> DEFINE more == Append(rows, r)
           R == RowsIn(rows, s, board, c)
           n == Len(rows) + 1
           Q == RowsIn(more, s, board, c)
           f == [i \in R |-> Count(rows[i])]
           h == [i \in Q |-> Count(more[i])]
           total == TotalIn(rows, s, board, c)
           m == MaxCopies + 1
<1>0. m \in Nat \ {0}
  BY ListConstants
<1>1. /\ R \subseteq DOMAIN rows /\ IsFiniteSet(R) /\ f \in [R -> Nat]
      /\ total \in Nat
      /\ Len(rows) \in Nat /\ DOMAIN rows = 1 .. Len(rows)
  BY RowsFacts
<1>2. /\ Q = IF Fits(r, s, board, c) THEN R \cup {n} ELSE R
      /\ n \notin R /\ \A i \in R : i <= n
      /\ \A i \in R : more[i] = rows[i]
      /\ more[n] = r
  <2>1. Q = IF Fits(r, s, board, c) THEN R \cup {n} ELSE R
    BY RowsAfter
  <2>2. n \notin R /\ \A i \in R : i <= n
    BY RowsAfter
  <2>3. \A i \in R : more[i] = rows[i]
    <3>1. \A i \in DOMAIN rows : more[i] = rows[i]
      BY <1>1, AppendProperties
    <3> QED
      BY <1>1, <3>1
  <2>4. more[n] = r
    BY RowsAfter
  <2> QED
    BY <2>1, <2>2, <2>3, <2>4
<1>3. TotalIn(more, s, board, c) = Weight(h) /\ total = Weight(f)
  BY DEF TotalIn
<1>4. Count(r) \in Nat
  <2>1. r.count \in 0 .. MaxCopies \cup {Bad}
    BY DEF Release!Rows
  <2> QED
    BY <2>1, ListConstants DEF Count
<1>5. /\ WantedIn(more, s, board, c) =
           IF Q = {} THEN 0
           ELSE IF s = "tappedout" THEN TotalIn(more, s, board, c) % m
           ELSE Count(more[Release!Max(Q)])
      /\ WantedIn(rows, s, board, c) =
           IF R = {} THEN 0
           ELSE IF s = "tappedout" THEN total % m ELSE Count(rows[Release!Max(R)])
  BY DEF WantedIn
<1> HIDE DEF more, R, n, Q, f, h, total, m
<1>6. CASE ~Fits(r, s, board, c)
  <2>1. Q = R
    BY <1>2, <1>6
  <2>2. h = f
    BY <1>2, <2>1 DEF f, h
  <2>3. TotalIn(more, s, board, c) = total
    BY <1>3, <2>2
  <2>4. ASSUME R # {} PROVE more[Release!Max(R)] = rows[Release!Max(R)]
    <3>1. R \in SUBSET Nat
      BY <1>1
    <3>2. \E x \in R : \A y \in R : x >= y
      BY <1>1, <2>4, <3>1, Largest
    <3>3. Release!Max(R) \in R
      BY <3>2 DEF Release!Max
    <3> QED
      BY <1>2, <3>3
  <2>5. WantedIn(more, s, board, c) = WantedIn(rows, s, board, c)
    BY <1>5, <2>1, <2>3, <2>4
  <2> QED
    BY <1>6, <2>3, <2>5 DEF more, total
<1>7. CASE Fits(r, s, board, c)
  <2>1. Q = R \cup {n}
    BY <1>2, <1>7
  <2>2. /\ h \in [R \cup {n} -> Nat] /\ \A i \in R : h[i] = f[i]
        /\ h[n] = Count(r)
    BY <1>1, <1>2, <1>4, <2>1 DEF f, h
  <2>3. Weight(h) = Weight(f) + Count(r)
    <3>1. n \notin R
      BY <1>2
    <3>2. Weight(h) = Weight(f) + h[n]
      BY <1>1, <2>2, <3>1, WeightGrows
    <3> QED
      BY <2>2, <3>2
  <2>4. TotalIn(more, s, board, c) = total + Count(r)
    BY <1>3, <2>3
  <2>5. Release!Max(Q) = n
    <3>1. n \in Nat /\ Q \subseteq Nat
      BY <1>1, <2>1 DEF n
    <3>2. n \in Q /\ \A i \in Q : n >= i
      BY <1>1, <1>2, <2>1, <3>1
    <3>3. \A x \in Q : (\A y \in Q : x >= y) => x = n
      BY <3>1, <3>2
    <3> QED
      BY <3>2, <3>3 DEF Release!Max
  <2>6. WantedIn(more, s, board, c) = IF s = "tappedout" THEN (total + Count(r)) % m
                                     ELSE Count(r)
    BY <1>2, <1>5, <2>1, <2>4, <2>5
  <2>7. ASSUME s = "tappedout" PROVE WantedIn(rows, s, board, c) = total % m
    <3>1. CASE R # {}
      BY <1>5, <2>7, <3>1
    <3>2. CASE R = {}
      <4>1. Weight(f) = 0
        BY <1>1, <3>2, WeightOfZeros
      <4>2. 0 % m = 0
        BY <1>0, SmallRemainder
      <4> QED
        BY <1>3, <1>5, <3>2, <4>1, <4>2
    <3> QED
      BY <3>1, <3>2
  <2>8. ASSUME s = "tappedout"
        PROVE  WantedIn(more, s, board, c) = (WantedIn(rows, s, board, c) + Count(r)) % m
    <3>1. ((total % m) + Count(r)) % m = (total + Count(r)) % m
      BY <1>0, <1>1, <1>4, RemainderOfSum
    <3> QED
      BY <2>6, <2>7, <2>8, <3>1
  <2> QED
    BY <1>7, <2>4, <2>6, <2>8 DEF more, total, m
<1> QED
  BY <1>6, <1>7 DEF more

------------------------------------------------------------------------------
(* Piles and entries *)

\* A pile has finitely many cards, and a count for each.
IsPile(f) == /\ DOMAIN f \subseteq OracleIds /\ IsFiniteSet(DOMAIN f)
             /\ f \in [DOMAIN f -> 0 .. MaxCopies]

\* Counts of cards.
Counts(f) == DOMAIN f \subseteq OracleIds /\ f \in [DOMAIN f -> Nat]

Held(pile, c) == IF c \in DOMAIN pile THEN pile[c] ELSE 0

\* The copies of one card's printings among the entries of a pile.
ShareOf(e, c) == [k \in DOMAIN Printings[c] |-> e[<<c, k>>]]
SavedIn(of, p, c) == Weight(ShareOf(of[p], c))

SpreadIn(of) == \A p \in Release!PileNames, c \in OracleIds :
  \A k, l \in DOMAIN Printings[c] :
    of[p][<<c, k>>] > 0 =>
      /\ Printings[c][l].full /\ ~Printings[c][l].funny => Printings[c][k] = Printings[c][l]
      /\ Printings[c][k].funny => Printings[c][l].funny
      /\ Printings[c][k] = Printings[c][l] => of[p][<<c, k>>] <= of[p][<<c, l>>] + 1

\* A pile's card is spread over its best printings.
LEMMA PileExpanded ==
  ASSUME NEW pile, Counts(pile), NEW c \in OracleIds,
         c \in DOMAIN pile => Release!Options(c) # {}
  PROVE  LET e == Release!ExpandPile(pile)
         IN  /\ Weight(ShareOf(e, c)) = Held(pile, c)
             /\ \A k \in DOMAIN Printings[c] : /\ e[<<c, k>>] \in Nat
                                               /\ e[<<c, k>>] > 0 => k \in Release!Options(c)
             /\ \A k, l \in Release!Options(c) : e[<<c, k>>] <= e[<<c, l>>] + 1
<1> DEFINE e == Release!ExpandPile(pile)
           K == DOMAIN Printings[c]
           f == ShareOf(e, c)
           O == Release!Options(c)
<1>1. \A k \in K : <<c, k>> \in Release!Printed
  BY DEF Release!Printed
<1>2. \A k \in K :
        e[<<c, k>>] = IF c \in DOMAIN pile THEN Release!Expanded(c, pile[c])[k] ELSE 0
  BY <1>1 DEF Release!ExpandPile
<1>3. O \subseteq K
  BY OptionsFacts
<1>4. CASE c \in DOMAIN pile
  <2> DEFINE g == Release!Expanded(c, pile[c])
  <2>1. pile[c] \in Nat
    BY <1>4, ListConstants DEF Counts
  <2>2. /\ g \in [K -> Nat] /\ Weight(g) = pile[c]
        /\ \A k \in K : g[k] > 0 => k \in O
        /\ \A k, l \in O : g[k] <= g[l] + 1
    BY <1>4, <2>1, ExpandedFacts
  <2> HIDE DEF e, g, O, K
  <2>3. f = g
    BY <1>2, <1>4, <2>2 DEF g, K, ShareOf
  <2>4. \A k \in K : e[<<c, k>>] = g[k]
    BY <1>2, <1>4 DEF g
  <2>5. Weight(f) = Held(pile, c)
    BY <1>4, <2>2, <2>3 DEF Held
  <2> QED
    BY <1>3, <2>2, <2>4, <2>5 DEF e, O, K
<1>5. CASE c \notin DOMAIN pile
  <2>1. \A k \in K : e[<<c, k>>] = 0
    BY <1>2, <1>5
  <2> HIDE DEF e, O, K
  <2>2. f \in [K -> Nat] /\ \A k \in K : f[k] = 0
    BY <2>1 DEF K, ShareOf
  <2>3. Weight(f) = Held(pile, c)
    <3>1. Weight(f) = 0
      BY <2>2, WeightOfZeros
    <3> QED
      BY <1>5, <3>1 DEF Held
  <2> QED
    BY <1>3, <2>1, <2>3 DEF e, O, K
<1> QED
  BY <1>4, <1>5

\* What save_cards saves of three piles.
LEMMA PilesExpanded ==
  ASSUME NEW c1, NEW c2, NEW c3, NEW of,
         Counts(c1), Counts(c2), Counts(c3),
         \A c \in DOMAIN c1 \cup DOMAIN c2 \cup DOMAIN c3 : Release!Options(c) # {},
         of = [p \in Release!PileNames |->
                CASE p = "commander" -> Release!ExpandPile(c1)
                  [] p = "main_deck" -> Release!ExpandPile(c2)
                  [] p = "sideboard" -> Release!ExpandPile(c3)]
  PROVE  /\ \A c \in OracleIds : /\ SavedIn(of, "commander", c) = Held(c1, c)
                                 /\ SavedIn(of, "main_deck", c) = Held(c2, c)
                                 /\ SavedIn(of, "sideboard", c) = Held(c3, c)
         /\ SpreadIn(of)
<1>1. /\ of["commander"] = Release!ExpandPile(c1)
      /\ of["main_deck"] = Release!ExpandPile(c2)
      /\ of["sideboard"] = Release!ExpandPile(c3)
  BY DEF Release!PileNames
<1>2. ASSUME NEW c \in OracleIds
      PROVE  /\ SavedIn(of, "commander", c) = Held(c1, c)
             /\ SavedIn(of, "main_deck", c) = Held(c2, c)
             /\ SavedIn(of, "sideboard", c) = Held(c3, c)
  <2>1. Weight(ShareOf(Release!ExpandPile(c1), c)) = Held(c1, c)
    BY PileExpanded
  <2>2. Weight(ShareOf(Release!ExpandPile(c2), c)) = Held(c2, c)
    BY PileExpanded
  <2>3. Weight(ShareOf(Release!ExpandPile(c3), c)) = Held(c3, c)
    BY PileExpanded
  <2>4. SavedIn(of, "commander", c) = Held(c1, c)
    BY <1>1, <2>1 DEF SavedIn
  <2>5. SavedIn(of, "main_deck", c) = Held(c2, c)
    BY <1>1, <2>2 DEF SavedIn
  <2>6. SavedIn(of, "sideboard", c) = Held(c3, c)
    BY <1>1, <2>3 DEF SavedIn
  <2> QED
    BY <2>4, <2>5, <2>6
<1>3. ASSUME NEW p \in Release!PileNames, NEW c \in OracleIds,
             NEW k \in DOMAIN Printings[c], NEW l \in DOMAIN Printings[c],
             of[p][<<c, k>>] > 0
      PROVE  /\ Printings[c][l].full /\ ~Printings[c][l].funny =>
                  Printings[c][k] = Printings[c][l]
             /\ Printings[c][k].funny => Printings[c][l].funny
             /\ Printings[c][k] = Printings[c][l] => of[p][<<c, k>>] <= of[p][<<c, l>>] + 1
  <2>1. PICK pile : /\ of[p] = Release!ExpandPile(pile) /\ Counts(pile)
                    /\ c \in DOMAIN pile => Release!Options(c) # {}
    <3>1. p = "commander" \/ p = "main_deck" \/ p = "sideboard"
      BY DEF Release!PileNames
    <3> QED
      BY <1>1, <3>1
  <2>2. /\ k \in Release!Options(c)
        /\ l \in Release!Options(c) => of[p][<<c, k>>] <= of[p][<<c, l>>] + 1
    <3> DEFINE e == Release!ExpandPile(pile)
    <3>1. /\ e[<<c, k>>] > 0 => k \in Release!Options(c)
          /\ k \in Release!Options(c) /\ l \in Release!Options(c)
               => e[<<c, k>>] <= e[<<c, l>>] + 1
      BY <2>1, PileExpanded
    <3> HIDE DEF e
    <3> QED
      BY <1>3, <2>1, <3>1 DEF e
  <2> QED
    BY <2>2, OptionsFacts
<1> QED
  BY <1>2, <1>3 DEF SpreadIn

------------------------------------------------------------------------------
(* The invariant of the list *)

ListTypes ==
  /\ site \in {"deckbox", "tappedout", "archidekt"}
  /\ list \in Seq(Release!Rows)
  /\ commanders \subseteq OracleIds /\ IsFiniteSet(commanders)
  /\ IsPile(main) /\ IsPile(side)
  /\ reading \in {"rows", "extract", "expand", "done", "failed"}
  /\ reading = "extract" => site = "deckbox"
  /\ reading \in {"rows", "extract"} /\ site = "deckbox" => commanders = {}

\* The piles hold what the rows read so far ask for ...
CopiesInv == reading # "failed" => \A c \in OracleIds :
  /\ Held(side, c) = WantedIn(list, site, "side", c)
  /\ Held(main, c) + (IF site = "deckbox" /\ c \in commanders THEN 1 ELSE 0)
       = WantedIn(list, site, "main", c)

\* ... and where nothing wraps, TappedOut's rows really add up.
ExactInv == stage = "debug" /\ site = "tappedout" /\ reading # "failed" =>
  \A c \in OracleIds : /\ Held(main, c) = TotalIn(list, site, "main", c)
                       /\ Held(side, c) = TotalIn(list, site, "side", c)

\* The commanders that were dug out of a list fit its deck.
FitInv == site = "deckbox" /\ reading \in {"expand", "done"} => \A c \in commanders :
  /\ c \notin DOMAIN main
  /\ Weight(main) + Cardinality(commanders) = DeckSize
  /\ \A d \in DOMAIN main \cup commanders : d \in Legal /\ ColorsOf[d] \subseteq ColorsOf[c]

\* What is saved is what the piles held.
SavedInv == reading = "done" =>
  /\ \A c \in OracleIds : /\ SavedIn(entries, "commander", c) = IF c \in commanders THEN 1 ELSE 0
                          /\ SavedIn(entries, "main_deck", c) = Held(main, c)
                          /\ SavedIn(entries, "sideboard", c) = Held(side, c)
  /\ SpreadIn(entries)

ListInv == ListTypes /\ CopiesInv /\ ExactInv /\ FitInv /\ SavedInv

\* A pile with one card's count written over.
LEMMA InsertFacts ==
  ASSUME NEW pile, IsPile(pile), NEW x \in OracleIds, NEW n \in 0 .. MaxCopies
  PROVE  LET more == Release!Insert(pile, x, n)
         IN  /\ IsPile(more) /\ Held(more, x) = n
             /\ \A c : c # x => Held(more, c) = Held(pile, c)
<1> DEFINE more == Release!Insert(pile, x, n)
<1>1. more = [c \in DOMAIN pile \cup {x} |-> IF c = x THEN n ELSE pile[c]]
  BY DEF Release!Insert
<1> HIDE DEF more
<1>2. DOMAIN more = DOMAIN pile \cup {x} /\ IsFiniteSet(DOMAIN more)
  BY <1>1, FS_AddElement DEF IsPile
<1>3. IsPile(more)
  BY <1>1, <1>2 DEF IsPile
<1> QED
  BY <1>1, <1>2, <1>3 DEF Held, more

\* Held counts are counts.
LEMMA HeldType ==
  ASSUME NEW pile, IsPile(pile), NEW c PROVE Held(pile, c) \in 0 .. MaxCopies
  BY ListConstants DEF IsPile, Held

\* What a row does to the piles, whatever the site: it is a commander, or for no board,
\* or one pile has its card's count written over.
LEMMA RowStep ==
  ASSUME ListInv, NEW r \in Release!Rows,
         Release!DeckboxRow(r) \/ Release!TappedOutRow(r) \/ Release!ArchidektRow(r),
         UNCHANGED stage, reading' # "failed",
         stage = "debug" /\ site = "tappedout" /\ ~r.commander /\ r.board # "other" =>
           Held(IF r.board = "main" THEN main ELSE side, r.card) + r.count <= MaxCopies
  PROVE  ListInv'
<1>1. /\ list \in Seq(Release!Rows) /\ commanders \subseteq OracleIds
      /\ IsFiniteSet(commanders) /\ IsPile(main) /\ IsPile(side)
      /\ site \in {"deckbox", "tappedout", "archidekt"}
  BY DEF ListInv, ListTypes
<1>2. /\ reading = "rows" /\ reading' = "rows" /\ list' = Append(list, r)
      /\ UNCHANGED <<site, entries, stage>>
  BY DEF Release!DeckboxRow, Release!TappedOutRow, Release!ArchidektRow, Release!Read
<1>3. r.card \in OracleIds /\ r.count \in 0 .. MaxCopies \cup {Bad}
      /\ r.commander \in BOOLEAN /\ r.board \in {"main", "side", "other"}
  BY DEF Release!Rows
<1>4. /\ r.commander => r.board = "main"
      /\ Count(r) \in 0 .. MaxCopies
      /\ site # "deckbox" => r.count # Bad /\ Count(r) = r.count
  BY <1>3, ListConstants DEF Release!Rows, Release!DeckboxRow, Release!TappedOutRow,
     Release!ArchidektRow, Count
<1>5. list' \in Seq(Release!Rows)
  BY <1>1, <1>2, AppendProperties
<1> DEFINE wants(b, c) == WantedIn(list, site, b, c)
           wants2(b, c) == WantedIn(list', site', b, c)
           total(b, c) == TotalIn(list, site, b, c)
           total2(b, c) == TotalIn(list', site', b, c)
           m == MaxCopies + 1
<1>6. \A b, c : /\ ~Fits(r, site, b, c) => /\ wants2(b, c) = wants(b, c)
                                           /\ total2(b, c) = total(b, c)
                /\ Fits(r, site, b, c) =>
                     /\ total2(b, c) = total(b, c) + Count(r)
                     /\ site # "tappedout" => wants2(b, c) = Count(r)
                     /\ site = "tappedout" => wants2(b, c) = (wants(b, c) + Count(r)) % m
  <2> SUFFICES ASSUME NEW b, NEW c
               PROVE  /\ ~Fits(r, site, b, c) => /\ wants2(b, c) = wants(b, c)
                                                 /\ total2(b, c) = total(b, c)
                      /\ Fits(r, site, b, c) =>
                           /\ total2(b, c) = total(b, c) + Count(r)
                           /\ site # "tappedout" => wants2(b, c) = Count(r)
                           /\ site = "tappedout" =>
                                wants2(b, c) = (wants(b, c) + Count(r)) % m
    OBVIOUS
  <2>1. list' = Append(list, r) /\ site' = site
    BY <1>2
  <2> QED
    BY <1>1, <2>1, WantedAfter
<1>7. \A c \in OracleIds :
        /\ Held(side, c) = wants("side", c)
        /\ Held(main, c) + (IF site = "deckbox" /\ c \in commanders THEN 1 ELSE 0)
             = wants("main", c)
  BY <1>2 DEF ListInv, CopiesInv
<1>8. stage = "debug" /\ site = "tappedout" =>
        \A c \in OracleIds : /\ Held(main, c) = total("main", c)
                             /\ Held(side, c) = total("side", c)
  BY <1>2 DEF ListInv, ExactInv
<1>9. site = "deckbox" => commanders = {} /\ UNCHANGED commanders
  BY <1>2 DEF ListInv, ListTypes, Release!DeckboxRow, Release!TappedOutRow, Release!ArchidektRow
\* board the row is for, and what is written there
<1> DEFINE b0 == IF site = "archidekt" /\ r.board = "other" THEN "main" ELSE r.board
           pile0 == IF b0 = "main" THEN main ELSE side
           n0 == IF site = "tappedout" THEN (Held(pile0, r.card) + Count(r)) % m ELSE Count(r)
<1>10. \A b \in {"main", "side"} : \A c :
         Fits(r, site, b, c) <=> r.card = c /\ ~r.commander /\ b = b0
  BY <1>1, <1>3 DEF Fits
<1>11. \/ /\ r.commander \/ b0 = "other"
          /\ UNCHANGED <<main, side>>
          /\ commanders' \in {commanders, commanders \cup {r.card}}
       \/ /\ ~r.commander /\ b0 = "main" /\ UNCHANGED <<commanders, side>>
          /\ main' = Release!Insert(main, r.card, n0)
       \/ /\ ~r.commander /\ b0 = "side" /\ UNCHANGED <<commanders, main>>
          /\ side' = Release!Insert(side, r.card, n0)
  <2>1. CASE Release!DeckboxRow(r)
    BY <1>2, <1>3, <2>1 DEF Release!DeckboxRow, Release!InsertInto, Count
  <2>2. CASE Release!ArchidektRow(r)
    BY <1>2, <1>3, <1>4, <2>2 DEF Release!ArchidektRow, Release!InsertInto, Release!piles
  <2>3. CASE Release!TappedOutRow(r)
    BY <1>2, <1>3, <1>4, <2>3 DEF Release!TappedOutRow, Release!InsertInto, Release!piles,
       Release!Add, Release!Copies, Held
  <2> QED
    BY <2>1, <2>2, <2>3
<1>12. m \in Nat \ {0} /\ MaxCopies = m - 1
  BY ListConstants
<1> HIDE DEF wants, wants2, total, total2, m
<1>13. n0 \in 0 .. MaxCopies
  <2>1. Held(pile0, r.card) \in 0 .. MaxCopies
    BY <1>1, HeldType
  <2> DEFINE s == Held(pile0, r.card) + Count(r)
  <2>2. s \in Nat
    BY <1>4, <1>12, <2>1
  <2>3. s % m \in 0 .. m - 1
    BY <1>12, <2>2, Divided
  <2> QED
    BY <1>4, <1>12, <2>3
<1> DEFINE Good(x, y, com) == \A c \in OracleIds :
             /\ Held(y, c) = wants2("side", c)
             /\ Held(x, c) + (IF site = "deckbox" /\ c \in com THEN 1 ELSE 0)
                  = wants2("main", c)
           Exact(x, y) == stage = "debug" /\ site = "tappedout" => \A c \in OracleIds :
             /\ Held(x, c) = total2("main", c)
             /\ Held(y, c) = total2("side", c)
<1>14. /\ Good(main', side', commanders') /\ Exact(main', side')
       /\ IsPile(main') /\ IsPile(side')
       /\ commanders' \subseteq OracleIds /\ IsFiniteSet(commanders')
  <2>1. CASE /\ r.commander \/ b0 = "other"
             /\ UNCHANGED <<main, side>>
             /\ commanders' \in {commanders, commanders \cup {r.card}}
    <3>1. \A b \in {"main", "side"} : \A c : /\ wants2(b, c) = wants(b, c)
                                         /\ total2(b, c) = total(b, c)
      BY <1>6, <1>10, <2>1
    <3>2. commanders' \subseteq OracleIds /\ IsFiniteSet(commanders')
      BY <1>1, <1>3, <2>1, FS_AddElement
    <3>3. Good(main, side, commanders)
      BY <1>7, <3>1
    <3>4. Good(main', side', commanders')
      BY <1>9, <2>1, <3>3
    <3>5. Exact(main', side')
      BY <1>8, <2>1, <3>1
    <3> QED
      BY <1>1, <2>1, <3>2, <3>4, <3>5
  <2>2. CASE /\ ~r.commander /\ b0 = "main" /\ UNCHANGED <<commanders, side>>
             /\ main' = Release!Insert(main, r.card, n0)
    <3>1. /\ IsPile(main') /\ Held(main', r.card) = n0
          /\ \A c : c # r.card => Held(main', c) = Held(main, c)
      BY <1>1, <1>3, <1>13, <2>2, InsertFacts
    <3>2. \A c : /\ wants2("side", c) = wants("side", c) /\ total2("side", c) = total("side", c)
                 /\ c # r.card => /\ wants2("main", c) = wants("main", c)
                                  /\ total2("main", c) = total("main", c)
      BY <1>6, <1>10, <2>2
    <3>3. wants2("main", r.card) = n0
      <4>1. Fits(r, site, "main", r.card)
        BY <1>10, <2>2
      <4>2. site = "tappedout" => wants("main", r.card) = Held(main, r.card)
        <5>1. Held(main, r.card) \in Nat
          BY <1>1, <1>12, HeldType
        <5> QED
          BY <1>3, <1>7, <5>1
      <4> QED
        BY <1>6, <2>2, <4>1, <4>2
    <3>4. Good(main', side', commanders')
      <4>1. ASSUME NEW c \in OracleIds
            PROVE  /\ Held(side', c) = wants2("side", c)
                   /\ Held(main', c)
                        + (IF site = "deckbox" /\ c \in commanders' THEN 1 ELSE 0)
                        = wants2("main", c)
        <5>1. Held(side', c) = wants2("side", c)
          BY <1>7, <2>2, <3>2
        <5>2. CASE c = r.card
          <6>1. n0 \in Nat
            BY <1>12, <1>13
          <6>2. ~(site = "deckbox" /\ c \in commanders')
            BY <1>9, <2>2
          <6> HIDE DEF n0
          <6> QED
            BY <3>1, <3>3, <5>1, <5>2, <6>1, <6>2
        <5>3. CASE c # r.card
          BY <1>7, <2>2, <3>1, <3>2, <5>1, <5>3
        <5> QED
          BY <5>2, <5>3
      <4> QED
        BY <4>1
    <3>5. Exact(main', side')
      <4> SUFFICES ASSUME stage = "debug", site = "tappedout", NEW c \in OracleIds
                   PROVE  Held(main', c) = total2("main", c) /\ Held(side', c) = total2("side", c)
        OBVIOUS
      <4>1. Held(side', c) = total2("side", c)
        BY <1>8, <2>2, <3>2
      <4>2. CASE c = r.card
        <5>1. Fits(r, site, "main", r.card)
          BY <1>10, <2>2
        <5>2. total2("main", c) = Held(main, c) + Count(r)
          BY <1>6, <1>8, <4>2, <5>1
        <5>3. Held(main, c) \in Nat /\ Held(main, c) + Count(r) <= MaxCopies
          BY <1>1, <1>3, <1>4, <1>12, <2>2, <4>2, HeldType
        <5>4. Held(main, c) + Count(r) \in 0 .. m - 1
          BY <1>4, <1>12, <5>3
        <5>5. (Held(main, c) + Count(r)) % m = Held(main, c) + Count(r)
          BY <1>12, <5>4, SmallRemainder
        <5>6. n0 = Held(main, c) + Count(r)
          BY <2>2, <4>2, <5>5
        <5> QED
          BY <3>1, <4>1, <4>2, <5>2, <5>6
      <4>3. CASE c # r.card
        BY <1>8, <3>1, <3>2, <4>1, <4>3
      <4> QED
        BY <4>2, <4>3
    <3> QED
      BY <1>1, <2>2, <3>1, <3>4, <3>5
  <2>3. CASE /\ ~r.commander /\ b0 = "side" /\ UNCHANGED <<commanders, main>>
             /\ side' = Release!Insert(side, r.card, n0)
    <3>1. /\ IsPile(side') /\ Held(side', r.card) = n0
          /\ \A c : c # r.card => Held(side', c) = Held(side, c)
      BY <1>1, <1>3, <1>13, <2>3, InsertFacts
    <3>2. \A c : /\ wants2("main", c) = wants("main", c) /\ total2("main", c) = total("main", c)
                 /\ c # r.card => /\ wants2("side", c) = wants("side", c)
                                  /\ total2("side", c) = total("side", c)
      BY <1>6, <1>10, <2>3
    <3>3. wants2("side", r.card) = n0
      <4>1. Fits(r, site, "side", r.card)
        BY <1>10, <2>3
      <4>2. wants("side", r.card) = Held(side, r.card)
        BY <1>3, <1>7
      <4> QED
        BY <1>6, <2>3, <4>1, <4>2
    <3>4. Good(main', side', commanders')
      BY <1>7, <2>3, <3>1, <3>2, <3>3
    <3>5. Exact(main', side')
      <4> SUFFICES ASSUME stage = "debug", site = "tappedout", NEW c \in OracleIds
                   PROVE  Held(main', c) = total2("main", c) /\ Held(side', c) = total2("side", c)
        OBVIOUS
      <4>1. Held(main', c) = total2("main", c)
        BY <1>8, <2>3, <3>2
      <4>2. CASE c = r.card
        <5>1. Fits(r, site, "side", r.card)
          BY <1>10, <2>3
        <5>2. total2("side", c) = Held(side, c) + Count(r)
          BY <1>6, <1>8, <4>2, <5>1
        <5>3. Held(side, c) \in Nat /\ Held(side, c) + Count(r) <= MaxCopies
          BY <1>1, <1>3, <1>4, <1>12, <2>3, <4>2, HeldType
        <5>4. Held(side, c) + Count(r) \in 0 .. m - 1
          BY <1>4, <1>12, <5>3
        <5>5. (Held(side, c) + Count(r)) % m = Held(side, c) + Count(r)
          BY <1>12, <5>4, SmallRemainder
        <5>6. n0 = Held(side, c) + Count(r)
          BY <2>3, <4>2, <5>5
        <5> QED
          BY <3>1, <4>1, <4>2, <5>2, <5>6
      <4>3. CASE c # r.card
        BY <1>8, <3>1, <3>2, <4>1, <4>3
      <4> QED
        BY <4>2, <4>3
    <3> QED
      BY <1>1, <2>3, <3>1, <3>4, <3>5
  <2> QED
    BY <1>11, <2>1, <2>2, <2>3
<1>15. ListTypes'
  BY <1>1, <1>2, <1>5, <1>9, <1>14 DEF ListTypes, IsPile
<1>16. CopiesInv'
  BY <1>2, <1>14 DEF CopiesInv, wants2
<1>17. ExactInv'
  BY <1>2, <1>14 DEF ExactInv, total2
<1>18. FitInv' /\ SavedInv'
  BY <1>2 DEF FitInv, SavedInv
<1> QED
  BY <1>15, <1>16, <1>17, <1>18 DEF ListInv

LEMMA ListInit == ASSUME Release!Init PROVE ListInv
<1>1. /\ site \in {"deckbox", "tappedout", "archidekt"} /\ list = <<>>
      /\ commanders = {} /\ main = [c \in {} |-> 0] /\ side = [c \in {} |-> 0]
      /\ reading = "rows"
  BY DEF Release!Init, Release!Sites, Release!Empty
<1>2. DOMAIN main = {} /\ DOMAIN side = {} /\ IsFiniteSet({})
  BY <1>1, FS_EmptySet
<1>3. IsPile(main) /\ IsPile(side)
  BY <1>1, <1>2 DEF IsPile
<1>4. ListTypes
  BY <1>1, <1>2, <1>3 DEF ListTypes
<1>5. \A b, c : RowsIn(list, site, b, c) = {}
  BY <1>1 DEF RowsIn
<1>6. \A b, c : WantedIn(list, site, b, c) = 0
  BY <1>5 DEF WantedIn
<1>7. \A b, c : TotalIn(list, site, b, c) = 0
  <2> SUFFICES ASSUME NEW b, NEW c PROVE TotalIn(list, site, b, c) = 0
    OBVIOUS
  <2> DEFINE R == RowsIn(list, site, b, c)
             f == [i \in R |-> Count(list[i])]
  <2>1. R = {}
    BY <1>5
  <2>2. f \in [R -> Nat] /\ \A i \in R : f[i] = 0
    BY <2>1
  <2> HIDE DEF f, R
  <2>3. Weight(f) = 0
    BY <2>2, WeightOfZeros
  <2> QED
    BY <2>3 DEF f, R, TotalIn
<1>8. \A c : Held(main, c) = 0 /\ Held(side, c) = 0
  BY <1>2 DEF Held
<1>9. CopiesInv
  BY <1>1, <1>6, <1>8 DEF CopiesInv
<1>10. ExactInv
  BY <1>7, <1>8 DEF ExactInv
<1> QED
  BY <1>1, <1>4, <1>9, <1>10 DEF ListInv, FitInv, SavedInv

\* extract_commanders: no card is lost, and what is found fits.
LEMMA ExtractStep == ASSUME ListInv, Release!Extract, UNCHANGED stage PROVE ListInv'
<1>1. /\ reading = "extract" /\ reading' = "expand" /\ UNCHANGED <<site, list, side, entries>>
      /\ site = "deckbox" /\ commanders = {} /\ list \in Seq(Release!Rows)
      /\ IsPile(main) /\ IsPile(side)
  BY DEF ListInv, ListTypes, Release!Extract
<1> DEFINE found == IF Release!CommanderDeck THEN Release!Candidates ELSE {}
           rest == DOMAIN main \ found
<1>2. commanders' = found /\ main' = [c \in rest |-> main[c]]
  BY DEF Release!Extract
<1>3. /\ found \subseteq DOMAIN main
      /\ \A c \in found : /\ main[c] = 1 /\ ColorsOf[c] = Release!DeckColors
                          /\ Weight(main) = DeckSize /\ DOMAIN main \subseteq Legal
  BY ListSets DEF Release!Candidates, Release!CommanderDeck
<1> HIDE DEF found
<1>4. /\ IsFiniteSet(found) /\ IsFiniteSet(rest) /\ found \subseteq OracleIds
      /\ rest \cap found = {} /\ DOMAIN main = rest \cup found
  BY <1>1, <1>3, FS_Subset DEF IsPile
<1>5. IsPile(main')
  BY <1>1, <1>2, <1>4 DEF IsPile
<1>6. ListTypes'
  BY <1>1, <1>2, <1>4, <1>5 DEF ListTypes, ListInv
<1>7. CopiesInv'
  <2>1. \A c \in OracleIds :
          /\ Held(side, c) = WantedIn(list, site, "side", c)
          /\ Held(main, c) = WantedIn(list, site, "main", c)
    <3>1. \A c \in OracleIds : Held(main, c) \in Nat
      BY <1>1, ListConstants, HeldType
    <3> QED
      BY <1>1, <3>1 DEF ListInv, CopiesInv
  <2>2. ASSUME NEW c \in OracleIds
        PROVE  Held(main', c) + (IF c \in commanders' THEN 1 ELSE 0) = Held(main, c)
    <3>1. CASE c \in found
      BY <1>2, <1>3, <3>1 DEF Held
    <3>2. CASE c \notin found
      <4>1. Held(main', c) = Held(main, c) /\ Held(main, c) \in Nat
        BY <1>1, <1>2, <1>4, <3>2, ListConstants, HeldType DEF Held
      <4> QED
        BY <1>2, <3>2, <4>1
    <3> QED
      BY <3>1, <3>2
  <2> QED
    BY <1>1, <2>1, <2>2 DEF CopiesInv
<1>8. FitInv'
  <2> SUFFICES ASSUME NEW c \in found
               PROVE  /\ c \notin DOMAIN main'
                      /\ Weight(main') + Cardinality(commanders') = DeckSize
                      /\ \A d \in DOMAIN main' \cup commanders' :
                           d \in Legal /\ ColorsOf[d] \subseteq ColorsOf[c]
    BY <1>2 DEF FitInv
  <2>1. DOMAIN main' = rest
    BY <1>2
  <2>2. Weight(main') + Cardinality(commanders') = DeckSize
    <3> DEFINE ones == [x \in found |-> main[x]]
               less == [c2 \in rest |-> main[c2]]
    <3>1. main \in [rest \cup found -> Nat]
      BY <1>1, <1>4, ListConstants DEF IsPile
    <3>2. ones \in [found -> Nat] /\ \A x \in found : ones[x] = 1
      BY <1>3
    <3>3. less \in [rest -> Nat] /\ main' = less
      BY <1>2, <3>1
    <3>4. /\ \A x \in rest : main[x] = less[x]
          /\ \A x \in found : main[x] = ones[x]
      OBVIOUS
    <3> HIDE DEF ones, less, rest
    <3>5. Weight(main) = Weight(less) + Weight(ones)
      BY <1>4, <3>1, <3>2, <3>3, <3>4, WeightSplits
    <3>6. Weight(ones) = Cardinality(found)
      BY <1>4, <3>2, WeightOfOnes
    <3> QED
      BY <1>2, <1>3, <3>3, <3>5, <3>6
  <2>3. \A d \in DOMAIN main : d \in Legal /\ ColorsOf[d] \subseteq ColorsOf[c]
    BY <1>3 DEF Release!DeckColors
  <2> QED
    BY <1>2, <1>4, <2>1, <2>2, <2>3
<1>9. ExactInv' /\ SavedInv'
  BY <1>1 DEF ExactInv, SavedInv
<1> QED
  BY <1>6, <1>7, <1>8, <1>9 DEF ListInv

\* expand_cards and save_cards: what the piles hold is what the entries have.
LEMMA ExpandStep == ASSUME ListInv, Release!Expand, UNCHANGED stage PROVE ListInv'
<1>1. /\ reading = "expand" /\ reading' = "done"
      /\ UNCHANGED <<stage, site, list, commanders, main, side>>
      /\ \A c \in commanders \cup DOMAIN main \cup DOMAIN side : Release!Options(c) # {}
      /\ entries' = [p \in Release!PileNames |->
           CASE p = "commander" -> Release!ExpandPile([c \in commanders |-> 1])
             [] p = "main_deck" -> Release!ExpandPile(main)
             [] p = "sideboard" -> Release!ExpandPile(side)]
  BY DEF Release!Expand, Release!InPiles, Release!piles
<1>2. /\ IsPile(main) /\ IsPile(side)
      /\ commanders \subseteq OracleIds /\ IsFiniteSet(commanders)
  BY DEF ListInv, ListTypes
<1> DEFINE ones == [c \in commanders |-> 1]
<1>3. Counts(ones) /\ Counts(main) /\ Counts(side)
  BY <1>2, ListConstants DEF IsPile, Counts
<1>4. \A c : Held(ones, c) = IF c \in commanders THEN 1 ELSE 0
  BY DEF Held
<1>5. DOMAIN ones = commanders
  OBVIOUS
<1>6. entries' = [p \in Release!PileNames |->
           CASE p = "commander" -> Release!ExpandPile(ones)
             [] p = "main_deck" -> Release!ExpandPile(main)
             [] p = "sideboard" -> Release!ExpandPile(side)]
  BY <1>1
<1> HIDE DEF ones
<1>7. /\ \A c \in OracleIds : /\ SavedIn(entries', "commander", c) = Held(ones, c)
                              /\ SavedIn(entries', "main_deck", c) = Held(main, c)
                              /\ SavedIn(entries', "sideboard", c) = Held(side, c)
      /\ SpreadIn(entries')
  BY <1>1, <1>3, <1>5, <1>6, PilesExpanded
<1>8. SavedInv'
  BY <1>1, <1>4, <1>7 DEF SavedInv
<1>9. ListTypes' /\ CopiesInv' /\ ExactInv' /\ FitInv'
  BY <1>1 DEF ListInv, ListTypes, CopiesInv, ExactInv, FitInv
<1> QED
  BY <1>8, <1>9 DEF ListInv

\* But for TappedOut's rows the two builds are the same.
LEMMA BothBuilds ==
  /\ \A r : /\ Debug!DeckboxRow(r) => Release!DeckboxRow(r)
            /\ Debug!ArchidektRow(r) => Release!ArchidektRow(r)
  /\ Debug!RowFails => Release!RowFails
  /\ Debug!EndOfRows => Release!EndOfRows
  /\ Debug!Extract => Release!Extract
  /\ Debug!Expand => Release!Expand
  /\ Debug!SaveFails => Release!SaveFails
  /\ Debug!Rows = Release!Rows
<1>1. Debug!Rows = Release!Rows
  BY DEF Debug!Rows, Release!Rows
<1>2. ASSUME NEW r PROVE Debug!DeckboxRow(r) => Release!DeckboxRow(r)
  BY DEF Debug!DeckboxRow, Debug!Read, Debug!InsertInto, Debug!Insert,
     Release!DeckboxRow, Release!Read, Release!InsertInto, Release!Insert
<1>3. ASSUME NEW r PROVE Debug!ArchidektRow(r) => Release!ArchidektRow(r)
  BY DEF Debug!ArchidektRow, Debug!Read, Debug!InsertInto, Debug!Insert,
     Release!ArchidektRow, Release!Read, Release!InsertInto, Release!Insert
<1>4. Debug!RowFails => Release!RowFails
  BY DEF Debug!RowFails, Release!RowFails, Debug!piles, Release!piles
<1>5. Debug!EndOfRows => Release!EndOfRows
  BY DEF Debug!EndOfRows, Release!EndOfRows, Debug!piles, Release!piles
<1>6. Debug!SaveFails => Release!SaveFails
  BY DEF Debug!SaveFails, Release!SaveFails, Debug!piles, Release!piles
<1>7. Debug!Extract => Release!Extract
  <2>1. Debug!CommanderDeck <=> Release!CommanderDeck
    BY ListSets DEF Debug!CommanderDeck, Release!CommanderDeck
  <2>2. Debug!Candidates = Release!Candidates
    BY DEF Debug!Candidates, Debug!DeckColors, Release!Candidates, Release!DeckColors
  <2> QED
    BY <2>1, <2>2 DEF Debug!Extract, Release!Extract
<1>8. Debug!Expand => Release!Expand
  <2>1. ASSUME NEW c PROVE Debug!Options(c) = Release!Options(c)
    <3>1. \A full, funny : Debug!Class(c, full, funny) = Release!Class(c, full, funny)
      BY DEF Debug!Class, Release!Class
    <3>2. \A S : Debug!Min(S) = Release!Min(S)
      BY DEF Debug!Min, Release!Min
    <3> QED
      BY <3>1, <3>2 DEF Debug!Options, Release!Options
  <2>2. ASSUME NEW c, NEW n PROVE Debug!Expanded(c, n) = Release!Expanded(c, n)
    BY <2>1, ListSets DEF Debug!Expanded, Release!Expanded
  <2>3. Debug!Printed = Release!Printed /\ Debug!PileNames = Release!PileNames
    BY DEF Debug!Printed, Release!Printed, Debug!PileNames, Release!PileNames
  <2>4. ASSUME NEW pile PROVE Debug!ExpandPile(pile) = Release!ExpandPile(pile)
    BY <2>2, <2>3 DEF Debug!ExpandPile, Release!ExpandPile
  <2>5. Debug!InPiles = Release!InPiles
    BY DEF Debug!InPiles, Release!InPiles
  <2> QED
    BY <2>1, <2>3, <2>4, <2>5
    DEF Debug!Expand, Release!Expand, Debug!piles, Release!piles
<1> QED
  BY <1>1, <1>2, <1>3, <1>4, <1>5, <1>6, <1>7, <1>8

\* A step that fails, and one that ends the rows.
LEMMA OtherSteps ==
  ASSUME ListInv, UNCHANGED stage,
         Release!RowFails \/ Release!EndOfRows \/ Release!SaveFails
  PROVE  ListInv'
<1>1. UNCHANGED <<site, list, commanders, main, side, entries, stage>>
  BY DEF Release!RowFails, Release!EndOfRows, Release!SaveFails, Release!piles
<1>2. \/ reading' = "failed"
      \/ /\ reading = "rows"
         /\ reading' = IF site = "deckbox" THEN "extract" ELSE "expand"
  BY DEF Release!RowFails, Release!EndOfRows, Release!SaveFails
<1>3. ListTypes'
  BY <1>1, <1>2 DEF ListInv, ListTypes, IsPile
<1>4. CopiesInv' /\ ExactInv'
  BY <1>1, <1>2 DEF ListInv, CopiesInv, ExactInv
<1>5. FitInv' /\ SavedInv'
  BY <1>1, <1>2 DEF ListInv, FitInv, SavedInv
<1> QED
  BY <1>3, <1>4, <1>5 DEF ListInv

\* A sum that overflows where it panics.
LEMMA RowPanics ==
  ASSUME ListInv, UNCHANGED stage, NEW r \in Release!Rows,
         UNCHANGED <<site, commanders, main, side, entries>>,
         list' = Append(list, r), reading' = "failed"
  PROVE  ListInv'
<1>1. ListTypes'
  <2>1. list' \in Seq(Release!Rows)
    BY AppendProperties DEF ListInv, ListTypes
  <2> QED
    BY <2>1 DEF ListInv, ListTypes, IsPile
<1> QED
  BY <1>1 DEF ListInv, CopiesInv, ExactInv, FitInv, SavedInv

LEMMA ReleaseStep ==
  ASSUME ListInv, stage = "release", stage' = stage, Release!Next PROVE ListInv'
<1>1. ASSUME NEW r \in Release!Rows,
             Release!DeckboxRow(r) \/ Release!TappedOutRow(r) \/ Release!ArchidektRow(r)
      PROVE  ListInv'
  <2>1. CASE reading' # "failed"
    BY <1>1, <2>1, RowStep
  <2>2. CASE reading' = "failed"
    BY <1>1, <2>2
    DEF Release!DeckboxRow, Release!TappedOutRow, Release!ArchidektRow, Release!Read
  <2> QED
    BY <2>1, <2>2
<1>2. ASSUME Release!RowFails \/ Release!EndOfRows \/ Release!SaveFails PROVE ListInv'
  BY <1>2, OtherSteps
<1>3. ASSUME Release!Extract PROVE ListInv'
  BY <1>3, ExtractStep
<1>4. ASSUME Release!Expand PROVE ListInv'
  BY <1>4, ExpandStep
<1> QED
  BY <1>1, <1>2, <1>3, <1>4 DEF Release!Next

LEMMA DebugStep ==
  ASSUME ListInv, stage = "debug", stage' = stage, Debug!Next PROVE ListInv'
<1>1. ASSUME NEW r \in Debug!Rows,
             Debug!DeckboxRow(r) \/ Debug!ArchidektRow(r)
      PROVE  ListInv'
  <2>1. r \in Release!Rows /\ (Release!DeckboxRow(r) \/ Release!ArchidektRow(r))
    BY <1>1, BothBuilds
  <2>2. site # "tappedout" /\ reading' # "failed"
    BY <2>1 DEF Release!DeckboxRow, Release!ArchidektRow, Release!Read
  <2> QED
    BY <2>1, <2>2, RowStep
<1>2. ASSUME NEW r \in Debug!Rows, Debug!TappedOutRow(r) PROVE ListInv'
  <2> DEFINE held == Held(IF r.board = "main" THEN main ELSE side, r.card)
  <2>1. r \in Release!Rows
    BY BothBuilds
  <2>2. \/ /\ Release!TappedOutRow(r) /\ reading' # "failed"
           /\ ~r.commander /\ r.board # "other" => held + r.count <= MaxCopies
        \/ /\ reading' = "failed" /\ list' = Append(list, r)
           /\ UNCHANGED <<site, commanders, main, side, entries>>
    BY <1>2 DEF Debug!TappedOutRow, Debug!Read, Debug!InsertInto, Debug!Insert, Debug!Add,
       Debug!Copies, Debug!piles, Release!TappedOutRow, Release!Read, Release!InsertInto,
       Release!Insert, Release!Add, Release!Copies, Release!piles, Held
  <2>3. CASE /\ Release!TappedOutRow(r) /\ reading' # "failed"
             /\ ~r.commander /\ r.board # "other" => held + r.count <= MaxCopies
    BY <2>1, <2>3, RowStep
  <2>4. CASE /\ reading' = "failed" /\ list' = Append(list, r)
             /\ UNCHANGED <<site, commanders, main, side, entries>>
    BY <2>1, <2>4, RowPanics
  <2> QED
    BY <2>2, <2>3, <2>4
<1>3. ASSUME Debug!RowFails \/ Debug!EndOfRows \/ Debug!SaveFails PROVE ListInv'
  BY <1>3, BothBuilds, OtherSteps
<1>4. ASSUME Debug!Extract PROVE ListInv'
  BY <1>4, BothBuilds, ExtractStep
<1>5. ASSUME Debug!Expand PROVE ListInv'
  BY <1>5, BothBuilds, ExpandStep
<1> QED
  BY <1>1, <1>2, <1>3, <1>4, <1>5 DEF Debug!Next

\* What the invariant says in DeckLists' words.
LEMMA ListFacts ==
  ASSUME ListInv
  PROVE  /\ Release!CopiesKept /\ Release!EvenSpread /\ Release!CommandersFit
         /\ stage = "debug" => Debug!CopiesAddUp
         /\ Debug!CommandersFit
<1>1. \A p, c : /\ Release!Saved(p, c) = SavedIn(entries, p, c)
                /\ Debug!Saved(p, c) = SavedIn(entries, p, c)
  BY ListSets DEF Release!Saved, Debug!Saved, SavedIn, ShareOf
<1>2. /\ IsPile(main) /\ IsPile(side)
      /\ \A c : Held(main, c) \in Nat
  BY ListConstants, HeldType DEF ListInv, ListTypes
<1>3. ASSUME reading = "done", NEW c \in OracleIds
      PROVE  /\ Release!Saved("sideboard", c) = Release!Wanted("side", c)
             /\ Release!Saved("main_deck", c)
                  + (IF site = "deckbox" THEN Release!Saved("commander", c) ELSE 0)
                  = Release!Wanted("main", c)
  <2>1. /\ Release!Saved("sideboard", c) = Held(side, c)
        /\ Release!Saved("main_deck", c) = Held(main, c)
        /\ Release!Saved("commander", c) = IF c \in commanders THEN 1 ELSE 0
    BY <1>1, <1>3 DEF ListInv, SavedInv
  <2>2. /\ Release!Wanted("side", c) = Held(side, c)
        /\ Release!Wanted("main", c)
             = Held(main, c) + (IF site = "deckbox" /\ c \in commanders THEN 1 ELSE 0)
    BY <1>3, WantedIs DEF ListInv, CopiesInv
  <2> QED
    BY <1>2, <2>1, <2>2
<1>4. Release!CopiesKept
  BY <1>3 DEF Release!CopiesKept
<1>5. ASSUME stage = "debug" PROVE Debug!CopiesAddUp
  <2> SUFFICES ASSUME site = "tappedout", reading = "done", NEW c \in OracleIds
               PROVE  /\ Debug!Saved("main_deck", c) = Debug!Total("main", c)
                      /\ Debug!Saved("sideboard", c) = Debug!Total("side", c)
    BY DEF Debug!CopiesAddUp
  <2>1. /\ Debug!Saved("sideboard", c) = Held(side, c)
        /\ Debug!Saved("main_deck", c) = Held(main, c)
    BY <1>1 DEF ListInv, SavedInv
  <2>2. /\ Debug!Total("main", c) = TotalIn(list, site, "main", c)
        /\ Debug!Total("side", c) = TotalIn(list, site, "side", c)
    BY WantedIs
  <2>3. /\ Held(main, c) = TotalIn(list, site, "main", c)
        /\ Held(side, c) = TotalIn(list, site, "side", c)
    BY <1>5 DEF ListInv, ExactInv
  <2> QED
    BY <2>1, <2>2, <2>3
<1>6. Release!EvenSpread
  BY DEF ListInv, SavedInv, SpreadIn, Release!EvenSpread
<1>7. Release!CommandersFit /\ Debug!CommandersFit
  BY ListSets DEF ListInv, FitInv, Release!CommandersFit, Debug!CommandersFit
<1> QED
  BY <1>4, <1>5, <1>6, <1>7

------------------------------------------------------------------------------
(* get_tokens: the token pile *)

Queued == {queue[i] : i \in 1 .. Len(queue)}
Met == seen \cup Queued

(***************************************************************************)
(* A card that was met is in the deck or has a token of its oracle id;     *)
(* the parts of a card that was worked on were met, but for those it has   *)
(* still to look at; and only what the deck leads to is met.               *)
(***************************************************************************)
SearchTypes == /\ queue \in Seq(Cards) /\ deck \in SUBSET Cards /\ seen \in SUBSET Cards
               /\ search \in {"next", "parts", "done", "failed"}
DeckIsMet == deck \subseteq Met
PartsAreMet == \A c \in seen : Tokens!PartsOf(c) \subseteq Met \cup partsLeft
MetHaveTokens == \A c \in Met : c \in deck \/ OracleOf[c] \in DOMAIN parts
OnlyReached == /\ Met \subseteq Tokens!All
               /\ partsLeft \subseteq Tokens!Targets
               /\ \A o \in DOMAIN parts : parts[o] \in Tokens!Targets
Finished == /\ search \in {"next", "done"} => partsLeft = {}
            /\ search = "done" => queue = <<>>

SearchInv == /\ SearchTypes /\ DeckIsMet /\ PartsAreMet /\ MetHaveTokens /\ OnlyReached
             /\ Finished

\* RelatedTokens counts as this module does.
LEMMA TokenSets ==
  \A S : /\ Tokens!IsFiniteSet(S) <=> IsFiniteSet(S)
         /\ Tokens!Cardinality(S) = Cardinality(S)
<1>1. ASSUME NEW S PROVE Tokens!Cardinality(S) = Cardinality(S)
  BY DEF Tokens!Cardinality, Cardinality
<1> QED
  BY <1>1 DEF Tokens!IsFiniteSet, IsFiniteSet

\* What is assumed of the cards.
LEMMA TokenConstants ==
  OracleOf \in [Cards -> Oracles] /\ DeckCards \subseteq Cards /\ IsFiniteSet(Cards)
  BY TokensAssumption, TokenSets DEF Tokens!OracleAssumption, Tokens!DeckAssumption

\* What the deck leads to has the deck and its own parts, and is the least such set.
LEMMA AllFacts ==
  ASSUME deck \in SUBSET Cards
  PROVE  /\ deck \subseteq Tokens!All /\ Tokens!All \subseteq Cards
         /\ \A c \in Tokens!All : Tokens!PartsOf(c) \subseteq Tokens!All
         /\ \A c \in Tokens!All : Tokens!PartsOf(c) \subseteq Tokens!Targets
         /\ Tokens!Targets \subseteq Tokens!All
         /\ \A S \in SUBSET Cards : Tokens!Complete(S) => Tokens!All \subseteq S
<1>1. \A c : Tokens!PartsOf(c) \subseteq Cards
  BY DEF Tokens!PartsOf
<1>2. deck \subseteq Tokens!All
  BY DEF Tokens!All, Tokens!Complete
<1>3. \A c \in Tokens!All : Tokens!PartsOf(c) \subseteq Tokens!All
  BY <1>1 DEF Tokens!All, Tokens!Complete
<1> QED
  BY <1>2, <1>3 DEF Tokens!All, Tokens!Targets

\* The queue is the deck in some order.
LEMMA OrderHasAll ==
  ASSUME NEW S, IsFiniteSet(S), NEW s \in Tokens!SetToSeqs(S)
  PROVE  s \in Seq(S) /\ {s[i] : i \in 1 .. Len(s)} = S
<1> DEFINE n == Cardinality(S)
<1>1. n \in Nat
  BY FS_CardinalityType
<1>2. s \in [1 .. n -> S] /\ \A i, j \in 1 .. n : i # j => s[i] # s[j]
  BY TokenSets DEF Tokens!SetToSeqs
<1> HIDE DEF n
<1>3. s \in Injection(1 .. n, S)
  BY <1>2, Fun_IsInj
<1>4. Cardinality(1 .. n) = n
  <2>1. 1 \in Int /\ n \in Int
    BY <1>1
  <2>2. Cardinality(1 .. n) = IF 1 > n THEN 0 ELSE n - 1 + 1
    BY <2>1, FS_Interval
  <2> QED
    BY <1>1, <2>2
<1>5. s \in Surjection(1 .. n, S)
  BY <1>3, <1>4, FS_Injection DEF n
<1>6. \A x \in S : \E i \in 1 .. n : s[i] = x
  BY <1>5 DEF Surjection
<1>7. s \in Seq(S) /\ Len(s) = n
  BY <1>1, <1>2
<1> QED
  BY <1>2, <1>6, <1>7

\* The search starts with the deck in its queue.
LEMMA SearchInit == Tokens!Init => SearchInv
<1> SUFFICES ASSUME Tokens!Init PROVE SearchInv
  OBVIOUS
<1>1. /\ deck \in SUBSET Cards /\ queue \in Tokens!SetToSeqs(deck) /\ seen = {}
      /\ DOMAIN parts = {} /\ partsLeft = {} /\ search = "next"
  BY TokenConstants DEF Tokens!Init
<1>2. IsFiniteSet(deck)
  BY <1>1, TokenConstants, FS_Subset
<1>3. queue \in Seq(deck) /\ Queued = deck
  BY <1>1, <1>2, OrderHasAll DEF Queued
<1>4. queue \in Seq(Cards)
  BY <1>1, <1>3
<1>5. Met = deck
  BY <1>1, <1>3 DEF Met
<1>6. deck \subseteq Tokens!All
  BY <1>1, AllFacts
<1> QED
  BY <1>1, <1>4, <1>5, <1>6 DEF SearchInv, SearchTypes, DeckIsMet, PartsAreMet, MetHaveTokens,
     OnlyReached, Finished

\* The graph of the parts and the deck do not change.
LEMMA GraphStays ==
  ASSUME UNCHANGED <<related, deck>>
  PROVE  /\ Tokens!All' = Tokens!All /\ Tokens!Targets' = Tokens!Targets
         /\ \A c : Tokens!PartsOf(c)' = Tokens!PartsOf(c)
<1>1. \A c : Tokens!PartsOf(c)' = Tokens!PartsOf(c)
  BY DEF Tokens!PartsOf
<1>2. \A S : Tokens!Complete(S)' = Tokens!Complete(S)
  BY DEF Tokens!Complete, Tokens!PartsOf
<1>3. Tokens!All' = Tokens!All
  BY DEF Tokens!All, Tokens!Complete, Tokens!PartsOf
<1> QED
  BY <1>1, <1>3 DEF Tokens!Targets

\* No step of the search leaves the invariant.
LEMMA SearchStep == SearchInv /\ [Tokens!Next]_tokenVars => SearchInv'
<1> SUFFICES ASSUME SearchInv, [Tokens!Next]_tokenVars PROVE SearchInv'
  OBVIOUS
<1>0. /\ queue \in Seq(Cards) /\ deck \in SUBSET Cards /\ seen \in SUBSET Cards
      /\ OracleOf \in [Cards -> Oracles]
  BY TokenConstants DEF SearchInv, SearchTypes
<1>1. CASE UNCHANGED tokenVars
  <2>1. UNCHANGED <<related, deck, queue, seen, parts, card, partsLeft, search>>
    BY <1>1 DEF tokenVars
  <2>2. /\ UNCHANGED <<Met, Tokens!All, Tokens!Targets>>
        /\ \A c : Tokens!PartsOf(c)' = Tokens!PartsOf(c)
    BY <2>1, GraphStays DEF Met, Queued
  <2> QED
    BY <2>1, <2>2 DEF SearchInv, SearchTypes, DeckIsMet, PartsAreMet, MetHaveTokens,
       OnlyReached, Finished
<1>2. CASE Tokens!NextCard
  <2> DEFINE c == Head(queue)
  <2>1. /\ search = "next" /\ queue # <<>> /\ queue' = Tail(queue)
        /\ UNCHANGED <<related, deck, parts>>
        /\ \/ c \in seen /\ UNCHANGED <<seen, partsLeft, search>>
           \/ seen' = seen \cup {c} /\ partsLeft' = Tokens!PartsOf(c) /\ search' = "parts"
    BY <1>2 DEF Tokens!NextCard, Tokens!graph
  <2>2. c \in Cards /\ Tail(queue) \in Seq(Cards)
    BY <1>0, <2>1, HeadTailProperties
  <2>3. c \in Queued /\ Queued' \subseteq Queued /\ Queued \subseteq Queued' \cup {c}
    <3>1. Len(queue) \in Nat \ {0} /\ c = queue[1] /\ Len(Tail(queue)) = Len(queue) - 1
      BY <1>0, <2>1, EmptySeq, HeadTailProperties
    <3>2. \A i \in 1 .. Len(queue) - 1 : Tail(queue)[i] = queue[i + 1]
      BY <1>0, <2>1, HeadTailProperties
    <3>3. \A i \in 1 .. Len(queue) : i = 1 \/ queue[i] = Tail(queue)[i - 1]
      BY <3>1, <3>2
    <3> QED
      BY <2>1, <3>1, <3>2, <3>3 DEF Queued
  <2>4. c \in seen' /\ Met' = Met /\ partsLeft = {}
    BY <2>1, <2>3 DEF Met, SearchInv, Finished
  <2> HIDE DEF c
  <2>5. UNCHANGED <<Tokens!All, Tokens!Targets>> /\ \A e : Tokens!PartsOf(e)' = Tokens!PartsOf(e)
    BY <2>1, GraphStays
  <2>6. SearchTypes' /\ DeckIsMet' /\ MetHaveTokens'
    BY <2>1, <2>2, <2>4 DEF SearchInv, SearchTypes, DeckIsMet, MetHaveTokens
  <2>7. PartsAreMet'
    BY <2>1, <2>4, <2>5 DEF SearchInv, PartsAreMet
  <2>8. OnlyReached'
    <3>1. c \in Tokens!All
      BY <2>3 DEF SearchInv, OnlyReached, Met
    <3>2. Tokens!PartsOf(c) \subseteq Tokens!Targets
      BY <1>0, <3>1, AllFacts
    <3> QED
      BY <2>1, <2>4, <2>5, <3>2 DEF SearchInv, OnlyReached
  <2>9. Finished'
    BY <2>1, <2>4 DEF Finished
  <2> QED
    BY <2>6, <2>7, <2>8, <2>9 DEF SearchInv
<1>3. ASSUME NEW d \in Cards, Tokens!SkipPart(d) PROVE SearchInv'
  <2>1. /\ search = "parts" /\ d \in seen /\ partsLeft' = partsLeft \ {d}
        /\ UNCHANGED <<related, deck, queue, seen, parts, search>>
    BY <1>3 DEF Tokens!SkipPart, Tokens!graph
  <2>2. /\ UNCHANGED <<Met, Tokens!All, Tokens!Targets>>
        /\ \A c : Tokens!PartsOf(c)' = Tokens!PartsOf(c)
    BY <2>1, GraphStays DEF Met, Queued
  <2>3. d \in Met
    BY <2>1 DEF Met
  <2> QED
    BY <2>1, <2>2, <2>3 DEF SearchInv, SearchTypes, DeckIsMet, PartsAreMet, MetHaveTokens,
       OnlyReached, Finished
<1>4. ASSUME NEW d \in Cards, Tokens!AddPart(d) PROVE SearchInv'
  <2>1. /\ search = "parts" /\ d \in partsLeft /\ partsLeft' = partsLeft \ {d}
        /\ queue' = Append(queue, d)
        /\ parts' = [o \in DOMAIN parts \cup {OracleOf[d]} |->
                       IF o \in DOMAIN parts THEN parts[o] ELSE d]
        /\ UNCHANGED <<related, deck, seen, search>>
    BY <1>4 DEF Tokens!AddPart, Tokens!graph
  <2>2. UNCHANGED <<Tokens!All, Tokens!Targets>> /\ \A c : Tokens!PartsOf(c)' = Tokens!PartsOf(c)
    BY <2>1, GraphStays
  <2>3. Append(queue, d) \in Seq(Cards) /\ Met' = Met \cup {d}
    <3>1. /\ Append(queue, d) \in Seq(Cards) /\ Len(Append(queue, d)) = Len(queue) + 1
          /\ Len(queue) \in Nat
          /\ \A i \in 1 .. Len(queue) + 1 :
               Append(queue, d)[i] = IF i <= Len(queue) THEN queue[i] ELSE d
      BY <1>0
    <3>2. Queued' = Queued \cup {d}
      BY <2>1, <3>1 DEF Queued
    <3> QED
      BY <2>1, <3>1, <3>2 DEF Met
  <2>4. d \in Tokens!Targets /\ d \in Tokens!All
    BY <1>0, <2>1, AllFacts DEF SearchInv, OnlyReached
  <2>5. SearchTypes' /\ DeckIsMet' /\ Finished'
    BY <2>1, <2>3 DEF SearchInv, SearchTypes, DeckIsMet, Finished
  <2>6. PartsAreMet'
    BY <2>1, <2>2, <2>3 DEF SearchInv, PartsAreMet
  <2>7. MetHaveTokens'
    BY <2>1, <2>3 DEF SearchInv, MetHaveTokens
  <2>8. OnlyReached'
    BY <2>1, <2>2, <2>3, <2>4 DEF SearchInv, OnlyReached
  <2> QED
    BY <2>5, <2>6, <2>7, <2>8 DEF SearchInv
<1>5. ASSUME \/ \E d \in Cards : Tokens!PartMissing(d)
             \/ Tokens!CardDone \/ Tokens!QueueEmpty
      PROVE  SearchInv'
  <2>1. /\ UNCHANGED <<related, deck, queue, seen, parts, partsLeft>>
        /\ \/ search' = "failed"
           \/ search' = "next" /\ partsLeft = {}
           \/ search = "next" /\ search' = "done" /\ queue = <<>>
    BY <1>5 DEF Tokens!PartMissing, Tokens!CardDone, Tokens!QueueEmpty, Tokens!graph
  <2>2. /\ UNCHANGED <<Met, Tokens!All, Tokens!Targets>>
        /\ \A c : Tokens!PartsOf(c)' = Tokens!PartsOf(c)
    BY <2>1, GraphStays DEF Met, Queued
  <2>3. SearchTypes' /\ Finished'
    BY <2>1 DEF SearchInv, SearchTypes, Finished
  <2> QED
    BY <2>1, <2>2, <2>3 DEF SearchInv, DeckIsMet, PartsAreMet, MetHaveTokens, OnlyReached
<1> QED
  BY <1>1, <1>2, <1>3, <1>4, <1>5 DEF Tokens!Next

\* What the invariant says when the queue is empty.
LEMMA SearchFacts == SearchInv => Tokens!TokensComplete
<1> SUFFICES ASSUME SearchInv, search = "done"
             PROVE  /\ Tokens!OraclesOf(Tokens!Targets \ deck) \subseteq DOMAIN parts
                    /\ \A o \in DOMAIN parts : parts[o] \in Tokens!Targets
  BY DEF Tokens!TokensComplete
<1>1. queue = <<>> /\ partsLeft = {} /\ deck \in SUBSET Cards /\ seen \in SUBSET Cards
  BY DEF SearchInv, SearchTypes, Finished
<1>2. Met = seen
  BY <1>1 DEF Met, Queued
<1>3. Tokens!Complete(seen)
  BY <1>1, <1>2 DEF SearchInv, DeckIsMet, PartsAreMet, Tokens!Complete
<1>4. Tokens!Targets \subseteq seen
  BY <1>1, <1>3, AllFacts
<1>5. \A c \in Tokens!Targets \ deck : OracleOf[c] \in DOMAIN parts
  BY <1>2, <1>4 DEF SearchInv, MetHaveTokens
<1> QED
  BY <1>5 DEF Tokens!OraclesOf, SearchInv, OnlyReached

------------------------------------------------------------------------------
(* get_image_by_id and delay: the image cache *)

(***************************************************************************)
(* Who sleeps holds the mutex of last_query and wakes when Gap is over;    *)
(* who is done has seen or left an object, good or bad, under the key it   *)
(* looked at last, unless its upload was refused, and objects stay; and    *)
(* whoever is about to save has bytes that decoded.                        *)
(***************************************************************************)
SleepInv == \A l \in Loads : at[l] = "sleep" => holder = l /\ since + timer[l] >= Gap
StoredInv == \A l \in Loads :
  at[l] = "done" => object[Cache!Key(l)] # "absent" \/ l \in refused
SavingInv == \A l \in Loads : at[l] \in {"check", "put"} => bytes[l] = "good"

CacheInv == Cache!TypeOK /\ SleepInv /\ StoredInv /\ SavingInv

\* What is assumed of the loads and the formats.
LEMMA CacheConstants ==
  /\ CardOf \in [Loads -> Images] /\ NoLoad \notin Loads
  /\ Len(Ladder) \in Nat /\ Len(Ladder) >= 2 /\ MaxHops \in Nat \ {0} /\ Gap \in Nat
<1>1. /\ CardOf \in [Loads -> Images] /\ NoLoad \notin Loads
      /\ MaxHops \in Nat \ {0} /\ Gap \in Nat
  BY CacheAssumption DEF Cache!CardAssumption, Cache!NoLoadAssumption,
     Cache!HopsAssumption, Cache!GapAssumption
<1>2. Len(Ladder) \in Nat /\ Len(Ladder) >= 2
  BY CacheAssumption DEF Cache!LadderAssumption
<1> QED
  BY <1>1, <1>2

\* Every load looks first, whatever is in the store.
LEMMA CacheInit == Cache!Init => CacheInv
<1> SUFFICES ASSUME Cache!Init PROVE CacheInv
  OBVIOUS
<1> USE CacheConstants DEF Cache!Init
<1>1. Cache!TypeOK
  BY DEF Cache!TypeOK, Cache!Steps, Cache!Rungs
<1> QED
  BY <1>1 DEF CacheInv, SleepInv, StoredInv, SavingInv

\* A load that ends.
LEMMA TypeOfDropped ==
  ASSUME NEW l \in Loads, Cache!TypeOK, Cache!Dropped(l)
  PROVE  bytes' \in [Loads -> {"none", "good", "bad"}]
  BY DEF Cache!TypeOK, Cache!Dropped

\* An upload, taken or refused.
LEMMA TypeOfUpload ==
  ASSUME NEW l \in Loads, Cache!TypeOK, SavingInv, at[l] = "put",
         Cache!Stored(l) \/ Cache!Refused(l)
  PROVE  /\ object' \in [Images \X Cache!Rungs -> {"absent", "good", "bad"}]
         /\ refused' \in SUBSET Loads
  BY DEF Cache!TypeOK, SavingInv, Cache!Stored, Cache!Refused

\* No step of a load or of the clock leaves the types.
LEMMA CacheTypes == Cache!TypeOK /\ SavingInv /\ [Cache!Next]_cacheVars => Cache!TypeOK'
<1> SUFFICES ASSUME Cache!TypeOK, SavingInv, [Cache!Next]_cacheVars PROVE Cache!TypeOK'
  OBVIOUS
<1> USE CacheConstants DEF Cache!TypeOK, Cache!Rungs, Cache!Steps, Cache!limiter, Cache!Goto
<1>1. CASE UNCHANGED cacheVars
  BY <1>1 DEF cacheVars
<1>2. CASE Cache!Tick
  BY <1>2 DEF Cache!Tick
<1>3. ASSUME NEW l \in Loads,
             Cache!Hit(l) \/ Cache!GiveUp(l) \/ Cache!Decode(l) \/ Cache!Free(l)
      PROVE  Cache!TypeOK'
  BY <1>3 DEF Cache!Hit, Cache!GiveUp, Cache!Decode, Cache!Free
<1>4. ASSUME NEW l \in Loads, Cache!LookOn(l) \/ Cache!Downgrade(l) PROVE Cache!TypeOK'
  <2>1. UNCHANGED <<object, bytes, holder, since, timer, refused>>
    BY <1>4 DEF Cache!LookOn, Cache!Downgrade
  <2>2. CASE Cache!LookOn(l)
    <3>1. /\ UNCHANGED hops
          /\ \/ rung' = [rung EXCEPT ![l] = 2] /\ UNCHANGED at
             \/ rung' = [rung EXCEPT ![l] = 1] /\ at' = [at EXCEPT ![l] = "probe"]
      BY <2>2 DEF Cache!LookOn
    <3>2. 1 \in 1 .. Len(Ladder) /\ 2 \in 1 .. Len(Ladder)
      OBVIOUS
    <3>3. rung' \in [Loads -> 1 .. Len(Ladder)] /\ at' \in [Loads -> Cache!Steps]
      BY <3>1, <3>2
    <3> QED
      BY <2>1, <3>1, <3>3
  <2>3. CASE Cache!Downgrade(l)
    <3>1. hops' = [hops EXCEPT ![l] = 0] /\ rung[l] + 1 \in 1 .. Len(Ladder)
      BY <2>3 DEF Cache!Downgrade
    <3> QED
      BY <2>3, <3>1 DEF Cache!Downgrade
  <2> QED
    BY <1>4, <2>2, <2>3
<1>5. ASSUME NEW l \in Loads, Cache!Miss(l) \/ Cache!Redirected(l) PROVE Cache!TypeOK'
  <2>1. hops[l] \in 0 .. MaxHops
    OBVIOUS
  <2>2. CASE Cache!Miss(l)
    BY <2>2 DEF Cache!Miss
  <2>3. CASE Cache!Redirected(l)
    <3>1. hops' = [hops EXCEPT ![l] = hops[l] + 1] /\ hops[l] + 1 \in 0 .. MaxHops
      BY <2>1, <2>3 DEF Cache!Redirected
    <3> QED
      BY <2>3, <3>1 DEF Cache!Redirected
  <2> QED
    BY <1>5, <2>2, <2>3
<1>6. ASSUME NEW l \in Loads, Cache!Lock(l) \/ Cache!LetGo(l) PROVE Cache!TypeOK'
  <2>1. CASE Cache!Lock(l)
    <3>1. Gap - since \in 0 .. Gap
      OBVIOUS
    <3> QED
      BY <2>1, <3>1 DEF Cache!Lock
  <2>2. CASE Cache!LetGo(l)
    BY <2>2 DEF Cache!LetGo
  <2> QED
    BY <1>6, <2>1, <2>2
<1>7. ASSUME NEW l \in Loads, Cache!Taken(l) \/ Cache!Put(l) \/ Cache!Fails(l)
      PROVE  Cache!TypeOK'
  <2>1. Cache!Dropped(l) /\ UNCHANGED <<rung, hops, holder, since, timer>>
    BY <1>7 DEF Cache!Taken, Cache!Put, Cache!Fails
  <2>2. bytes' \in [Loads -> {"none", "good", "bad"}]
    BY <2>1, TypeOfDropped
  <2>3. at' \in [Loads -> Cache!Steps]
    BY <1>7 DEF Cache!Taken, Cache!Put, Cache!Fails
  <2>4. \/ UNCHANGED <<object, refused>>
        \/ at[l] = "put" /\ (Cache!Stored(l) \/ Cache!Refused(l))
    BY <1>7 DEF Cache!Taken, Cache!Put, Cache!Fails
  <2>5. /\ object' \in [Images \X Cache!Rungs -> {"absent", "good", "bad"}]
        /\ refused' \in SUBSET Loads
    BY <2>4, TypeOfUpload
  <2> QED
    BY <2>1, <2>2, <2>3, <2>5
<1>8. ASSUME NEW l \in Loads, Cache!Found(l) PROVE Cache!TypeOK'
  <2>1. PICK b \in {"good", "bad"} : bytes' = [bytes EXCEPT ![l] = b]
    BY <1>8 DEF Cache!Found
  <2>2. bytes' \in [Loads -> {"none", "good", "bad"}]
    BY <2>1
  <2> QED
    BY <1>8, <2>2 DEF Cache!Found
<1> QED
  BY <1>1, <1>2, <1>3, <1>4, <1>5, <1>6, <1>7, <1>8 DEF Cache!Next, Cache!Step

\* The mutex is held for the whole sleep, so the time that is left and the time that
\* has passed always make up the gap.
LEMMA SleepStep == Cache!TypeOK /\ SleepInv /\ [Cache!Next]_cacheVars => SleepInv'
<1> SUFFICES ASSUME Cache!TypeOK, SleepInv, [Cache!Next]_cacheVars PROVE SleepInv'
  OBVIOUS
<1>0. /\ at = [l \in Loads |-> at[l]] /\ since \in 0 .. Gap /\ Gap \in Nat
      /\ timer \in [Loads -> 0 .. Gap] /\ NoLoad \notin Loads
  BY CacheConstants DEF Cache!TypeOK
<1> USE <1>0 DEF SleepInv, Cache!limiter, Cache!Goto
<1>1. CASE UNCHANGED cacheVars
  BY <1>1 DEF cacheVars
<1>2. CASE Cache!Tick
  BY <1>2 DEF Cache!Tick
<1>3. ASSUME NEW l \in Loads,
             Cache!Hit(l) \/ Cache!Found(l) \/ Cache!GiveUp(l) \/ Cache!Decode(l)
               \/ Cache!Free(l) \/ Cache!Taken(l) \/ Cache!Fails(l)
      PROVE  SleepInv'
  BY <1>3 DEF Cache!Hit, Cache!Found, Cache!GiveUp, Cache!Decode, Cache!Free, Cache!Taken,
     Cache!Fails
<1>4. ASSUME NEW l \in Loads, Cache!LookOn(l) \/ Cache!Downgrade(l) PROVE SleepInv'
  BY <1>4 DEF Cache!LookOn, Cache!Downgrade
<1>5. ASSUME NEW l \in Loads, Cache!Miss(l) \/ Cache!Redirected(l) \/ Cache!Put(l)
      PROVE  SleepInv'
  BY <1>5 DEF Cache!Miss, Cache!Redirected, Cache!Put
<1>6. ASSUME NEW l \in Loads, Cache!Lock(l) PROVE SleepInv'
  BY <1>6 DEF Cache!Lock
<1>7. ASSUME NEW l \in Loads, Cache!LetGo(l) PROVE SleepInv'
  BY <1>7 DEF Cache!LetGo
<1> QED
  BY <1>1, <1>2, <1>3, <1>4, <1>5, <1>6, <1>7 DEF Cache!Next, Cache!Step

\* What decoded is what is saved.
LEMMA SavingStep == Cache!TypeOK /\ SavingInv /\ [Cache!Next]_cacheVars => SavingInv'
<1> SUFFICES ASSUME Cache!TypeOK, SavingInv, [Cache!Next]_cacheVars PROVE SavingInv'
  OBVIOUS
<1>0. at \in [Loads -> Cache!Steps] /\ bytes \in [Loads -> {"none", "good", "bad"}]
  BY DEF Cache!TypeOK
<1> USE <1>0 DEF SavingInv, Cache!Goto
<1>1. CASE UNCHANGED cacheVars
  BY <1>1 DEF cacheVars
<1>2. CASE Cache!Tick
  BY <1>2 DEF Cache!Tick
<1>3. ASSUME NEW l \in Loads, Cache!Decode(l) \/ Cache!Free(l) PROVE SavingInv'
  BY <1>3 DEF Cache!Decode, Cache!Free
<1>4. ASSUME NEW l \in Loads, Cache!Found(l) PROVE SavingInv'
  BY <1>4 DEF Cache!Found
<1>5. ASSUME NEW l \in Loads, Cache!Taken(l) \/ Cache!Put(l) \/ Cache!Fails(l)
      PROVE  SavingInv'
  BY <1>5 DEF Cache!Taken, Cache!Put, Cache!Fails, Cache!Dropped
<1>6. ASSUME NEW l \in Loads,
             \/ Cache!Hit(l) \/ Cache!LookOn(l) \/ Cache!Miss(l) \/ Cache!Lock(l)
             \/ Cache!LetGo(l) \/ Cache!Redirected(l) \/ Cache!Downgrade(l)
             \/ Cache!GiveUp(l)
      PROVE  SavingInv'
  BY <1>6 DEF Cache!Hit, Cache!LookOn, Cache!Miss, Cache!Lock, Cache!LetGo,
     Cache!Redirected, Cache!Downgrade, Cache!GiveUp
<1> QED
  BY <1>1, <1>2, <1>3, <1>4, <1>5, <1>6 DEF Cache!Next, Cache!Step

\* Objects are only put, never taken away, and good ones not replaced by others.
LEMMA ObjectSteps ==
  ASSUME Cache!TypeOK, SavingInv, [Cache!Next]_cacheVars
  PROVE  /\ refused \subseteq refused'
         /\ \A k \in Images \X Cache!Rungs : object'[k] \in {object[k], "good"}
<1>0. /\ \A l \in Loads : Cache!Key(l) \in Images \X Cache!Rungs
      /\ object = [k \in Images \X Cache!Rungs |-> object[k]]
  BY CacheConstants DEF Cache!TypeOK, Cache!Key
<1>1. ASSUME NEW l \in Loads, at[l] = "put", Cache!Stored(l)
      PROVE  UNCHANGED refused /\ object' = [object EXCEPT ![Cache!Key(l)] = "good"]
  BY <1>1 DEF SavingInv, Cache!Stored
<1>2. \/ UNCHANGED <<object, refused>>
      \/ \E l \in Loads : at[l] = "put" /\ Cache!Stored(l)
      \/ \E l \in Loads : Cache!Refused(l)
  BY DEF cacheVars, Cache!Next, Cache!Step, Cache!Tick, Cache!Hit, Cache!LookOn, Cache!Miss,
     Cache!Lock, Cache!LetGo, Cache!Found, Cache!Redirected, Cache!Downgrade, Cache!GiveUp,
     Cache!Decode, Cache!Free, Cache!Taken, Cache!Put, Cache!Fails, Cache!Goto
<1> QED
  BY <1>0, <1>1, <1>2 DEF Cache!Refused

\* A load that is done has seen an object, put one, or had its upload refused.
LEMMA StoredStep ==
  Cache!TypeOK /\ SavingInv /\ StoredInv /\ [Cache!Next]_cacheVars => StoredInv'
<1> SUFFICES ASSUME Cache!TypeOK, SavingInv, StoredInv, [Cache!Next]_cacheVars,
                    NEW q \in Loads, at'[q] = "done", q \notin refused'
             PROVE  object'[Cache!Key(q)'] # "absent"
  BY DEF StoredInv
<1>0. /\ at \in [Loads -> Cache!Steps] /\ rung \in [Loads -> Cache!Rungs]
      /\ Cache!Key(q) \in Images \X Cache!Rungs
      /\ object = [k \in Images \X Cache!Rungs |-> object[k]]
  BY CacheConstants DEF Cache!TypeOK, Cache!Key
<1>1. /\ q \notin refused
      /\ object'[Cache!Key(q)] \in {object[Cache!Key(q)], "good"}
  BY <1>0, ObjectSteps
<1>2. CASE at[q] = "done"
  <2>1. rung'[q] = rung[q]
    BY <1>0, <1>2 DEF cacheVars, Cache!Next, Cache!Step, Cache!Tick, Cache!Hit, Cache!LookOn,
       Cache!Miss, Cache!Lock, Cache!LetGo, Cache!Found, Cache!Redirected, Cache!Downgrade,
       Cache!GiveUp, Cache!Decode, Cache!Free, Cache!Taken, Cache!Put, Cache!Fails, Cache!Goto
  <2> QED
    BY <1>1, <1>2, <2>1 DEF StoredInv, Cache!Key
<1>3. CASE at[q] # "done"
  <2>1. Cache!Hit(q) \/ Cache!Taken(q) \/ Cache!Put(q)
    <3>1. ASSUME NEW l \in Loads,
                 \/ Cache!LookOn(l) \/ Cache!Miss(l) \/ Cache!Lock(l) \/ Cache!LetGo(l)
                 \/ Cache!Found(l) \/ Cache!Redirected(l) \/ Cache!Downgrade(l)
                 \/ Cache!GiveUp(l) \/ Cache!Decode(l) \/ Cache!Free(l) \/ Cache!Fails(l)
          PROVE  FALSE
      BY <1>0, <1>3, <3>1 DEF Cache!LookOn, Cache!Miss, Cache!Lock, Cache!LetGo, Cache!Found,
         Cache!Redirected, Cache!Downgrade, Cache!GiveUp, Cache!Decode, Cache!Free,
         Cache!Fails, Cache!Goto
    <3>2. ASSUME NEW l \in Loads, Cache!Hit(l) \/ Cache!Taken(l) \/ Cache!Put(l)
          PROVE  l = q
      BY <1>0, <1>3, <3>2 DEF Cache!Hit, Cache!Taken, Cache!Put, Cache!Goto
    <3>3. ~UNCHANGED cacheVars /\ ~Cache!Tick
      BY <1>3 DEF cacheVars, Cache!Tick
    <3> QED
      BY <3>1, <3>2, <3>3 DEF Cache!Next, Cache!Step
  <2>2. Cache!Key(q)' = Cache!Key(q)
    BY <2>1 DEF Cache!Hit, Cache!Taken, Cache!Put, Cache!Key
  <2>3. CASE Cache!Hit(q) \/ Cache!Taken(q)
    BY <1>1, <2>2, <2>3 DEF Cache!Hit, Cache!Taken
  <2>4. CASE Cache!Put(q)
    <3>1. at[q] = "put" /\ Cache!Stored(q)
      BY <2>4 DEF Cache!Put, Cache!Goto, Cache!Refused
    <3>2. object'[Cache!Key(q)] = "good"
      BY <1>0, <3>1 DEF Cache!Stored, SavingInv
    <3> QED
      BY <2>2, <3>2
  <2> QED
    BY <2>1, <2>3, <2>4
<1> QED
  BY <1>2, <1>3

\* A load that is done has its image in the cache, but for corrupt objects and refused
\* uploads.
LEMMA DoneFacts == CacheInv => Cache!DoneIsCached
<1> SUFFICES ASSUME CacheInv, NEW l \in Loads, at[l] = "done", l \notin refused
             PROVE  object[Cache!Key(l)] \in {"good", "bad"}
  BY DEF Cache!DoneIsCached
<1>1. Cache!Key(l) \in Images \X Cache!Rungs
  BY CacheConstants DEF CacheInv, Cache!TypeOK, Cache!Key
<1> QED
  BY <1>1 DEF CacheInv, StoredInv, Cache!TypeOK

\* What every step of the loads keeps: the images and the gap.
LEMMA CacheActions ==
  CacheInv /\ [Cache!Next]_cacheVars => Cache!CacheGetsNoWorse /\ Cache!Spaced
<1> SUFFICES ASSUME CacheInv, [Cache!Next]_cacheVars
             PROVE  Cache!CacheGetsNoWorse /\ Cache!Spaced
  OBVIOUS
<1>0. /\ at = [l \in Loads |-> at[l]] /\ since \in 0 .. Gap /\ Gap \in Nat
      /\ timer \in [Loads -> 0 .. Gap]
  BY CacheConstants DEF CacheInv, Cache!TypeOK
<1>1. Cache!CacheGetsNoWorse
  BY ObjectSteps DEF CacheInv, Cache!CacheGetsNoWorse
<1>2. ASSUME NEW l \in Loads, Cache!LetGo(l) PROVE Cache!Spaced
  <2>1. at[l] = "sleep" /\ timer[l] = 0 /\ at' = [at EXCEPT ![l] = "request"]
    BY <1>2 DEF Cache!LetGo, Cache!Goto
  <2>2. since + timer[l] >= Gap
    BY <2>1 DEF CacheInv, SleepInv
  <2>3. since \in 0 .. Gap /\ Gap \in Nat /\ since + 0 >= Gap
    BY <1>0, <2>1, <2>2
  <2>4. since = Gap
    BY <2>3
  <2> QED
    BY <2>4 DEF Cache!Spaced
<1>3. \/ \E l \in Loads : Cache!LetGo(l)
      \/ \A l \in Loads : at[l] # "request" => at'[l] # "request"
  BY <1>0 DEF cacheVars, Cache!Next, Cache!Step, Cache!Tick, Cache!Hit, Cache!LookOn,
     Cache!Miss, Cache!Lock, Cache!Found, Cache!Redirected, Cache!Downgrade, Cache!GiveUp,
     Cache!Decode, Cache!Free, Cache!Taken, Cache!Fails, Cache!Put, Cache!Goto
<1> QED
  BY <1>1, <1>2, <1>3 DEF Cache!Spaced

\* Another stage does not touch the cache.
LEMMA StageOfCache == [WorkNext]_workVars => [Cache!Next]_cacheVars
  BY DEF WorkNext, workVars, FollowRedirects, ReadList, ReadListChecked, GetTokens, LoadImages,
     RenderDecks, ButFetch, ButList, ButTokens, ButCache, ButMemory

\* No good image goes and no broken one comes in; two requests of any number of loads are
\* a Gap apart; a load that returned an image leaves it in the store, unless a corrupt
\* object was in the way or the store refused the upload (get_image_by_id, delay).
THEOREM ImagesAreSafe == WorkSpec => ImagesStay
<1>1. WorkInit => CacheInv
  BY CacheInit DEF WorkInit
<1>2. CacheInv /\ [WorkNext]_workVars => CacheInv'
  BY CacheTypes, SleepStep, StoredStep, SavingStep, StageOfCache DEF CacheInv
<1>3. CacheInv /\ [WorkNext]_workVars => [Cache!CacheGetsNoWorse /\ Cache!Spaced]_workVars
  BY CacheActions, StageOfCache
<1>4. CacheInv => (stage = "images" => Cache!DoneIsCached)
  BY DoneFacts
<1> QED
  BY <1>1, <1>2, <1>3, <1>4, PTL DEF WorkSpec, ImagesStay

------------------------------------------------------------------------------
(* render_deck and make_pages: the memory of the renders *)

(***************************************************************************)
(* A render that has not begun has no loads, one that was rendered has     *)
(* taken them all, and no stream is ahead of what was taken from it by     *)
(* more than AtOnce.                                                       *)
(***************************************************************************)
AheadInv == \A r \in Renders : begun[r] <= taken[r] + AtOnce
BegunInv == \A r \in Renders :
  /\ phase[r] # "out" => result[r] = "none"
  /\ phase[r] = "waiting" \/ (phase[r] = "out" /\ result[r] = "none") => begun[r] = 0
  /\ result[r] = "rendered" => taken[r] = DeckImages
HolderInv == \A r, q \in Renders : phase[r] = "holding" /\ phase[q] = "holding" => r = q

MemoryInv == Memory!TypeOK /\ AheadInv /\ BegunInv /\ HolderInv

\* RenderMemory counts as this module does.
LEMMA MemorySets ==
  \A S : /\ Memory!IsFiniteSet(S) <=> IsFiniteSet(S)
         /\ Memory!Cardinality(S) = Cardinality(S)
<1>1. ASSUME NEW S PROVE Memory!Cardinality(S) = Cardinality(S)
  BY DEF Memory!Cardinality, Cardinality
<1> QED
  BY <1>1 DEF Memory!IsFiniteSet, IsFiniteSet

\* What is assumed of the renders.
LEMMA MemoryConstants ==
  IsFiniteSet(Renders) /\ DeckImages \in Nat /\ AtOnce \in Nat \ {0}
  BY MemoryAssumption, MemorySets DEF Memory!RendersAssumption, Memory!ImagesAssumption,
     Memory!ParallelismAssumption

\* The numbers from the one after m up to n.
LEMMA NumbersBetween ==
  ASSUME NEW m \in Nat, NEW n \in Nat
  PROVE  /\ IsFiniteSet(m + 1 .. n)
         /\ Cardinality(m + 1 .. n) = IF m <= n THEN n - m ELSE 0
<1> DEFINE a == m + 1
<1>1. a \in Int /\ n \in Int
  OBVIOUS
<1> HIDE DEF a
<1>2. IsFiniteSet(a .. n) /\ Cardinality(a .. n) = IF a > n THEN 0 ELSE n - a + 1
  BY <1>1, FS_Interval
<1> QED
  BY <1>2 DEF a

\* The images that were loaded are finitely many; nothing is loaded before the first.
LEMMA LoadedFacts ==
  ASSUME Memory!TypeOK, NEW r \in Renders
  PROVE  /\ IsFiniteSet(loaded[r]) /\ Cardinality(loaded[r]) \in 0 .. begun[r]
         /\ begun[r] \in 0 .. DeckImages /\ taken[r] \in 0 .. Cardinality(loaded[r])
<1>1. /\ begun[r] \in 0 .. DeckImages /\ loaded[r] \in SUBSET (1 .. begun[r])
      /\ taken[r] \in 0 .. DeckImages /\ taken[r] <= Cardinality(loaded[r])
  BY MemorySets DEF Memory!TypeOK
<1>2. IsFiniteSet(1 .. begun[r]) /\ Cardinality(1 .. begun[r]) = begun[r]
  <2>1. 0 + 1 = 1 /\ 0 \in Nat /\ begun[r] \in Nat
    BY <1>1, MemoryConstants
  <2> QED
    BY <2>1, NumbersBetween
<1>3. IsFiniteSet(loaded[r]) /\ Cardinality(loaded[r]) <= begun[r]
  BY <1>1, <1>2, FS_Subset
<1>4. Cardinality(loaded[r]) \in Nat
  BY <1>3, FS_CardinalityType
<1> QED
  BY <1>1, <1>3, <1>4, MemoryConstants

\* No render has begun.
LEMMA MemoryInit == Memory!Init => MemoryInv
<1> SUFFICES ASSUME Memory!Init PROVE MemoryInv
  OBVIOUS
<1> USE MemoryConstants DEF Memory!Init, Memory!Mutex!Init
<1>1. Memory!TypeOK
  <2>1. \A r \in Renders : loaded[r] = {} /\ Cardinality(loaded[r]) = 0
    BY FS_EmptySet
  <2> QED
    BY <2>1, MemorySets DEF Memory!TypeOK
<1> QED
  BY <1>1 DEF MemoryInv, AheadInv, BegunInv, HolderInv

\* No step of a render leaves the invariant.
LEMMA MemoryStep == MemoryInv /\ [Memory!Next]_memoryVars => MemoryInv'
<1> SUFFICES ASSUME MemoryInv, [Memory!Next]_memoryVars PROVE MemoryInv'
  OBVIOUS
<1> USE MemoryConstants DEF MemoryInv, Memory!Mutex!Request, Memory!Mutex!Acquire,
    Memory!Mutex!Release
<1>1. CASE UNCHANGED memoryVars
  BY <1>1 DEF memoryVars, Memory!TypeOK, AheadInv, BegunInv, HolderInv
<1>2. ASSUME NEW r \in Renders, Memory!Ask(r) PROVE MemoryInv'
  BY <1>2 DEF Memory!Ask, Memory!TypeOK, AheadInv, BegunInv, HolderInv
<1>3. ASSUME NEW r \in Renders, Memory!Begin(r) PROVE MemoryInv'
  <2> DEFINE n == Memory!Least(DeckImages, AtOnce)
  <2>1. n \in 0 .. DeckImages /\ n <= AtOnce
    BY DEF Memory!Least
  <2> HIDE DEF n
  <2>2. /\ phase[r] = "waiting" /\ \A q \in Renders : phase[q] # "holding"
        /\ phase' = [phase EXCEPT ![r] = "holding"] /\ begun' = [begun EXCEPT ![r] = n]
        /\ UNCHANGED <<loaded, taken, result>>
    BY <1>3 DEF Memory!Begin, Memory!Mutex!Holders, n
  <2>3. begun[r] = 0 /\ loaded[r] = {} /\ taken[r] \in Nat
    BY <2>2 DEF BegunInv, Memory!TypeOK
  <2>4. Memory!TypeOK'
    BY <2>1, <2>2, <2>3 DEF Memory!TypeOK
  <2>5. AheadInv'
    BY <2>1, <2>2, <2>3 DEF AheadInv, Memory!TypeOK
  <2> QED
    BY <2>2, <2>4, <2>5 DEF Memory!TypeOK, BegunInv, HolderInv
<1>4. ASSUME NEW r \in Renders, Memory!Take(r) PROVE MemoryInv'
  <2> DEFINE n == Memory!Least(DeckImages, taken[r] + 1 + AtOnce)
  <2>1. /\ taken[r] \in Nat /\ taken[r] < Cardinality(loaded[r])
        /\ begun[r] \in 0 .. DeckImages /\ Cardinality(loaded[r]) \in 0 .. begun[r]
        /\ begun[r] <= taken[r] + AtOnce
    BY <1>4, LoadedFacts, MemorySets DEF Memory!Take, AheadInv, Memory!TypeOK
  <2>2. n \in begun[r] .. DeckImages /\ n <= taken[r] + 1 + AtOnce
    BY <2>1 DEF Memory!Least
  <2>3. /\ taken' = [taken EXCEPT ![r] = taken[r] + 1] /\ taken'[r] = taken[r] + 1
        /\ UNCHANGED <<phase, loaded, result>> /\ phase[r] = "holding"
    BY <1>4 DEF Memory!Take, Memory!TypeOK
  <2>4. begun' = [begun EXCEPT ![r] = n]
    BY <1>4, <2>3 DEF Memory!Take
  <2> HIDE DEF n
  <2>5. Memory!TypeOK'
    <3>1. begun' \in [Renders -> 0 .. DeckImages] /\ taken' \in [Renders -> 0 .. DeckImages]
      BY <2>1, <2>2, <2>3, <2>4 DEF Memory!TypeOK
    <3>2. \A q \in Renders : loaded'[q] \subseteq 1 .. begun'[q]
      BY <2>1, <2>2, <2>3, <2>4 DEF Memory!TypeOK
    <3>3. \A q \in Renders : taken'[q] <= Cardinality(loaded'[q])
      BY <2>1, <2>3, MemorySets DEF Memory!TypeOK
    <3> QED
      BY <2>3, <3>1, <3>2, <3>3, MemorySets DEF Memory!TypeOK
  <2>6. AheadInv'
    BY <2>2, <2>3, <2>4 DEF AheadInv, Memory!TypeOK
  <2> QED
    BY <2>3, <2>4, <2>5, <2>6 DEF Memory!TypeOK, BegunInv, HolderInv
<1>5. ASSUME NEW r \in Renders, Memory!Fail(r) PROVE MemoryInv'
  BY <1>5 DEF Memory!Fail, Memory!TypeOK, AheadInv, BegunInv, HolderInv
<1>6. ASSUME NEW r \in Renders, Memory!Complete(r) PROVE MemoryInv'
  BY <1>6 DEF Memory!Complete, Memory!TypeOK, AheadInv, BegunInv, HolderInv
<1>7. ASSUME NEW r \in Renders, NEW i \in 1 .. DeckImages, Memory!Finish(r, i) PROVE MemoryInv'
  <2>1. /\ loaded' = [loaded EXCEPT ![r] = loaded[r] \cup {i}] /\ i \in 1 .. begun[r]
        /\ UNCHANGED <<phase, begun, taken, result>>
    BY <1>7 DEF Memory!Finish, Memory!Loading
  <2>2. Cardinality(loaded[r] \cup {i}) >= Cardinality(loaded[r])
    <3>1. IsFiniteSet(loaded[r]) /\ Cardinality(loaded[r]) \in Nat
      BY LoadedFacts, FS_CardinalityType
    <3>2. /\ IsFiniteSet(loaded[r] \cup {i})
          /\ \/ Cardinality(loaded[r] \cup {i}) = Cardinality(loaded[r])
             \/ Cardinality(loaded[r] \cup {i}) = Cardinality(loaded[r]) + 1
      BY <3>1, FS_AddElement
    <3> QED
      BY <3>1, <3>2
  <2>3. \A q \in Renders : taken'[q] <= Cardinality(loaded'[q])
    <3> SUFFICES ASSUME NEW q \in Renders PROVE taken'[q] <= Cardinality(loaded'[q])
      OBVIOUS
    <3>1. taken[q] \in Nat /\ Cardinality(loaded[q]) \in Nat
          /\ taken[q] <= Cardinality(loaded[q]) /\ taken'[q] = taken[q]
      BY <2>1, LoadedFacts
    <3>2. CASE q = r
      <4>1. loaded'[q] = loaded[r] \cup {i}
        BY <2>1, <3>2 DEF Memory!TypeOK
      <4>2. IsFiniteSet(loaded[r] \cup {i}) /\ Cardinality(loaded[r] \cup {i}) \in Nat
        BY LoadedFacts, FS_AddElement, FS_CardinalityType
      <4> QED
        BY <2>2, <3>1, <3>2, <4>1, <4>2
    <3>3. CASE q # r
      BY <2>1, <3>1, <3>3 DEF Memory!TypeOK
    <3> QED
      BY <3>2, <3>3
  <2>4. Memory!TypeOK'
    BY <2>1, <2>3, MemorySets DEF Memory!TypeOK
  <2> QED
    BY <2>1, <2>4 DEF Memory!TypeOK, AheadInv, BegunInv, HolderInv
<1> QED
  BY <1>1, <1>2, <1>3, <1>4, <1>5, <1>6, <1>7 DEF Memory!Next

\* Of sets that have at most n elements each there are at most n for each of their names.
LEMMA FewOfEach ==
  ASSUME NEW R, IsFiniteSet(R), NEW n \in Nat, NEW f,
         \A r \in R : IsFiniteSet(f[r]) /\ Cardinality(f[r]) <= n
  PROVE  LET S == UNION {{r} \X f[r] : r \in R}
         IN  IsFiniteSet(S) /\ Cardinality(S) <= n * Cardinality(R)
<1> DEFINE S == UNION {{r} \X f[r] : r \in R}
<1>1. ASSUME NEW r \in R PROVE \E g : g \in Injection(f[r], 1 .. n)
  <2>1. Cardinality(f[r]) \in 0 .. n /\ ExistsBijection(1 .. Cardinality(f[r]), f[r])
    BY FS_CardinalityType
  <2>2. ExistsInjection(f[r], 1 .. Cardinality(f[r]))
    BY <2>1, Fun_ExistsBijEquiv
  <2>3. ExistsInjection(1 .. Cardinality(f[r]), 1 .. n)
    BY <2>1, Fun_NatInjLeq
  <2>4. ExistsInjection(f[r], 1 .. n)
    BY <2>2, <2>3, Fun_ExistsInjTransitive
  <2> QED
    BY <2>4, Fun_ExistsInj
<1> DEFINE g == [r \in R |-> CHOOSE h : h \in Injection(f[r], 1 .. n)]
<1>2. \A r \in R : g[r] \in Injection(f[r], 1 .. n)
  BY <1>1
<1> HIDE DEF g
<1>3. \A r \in R : /\ g[r] \in [f[r] -> 1 .. n]
                   /\ \A a, b \in f[r] : g[r][a] = g[r][b] => a = b
  BY <1>2, Fun_InjectionProperties
<1> DEFINE F == [x \in S |-> <<x[1], g[x[1]][x[2]]>>]
<1>4. \A x \in S : x[1] \in R /\ x[2] \in f[x[1]] /\ x = <<x[1], x[2]>>
  OBVIOUS
<1> HIDE DEF S
<1>5. F \in [S -> R \X (1 .. n)]
  BY <1>3, <1>4
<1>6. ASSUME NEW x \in S, NEW y \in S, F[x] = F[y] PROVE x = y
  BY <1>3, <1>4, <1>6
<1> HIDE DEF F
<1>7. F \in Injection(S, R \X (1 .. n))
  BY <1>5, <1>6, Fun_IsInj
<1>8. IsFiniteSet(1 .. n) /\ Cardinality(1 .. n) = n
  BY FS_Interval
<1>9. IsFiniteSet(R \X (1 .. n)) /\ Cardinality(R \X (1 .. n)) = Cardinality(R) * n
  BY <1>8, FS_Product
<1>10. IsFiniteSet(S) /\ Cardinality(S) <= Cardinality(R) * n
  BY <1>7, <1>9, FS_Injection
<1>11. Cardinality(R) \in Nat
  BY FS_CardinalityType
<1> QED
  BY <1>10, <1>11 DEF S

\* A render has at most AtOnce images in memory, and none once it was rendered.
LEMMA EachRenderHolds ==
  ASSUME MemoryInv, NEW r \in Renders
  PROVE  /\ IsFiniteSet(Memory!InMemory(r)) /\ Cardinality(Memory!InMemory(r)) <= AtOnce
         /\ Memory!InMemory(r) # {} => phase[r] = "holding" \/ result[r] = "failed"
         /\ phase[r] # "holding" /\ Memory!Loading(r) # {} => result[r] = "failed"
<1> USE MemoryConstants DEF MemoryInv
<1>1. /\ IsFiniteSet(loaded[r]) /\ Cardinality(loaded[r]) \in 0 .. begun[r]
      /\ begun[r] \in 0 .. DeckImages /\ taken[r] \in 0 .. Cardinality(loaded[r])
      /\ begun[r] <= taken[r] + AtOnce /\ loaded[r] \in SUBSET (1 .. begun[r])
  BY LoadedFacts DEF AheadInv, Memory!TypeOK
<1>2. IsFiniteSet(1 .. begun[r]) /\ Cardinality(1 .. begun[r]) = begun[r]
  <2>1. 0 + 1 = 1 /\ 0 \in Nat /\ begun[r] \in Nat
    BY <1>1
  <2> QED
    BY <2>1, NumbersBetween
<1>3. /\ IsFiniteSet(Memory!Loading(r))
      /\ Cardinality(Memory!Loading(r)) = begun[r] - Cardinality(loaded[r])
  <2>1. (1 .. begun[r]) \cap loaded[r] = loaded[r]
    BY <1>1
  <2> QED
    BY <1>1, <1>2, <2>1, FS_Difference DEF Memory!Loading
<1>4. phase[r] # "holding" /\ Memory!Loading(r) # {} => result[r] = "failed"
  <2> SUFFICES ASSUME phase[r] # "holding", result[r] # "failed" PROVE Memory!Loading(r) = {}
    OBVIOUS
  <2>1. CASE result[r] = "rendered"
    <3>1. Cardinality(loaded[r]) = begun[r]
      BY <1>1, <2>1 DEF BegunInv
    <3> QED
      BY <1>1, <1>3, <3>1, FS_EmptySet
  <2>2. CASE result[r] = "none"
    <3>1. begun[r] = 0
      BY <2>2 DEF BegunInv, Memory!TypeOK
    <3> QED
      BY <3>1 DEF Memory!Loading
  <2> QED
    BY <2>1, <2>2 DEF Memory!TypeOK
<1>5. CASE phase[r] = "holding"
  <2>1. IsFiniteSet(taken[r] + 1 .. begun[r])
        /\ Cardinality(taken[r] + 1 .. begun[r]) <= AtOnce
    <3>1. taken[r] \in Nat /\ begun[r] \in Nat
      BY <1>1
    <3>2. /\ IsFiniteSet(taken[r] + 1 .. begun[r])
          /\ \/ Cardinality(taken[r] + 1 .. begun[r]) = 0
             \/ Cardinality(taken[r] + 1 .. begun[r]) = begun[r] - taken[r]
      BY <3>1, NumbersBetween
    <3> QED
      BY <1>1, <3>1, <3>2
  <2> QED
    BY <1>4, <1>5, <2>1 DEF Memory!InMemory
<1>6. CASE phase[r] # "holding"
  BY <1>1, <1>3, <1>4, <1>6 DEF Memory!InMemory
<1> QED
  BY <1>5, <1>6

\* What the invariant of the renders says of the images in memory.
LEMMA MemoryFacts == MemoryInv => Memory!PeakBound /\ Memory!SuccessLeavesNothing
<1> SUFFICES ASSUME MemoryInv PROVE Memory!PeakBound /\ Memory!SuccessLeavesNothing
  OBVIOUS
<1> DEFINE R == {r \in Renders : phase[r] = "holding" \/ result[r] = "failed"}
           f == [r \in R |-> Memory!InMemory(r)]
           S == UNION {{r} \X f[r] : r \in R}
<1>1. Memory!SuccessLeavesNothing
  BY EachRenderHolds DEF Memory!SuccessLeavesNothing
<1>2. Memory!Memory = S
  <2>1. \A r \in Renders \ R : Memory!InMemory(r) = {}
    BY EachRenderHolds
  <2>2. \A r \in R : f[r] = Memory!InMemory(r) /\ r \in Renders
    OBVIOUS
  <2> HIDE DEF R, f
  <2> QED
    BY <2>1, <2>2 DEF Memory!Memory
<1>3. IsFiniteSet(Memory!Failed) /\ Cardinality(Memory!Failed) \in Nat
  BY FS_Subset, FS_CardinalityType, MemoryConstants DEF Memory!Failed
<1>4. IsFiniteSet(R) /\ Cardinality(R) <= 1 + Cardinality(Memory!Failed)
  <2>1. CASE R \subseteq Memory!Failed
    <3>1. IsFiniteSet(R) /\ Cardinality(R) <= Cardinality(Memory!Failed)
      BY <1>3, <2>1, FS_Subset
    <3>2. Cardinality(R) \in Nat
      BY <3>1, FS_CardinalityType
    <3> QED
      BY <1>3, <3>1, <3>2
  <2>2. CASE ~(R \subseteq Memory!Failed)
    <3>1. PICK r \in R : phase[r] = "holding"
      BY <2>2 DEF Memory!Failed
    <3>2. R \in SUBSET (Memory!Failed \cup {r})
      BY <3>1 DEF MemoryInv, HolderInv, Memory!Failed
    <3>3. /\ IsFiniteSet(Memory!Failed \cup {r})
          /\ Cardinality(Memory!Failed \cup {r}) <= 1 + Cardinality(Memory!Failed)
      BY <1>3, FS_AddElement
    <3>4. IsFiniteSet(R) /\ Cardinality(R) <= Cardinality(Memory!Failed \cup {r})
      BY <3>2, <3>3, FS_Subset
    <3>5. Cardinality(R) \in Nat /\ Cardinality(Memory!Failed \cup {r}) \in Nat
      BY <3>3, <3>4, FS_CardinalityType
    <3> QED
      BY <1>3, <3>3, <3>4, <3>5
  <2> QED
    BY <2>1, <2>2
<1>5. \A r \in R : IsFiniteSet(f[r]) /\ Cardinality(f[r]) <= AtOnce
  BY EachRenderHolds
<1> HIDE DEF R, f
<1>6. IsFiniteSet(S) /\ Cardinality(S) <= AtOnce * Cardinality(R)
  BY <1>4, <1>5, FewOfEach, MemoryConstants
<1>7. AtOnce * Cardinality(R) <= AtOnce * (1 + Cardinality(Memory!Failed))
  <2>1. \A m, n, k \in Nat : m <= n => k * m <= k * n
    OBVIOUS
  <2> QED
    BY <1>3, <1>4, <2>1, FS_CardinalityType, MemoryConstants
<1>8. Cardinality(S) \in Nat /\ Cardinality(R) \in Nat
  BY <1>4, <1>6, FS_CardinalityType
<1>9. Memory!PeakBound
  <2> HIDE DEF S
  <2> DEFINE a == AtOnce * Cardinality(R)
             b == AtOnce * (1 + Cardinality(Memory!Failed))
  <2>1. a \in Nat /\ b \in Nat /\ Cardinality(S) <= a /\ a <= b
    BY <1>3, <1>6, <1>7, <1>8, MemoryConstants
  <2>2. Cardinality(S) <= b
    BY <1>8, <2>1
  <2> QED
    BY <1>2, <2>2, MemorySets DEF Memory!PeakBound
<1> QED
  BY <1>1, <1>9

------------------------------------------------------------------------------
(* The stages together *)

\* Nobody changes stage, and every stage leaves the others' variables alone.
LEMMA StagesApart == [WorkNext]_workVars => /\ [Fetch!Next]_fetchVars
                               /\ [Memory!Next]_memoryVars
                               /\ UNCHANGED stage
  BY DEF WorkNext, workVars, FollowRedirects, ReadList, ReadListChecked, GetTokens, LoadImages,
     RenderDecks, ButFetch, ButList, ButTokens, ButCache, ButMemory

LEMMA TokensApart == [WorkNext]_workVars => [Tokens!Next]_tokenVars
  BY DEF WorkNext, workVars, FollowRedirects, ReadList, ReadListChecked, GetTokens, LoadImages,
     RenderDecks, ButFetch, ButList, ButTokens, ButCache, ButMemory

LEMMA ListStage == ListInv /\ [WorkNext]_workVars => ListInv'
<1> SUFFICES ASSUME ListInv, [WorkNext]_workVars PROVE ListInv'
  OBVIOUS
<1>1. CASE ReadList
  BY <1>1, ReleaseStep DEF ReadList, ButList
<1>2. CASE ReadListChecked
  BY <1>2, DebugStep DEF ReadListChecked, ButList
<1>3. CASE UNCHANGED <<stage, listVars>>
  BY <1>3 DEF listVars, ListInv, ListTypes, CopiesInv, ExactInv, FitInv, SavedInv, IsPile
<1>4. ReadList \/ ReadListChecked \/ UNCHANGED <<stage, listVars>>
  BY DEF WorkNext, workVars, FollowRedirects, GetTokens, LoadImages, RenderDecks, ButFetch,
     ButTokens, ButCache, ButMemory
<1> QED
  BY <1>1, <1>2, <1>3, <1>4

\* What a stage hands on is what it was asked for, whatever the sites answer: the end of
\* the redirections, the copies of the list, the tokens of all related cards
\* (RedirectMiddleware, loaders.rs, expand_oracle_id, get_tokens).
THEOREM ResultsHold == WorkSpec => []ResultsAreRight
<1> DEFINE TokensInv == stage = "tokens" => SearchInv
           Inv == FetchInv /\ ListInv /\ TokensInv
<1>1. WorkInit => Inv
  BY FetchInit, ListInit, SearchInit DEF WorkInit
<1>2. Inv /\ [WorkNext]_workVars => Inv'
  <2> SUFFICES ASSUME Inv, [WorkNext]_workVars PROVE Inv'
    OBVIOUS
  <2>1. FetchInv'
    BY FetchStep, StagesApart
  <2>2. ListInv'
    BY ListStage
  <2>3. stage' = "tokens" => SearchInv'
    BY SearchStep, StagesApart, TokensApart
  <2> QED
    BY <2>1, <2>2, <2>3
<1>3. Inv => ResultsAreRight
  BY FetchFacts, ListFacts, SearchFacts DEF ResultsAreRight
<1> QED
  BY <1>1, <1>2, <1>3, PTL DEF WorkSpec

\* However many renders failed and left their loads behind, memory holds at most
\* AtOnce images of each and of the render that goes on; one that succeeds
\* leaves none (render_deck, make_pages).
THEOREM MemoryBounded == WorkSpec => []MemoryHeld
<1>1. WorkInit => MemoryInv
  BY MemoryInit DEF WorkInit
<1>2. MemoryInv /\ [WorkNext]_workVars => MemoryInv'
  BY MemoryStep, StagesApart
<1>3. MemoryInv => MemoryHeld
  BY MemoryFacts DEF MemoryHeld
<1> QED
  BY <1>1, <1>2, <1>3, PTL DEF WorkSpec

------------------------------------------------------------------------------
(* AsyncParallelStream: the loads of one render.  RenderMemory says how    *)
(* many of them there are when; here is the stream itself.                 *)

(***************************************************************************)
(* The inductive invariant.  After every spawn_tasks the stream is full or *)
(* the iterator is exhausted, and no later step of a poll changes that: so *)
(* the spawn_tasks at the end of a poll that found nothing adds no task    *)
(* that nobody has polled.  The tasks behind the ones a scan has still to  *)
(* look at were polled in this scan: each is pending with the consumer's   *)
(* waker, or it finished afterwards and called it.                         *)
(***************************************************************************)
InStream == Len(tasks) + Len(values)

FullInv == InStream = Parallelism \/ (InStream < Parallelism /\ spawned = Total)
BusyInv == /\ pc \in {"scan", "parked"} => InStream > 0
           /\ pc = "parked" => values = <<>> /\ left = 0
           /\ pc = "end" => tasks = <<>> /\ values = <<>>
DoneInv == Elements(values) \cup Elements(yielded) \subseteq finished
PolledInv ==
  pc \in {"scan", "parked"} =>
    \A i \in left + 1 .. Len(tasks) :
      IF tasks[i] \in finished THEN woken ELSE tasks[i] \in wakers
PlaceInv == /\ Elements(tasks) \cup Elements(values) \cup Elements(yielded) = 1 .. spawned
            /\ InStream + Len(yielded) = spawned

StreamInv == TypeOK /\ FullInv /\ BusyInv /\ DoneInv /\ PolledInv /\ PlaceInv

------------------------------------------------------------------------------
(* Sequences as queues *)

\* Appending adds one element.
LEMMA ElementsAppend ==
  ASSUME NEW S, NEW s \in Seq(S), NEW e \in S
  PROVE  Elements(Append(s, e)) = Elements(s) \cup {e}
  BY DEF Elements

\* The head and the tail of a queue hold all its elements.
LEMMA ElementsHeadTail ==
  ASSUME NEW S, NEW s \in Seq(S), s # <<>>
  PROVE  Elements(s) = {Head(s)} \cup Elements(Tail(s))
<1>1. \A i \in 2 .. Len(s) : i - 1 \in 1 .. Len(Tail(s)) /\ Tail(s)[i - 1] = s[i]
  BY HeadTailProperties
<1>2. \A i \in 1 .. Len(Tail(s)) : i + 1 \in 2 .. Len(s) /\ Tail(s)[i] = s[i + 1]
  BY HeadTailProperties
<1>3. Len(s) \in Nat \ {0} /\ Head(s) = s[1]
  BY EmptySeq
<1>4. Elements(s) = {s[1]} \cup {s[i] : i \in 2 .. Len(s)}
  BY <1>3 DEF Elements
<1>5. {s[i] : i \in 2 .. Len(s)} = Elements(Tail(s))
  BY <1>1, <1>2 DEF Elements
<1> QED
  BY <1>3, <1>4, <1>5

\* Concatenation joins the elements.
LEMMA ElementsConcat ==
  ASSUME NEW S, NEW s \in Seq(S), NEW t \in Seq(S)
  PROVE  Elements(s \o t) = Elements(s) \cup Elements(t)
<1>1. ASSUME NEW i \in 1 .. Len(s) PROVE s[i] \in Elements(s \o t)
  BY <1>1, ConcatProperties DEF Elements
<1>2. ASSUME NEW i \in 1 .. Len(t) PROVE t[i] \in Elements(s \o t)
  <2>1. Len(s) + i \in 1 .. Len(s \o t) /\ (s \o t)[Len(s) + i] = t[i]
    BY ConcatProperties, LenProperties
  <2> QED
    BY <2>1 DEF Elements
<1>3. ASSUME NEW i \in 1 .. Len(s \o t) PROVE (s \o t)[i] \in Elements(s) \cup Elements(t)
  <2>1. CASE i <= Len(s)
    BY <2>1, ConcatProperties, LenProperties DEF Elements
  <2>2. CASE i > Len(s)
    <3>1. i - Len(s) \in 1 .. Len(t) /\ (s \o t)[i] = t[i - Len(s)]
      BY <2>2, ConcatProperties, LenProperties
    <3> QED
      BY <3>1 DEF Elements
  <2> QED
    BY <2>1, <2>2, ConcatProperties, LenProperties
<1> QED
  BY <1>1, <1>2, <1>3 DEF Elements

\* A sequence has no more elements than places.
LEMMA ElementsCardinality ==
  ASSUME NEW S, NEW s \in Seq(S)
  PROVE  IsFiniteSet(Elements(s)) /\ Cardinality(Elements(s)) <= Len(s)
<1>1. s \in [1 .. Len(s) -> Elements(s)] /\ Len(s) \in Nat
  BY LenProperties DEF Elements
<1>2. s \in Surjection(1 .. Len(s), Elements(s))
  BY <1>1 DEF Surjection, Elements
<1>3. IsFiniteSet(1 .. Len(s)) /\ Cardinality(1 .. Len(s)) = Len(s)
  <2>1. 1 \in Int /\ Len(s) \in Int /\ (IF 1 > Len(s) THEN 0 ELSE Len(s) - 1 + 1) = Len(s)
    BY <1>1
  <2> QED
    BY <2>1, FS_Interval
<1> QED
  BY <1>2, <1>3, FS_Surjection

\* The fresh tasks: how many there are, and which.
LEMMA FreshProperties ==
  ASSUME TypeOK, NEW ts \in Seq(Ids), NEW vs \in Seq(Ids)
  PROVE  LET n == Len(Fresh(ts, vs))
         IN  /\ Fresh(ts, vs) \in Seq(Ids)
             /\ n \in 0 .. Total - spawned
             /\ n = IF Room(ts, vs) <= 0 THEN 0
                    ELSE IF Room(ts, vs) <= Total - spawned THEN Room(ts, vs)
                    ELSE Total - spawned
             /\ Elements(Fresh(ts, vs)) = spawned + 1 .. spawned + n
<1> DEFINE n == IF Room(ts, vs) <= 0 THEN 0
                ELSE IF Room(ts, vs) <= Total - spawned THEN Room(ts, vs)
                ELSE Total - spawned
<1>1. Len(ts) \in Nat /\ Len(vs) \in Nat
  BY LenProperties
<1>2. n \in 0 .. Total - spawned
  BY <1>1, TotalAssumption, ParallelismAssumption DEF Room, TypeOK
<1> HIDE DEF n
<1>3. Fresh(ts, vs) = [i \in 1 .. n |-> spawned + i]
  BY DEF Fresh, n
<1>4. \A i \in 1 .. n : spawned + i \in Ids
  BY <1>2, TotalAssumption DEF Ids, TypeOK
<1>5. Fresh(ts, vs) \in Seq(Ids) /\ Len(Fresh(ts, vs)) = n
  BY <1>2, <1>3, <1>4, TotalAssumption
<1>6. Elements(Fresh(ts, vs)) = spawned + 1 .. spawned + n
  <2>1. Elements(Fresh(ts, vs)) = {spawned + i : i \in 1 .. n}
    BY <1>3, <1>5 DEF Elements
  <2>2. ASSUME NEW k \in spawned + 1 .. spawned + n
        PROVE  k - spawned \in 1 .. n /\ k = spawned + (k - spawned)
    BY <1>2, TotalAssumption DEF TypeOK
  <2>3. ASSUME NEW i \in 1 .. n PROVE spawned + i \in spawned + 1 .. spawned + n
    BY <1>2, TotalAssumption DEF TypeOK
  <2> QED
    BY <2>1, <2>2, <2>3
<1> QED
  BY <1>2, <1>5, <1>6 DEF n

------------------------------------------------------------------------------
(* The invariant is inductive *)

\* A spawn_tasks that finds the stream full or the iterator empty does nothing.
LEMMA SpawnWhenFull ==
  ASSUME TypeOK, FullInv, SpawnTasks(tasks, values)
  PROVE  tasks' = tasks /\ spawned' = spawned
<1>1. Len(tasks) \in Nat /\ Len(values) \in Nat
  BY LenProperties DEF TypeOK
<1>2. Fresh(tasks, values) \in Seq(Ids) /\ Len(Fresh(tasks, values)) = 0
  <2>1. Room(tasks, values) <= 0 \/ Total - spawned = 0
    BY <1>1, TotalAssumption, ParallelismAssumption DEF TypeOK, FullInv, InStream, Room
  <2>2. Total - spawned >= 0
    BY TotalAssumption DEF TypeOK
  <2> QED
    BY <2>1, <2>2, FreshProperties DEF TypeOK
<1>3. Fresh(tasks, values) = <<>>
  BY <1>2, EmptySeq
<1> QED
  BY <1>1, <1>2, <1>3, ConcatEmptySeq, TotalAssumption DEF SpawnTasks, TypeOK

LEMMA StreamInit == Init => StreamInv
<1> SUFFICES ASSUME Init PROVE StreamInv
  OBVIOUS
<1> USE TotalAssumption, ParallelismAssumption
<1>1. /\ spawned \in 0 .. Total
      /\ spawned = Parallelism \/ (spawned < Parallelism /\ spawned = Total)
  BY DEF Init
<1>2. tasks \in Seq(Ids) /\ Len(tasks) = spawned
  BY <1>1 DEF Init, Ids
<1>3. Elements(tasks) = 1 .. spawned
  BY <1>1, <1>2 DEF Init, Elements
<1>4. values = <<>> /\ yielded = <<>> /\ Len(values) = 0 /\ Elements(<<>>) = {}
  BY DEF Init, Elements
<1>5. TypeOK
  <2>1. values \in Seq(Ids) /\ yielded \in Seq(Ids)
    BY <1>4, EmptySeq
  <2>2. left \in 0 .. Len(tasks)
    BY <1>1, <1>2 DEF Init
  <2> QED
    BY <1>1, <1>2, <2>1, <2>2 DEF Init, TypeOK
<1> QED
  BY <1>1, <1>2, <1>3, <1>4, <1>5
  DEF StreamInv, FullInv, BusyInv, DoneInv, PolledInv, PlaceInv, InStream, Init

LEMMA FinishStep ==
  ASSUME StreamInv, NEW f \in Ids, Finish(f)
  PROVE  StreamInv'
<1> USE DEF StreamInv
<1>1. TypeOK' /\ FullInv' /\ BusyInv' /\ DoneInv' /\ PlaceInv'
  BY DEF Finish, stream, TypeOK, FullInv, BusyInv, DoneInv, PlaceInv, InStream
<1>2. PolledInv'
  BY DEF Finish, stream, PolledInv
<1> QED
  BY <1>1, <1>2

LEMMA PollNextStep ==
  ASSUME StreamInv, PollNext
  PROVE  StreamInv'
<1> USE DEF StreamInv
<1>1. tasks' = tasks /\ spawned' = spawned
  BY SpawnWhenFull DEF PollNext
<1>2. Len(tasks) \in Nat /\ Len(values) \in Nat
  BY LenProperties DEF TypeOK
<1>3. tasks # <<>> \/ values # <<>> => InStream > 0
  BY <1>2, EmptySeq DEF TypeOK, InStream
<1>4. TypeOK'
  <2>1. pc' \in {"scan", "end"} /\ left' \in 0 .. Len(tasks)
    BY <1>1, <1>2 DEF PollNext
  <2> QED
    BY <1>1, <2>1 DEF PollNext, TypeOK
<1>7. FullInv' /\ DoneInv' /\ PlaceInv'
  BY <1>1 DEF PollNext, FullInv, DoneInv, PlaceInv, InStream
<1>5. BusyInv'
  BY <1>1, <1>3 DEF PollNext, BusyInv, InStream
<1>6. PolledInv'
  BY <1>1, <1>2 DEF PollNext, PolledInv
<1> QED
  BY <1>4, <1>5, <1>6, <1>7

LEMMA ParkStep ==
  ASSUME StreamInv, Park
  PROVE  StreamInv'
<1> USE DEF StreamInv
<1>1. tasks' = tasks /\ spawned' = spawned
  BY SpawnWhenFull DEF Park
<1> QED
  BY <1>1
  DEF Park, TypeOK, FullInv, BusyInv, DoneInv, PolledInv, PlaceInv, InStream

LEMMA TakeValueStep ==
  ASSUME StreamInv, TakeValue
  PROVE  StreamInv'
<1> USE DEF StreamInv
<1>1. tasks # <<>> /\ left \in 1 .. Len(tasks)
  BY LenProperties DEF TakeValue, TypeOK
<1>2. /\ Head(tasks) \in Ids /\ Tail(tasks) \in Seq(Ids)
      /\ Len(Tail(tasks)) = Len(tasks) - 1
      /\ \A i \in 1 .. Len(tasks) - 1 : Tail(tasks)[i] = tasks[i + 1]
  BY <1>1, HeadTailProperties DEF TypeOK
<1>3. Len(tasks) \in Nat /\ Len(values) \in Nat /\ Len(yielded) \in Nat
  BY LenProperties DEF TypeOK
<1>4. /\ Append(values, Head(tasks)) \in Seq(Ids)
      /\ Len(Append(values, Head(tasks))) = Len(values) + 1
  BY <1>2 DEF TypeOK
<1>5. InStream' = InStream
  BY <1>2, <1>3, <1>4 DEF TakeValue, InStream
<1>6. TypeOK' /\ FullInv' /\ BusyInv'
  BY <1>1, <1>2, <1>3, <1>4, <1>5 DEF TakeValue, TypeOK, FullInv, BusyInv
<1>7. Elements(values') = Elements(values) \cup {Head(tasks)}
  BY <1>2, ElementsAppend DEF TakeValue, TypeOK
<1>8. Elements(tasks) = {Head(tasks)} \cup Elements(tasks')
  BY <1>1, ElementsHeadTail DEF TakeValue, TypeOK
<1>9. DoneInv' /\ PlaceInv'
  BY <1>5, <1>7, <1>8 DEF TakeValue, DoneInv, PlaceInv
<1>10. PolledInv'
  BY <1>1, <1>2, <1>3 DEF TakeValue, PolledInv
<1> QED
  BY <1>6, <1>9, <1>10

LEMMA KeepTaskStep ==
  ASSUME StreamInv, KeepTask
  PROVE  StreamInv'
<1> USE DEF StreamInv
<1>1. tasks # <<>> /\ left \in 1 .. Len(tasks)
  BY LenProperties DEF KeepTask, TypeOK
<1>2. /\ Head(tasks) \in Ids /\ Tail(tasks) \in Seq(Ids)
      /\ Len(Tail(tasks)) = Len(tasks) - 1
      /\ \A i \in 1 .. Len(tasks) - 1 : Tail(tasks)[i] = tasks[i + 1]
  BY <1>1, HeadTailProperties DEF TypeOK
<1>3. Len(tasks) \in Nat /\ Len(values) \in Nat /\ Len(yielded) \in Nat
  BY LenProperties DEF TypeOK
<1>4. /\ tasks' \in Seq(Ids) /\ Len(tasks') = Len(tasks)
      /\ \A i \in 1 .. Len(tasks) - 1 : tasks'[i] = tasks[i + 1]
      /\ tasks'[Len(tasks)] = Head(tasks)
  BY <1>2, <1>3 DEF KeepTask
<1>5. InStream' = InStream
  BY <1>4 DEF KeepTask, InStream
<1>6. TypeOK' /\ FullInv' /\ BusyInv'
  BY <1>1, <1>2, <1>3, <1>4, <1>5 DEF KeepTask, TypeOK, FullInv, BusyInv
<1>7. Elements(tasks') = Elements(tasks)
  <2>1. Elements(tasks) = {Head(tasks)} \cup Elements(Tail(tasks))
    BY <1>1, ElementsHeadTail DEF TypeOK
  <2>2. Elements(Append(Tail(tasks), Head(tasks))) = Elements(Tail(tasks)) \cup {Head(tasks)}
    <3> DEFINE rest == Tail(tasks)
    <3> DEFINE first == Head(tasks)
    <3>1. rest \in Seq(Ids) /\ first \in Ids
      BY <1>2
    <3> HIDE DEF rest, first
    <3>2. Elements(Append(rest, first)) = Elements(rest) \cup {first}
      BY <3>1, ElementsAppend
    <3> QED
      BY <3>2 DEF rest, first
  <2> QED
    BY <2>1, <2>2 DEF KeepTask
<1>8. DoneInv' /\ PlaceInv'
  BY <1>5, <1>7 DEF KeepTask, DoneInv, PlaceInv
<1>9. PolledInv'
  <2>1. pc = "scan" /\ left' = left - 1 /\ woken' = woken /\ finished' = finished
        /\ wakers' = wakers \cup {Head(tasks)} /\ Head(tasks) \notin finished
    BY DEF KeepTask
  <2>2. ASSUME NEW i \in left .. Len(tasks)
        PROVE  IF tasks'[i] \in finished THEN woken ELSE tasks'[i] \in wakers'
    <3>1. CASE i = Len(tasks)
      BY <1>4, <2>1, <3>1
    <3>2. CASE i < Len(tasks)
      <4>1. i + 1 \in left + 1 .. Len(tasks) /\ tasks'[i] = tasks[i + 1]
        BY <1>1, <1>3, <1>4, <3>2
      <4> QED
        BY <2>1, <4>1 DEF PolledInv
    <3> QED
      BY <1>1, <1>3, <3>1, <3>2
  <2> QED
    BY <1>1, <1>3, <1>4, <2>1, <2>2 DEF PolledInv, TypeOK
<1> QED
  BY <1>6, <1>8, <1>9

\* The room of the yielded value goes to one new task, if there is one.
LEMMA YieldStep ==
  ASSUME StreamInv, Yield
  PROVE  StreamInv'
<1> DEFINE fresh == Fresh(tasks, Tail(values))
<1> USE DEF StreamInv
<1>1. values \in Seq(Ids) /\ values # <<>> /\ tasks \in Seq(Ids) /\ yielded \in Seq(Ids)
  BY DEF Yield, TypeOK
<1>2. /\ Head(values) \in Ids /\ Tail(values) \in Seq(Ids)
      /\ Len(Tail(values)) = Len(values) - 1
  BY <1>1, HeadTailProperties
<1>3. /\ Len(tasks) \in Nat /\ Len(values) \in Nat /\ Len(yielded) \in Nat
      /\ Len(Tail(values)) \in Nat
  BY <1>1, <1>2, LenProperties
<1>4. /\ fresh \in Seq(Ids)
      /\ Len(fresh) = IF Room(tasks, Tail(values)) <= 0 THEN 0
                      ELSE IF Room(tasks, Tail(values)) <= Total - spawned
                           THEN Room(tasks, Tail(values)) ELSE Total - spawned
      /\ Elements(fresh) = spawned + 1 .. spawned + Len(fresh)
  BY <1>1, <1>2, FreshProperties
<1>5. /\ Len(fresh) \in Nat
      /\ Len(fresh) <= Total - spawned
      /\ Len(tasks) + Len(Tail(values)) + Len(fresh) <= Parallelism
      /\ \/ Len(tasks) + Len(Tail(values)) + Len(fresh) = Parallelism
         \/ spawned + Len(fresh) = Total
  BY <1>2, <1>3, <1>4, TotalAssumption, ParallelismAssumption
  DEF Room, TypeOK, FullInv, InStream
<1> HIDE DEF fresh
<1>6. /\ tasks' = tasks \o fresh /\ spawned' = spawned + Len(fresh)
      /\ values' = Tail(values) /\ yielded' = Append(yielded, Head(values))
      /\ pc' = "caller" /\ left' = left /\ left = 0
      /\ finished' = finished /\ wakers' = wakers /\ woken' = woken
  BY DEF Yield, SpawnTasks, fresh
<1>7. /\ tasks' \in Seq(Ids) /\ Len(tasks') = Len(tasks) + Len(fresh)
      /\ Elements(tasks') = Elements(tasks) \cup Elements(fresh)
  BY <1>1, <1>4, <1>6, ConcatProperties, ElementsConcat
<1>8. /\ yielded' \in Seq(Ids) /\ Len(yielded') = Len(yielded) + 1
      /\ Elements(yielded') = Elements(yielded) \cup {Head(values)}
  BY <1>1, <1>2, <1>6, ElementsAppend
<1>9. Elements(values) = {Head(values)} \cup Elements(values')
  BY <1>1, <1>6, ElementsHeadTail
<1>10. TypeOK'
  <2>1. overtook' \in [Ids -> SUBSET Ids]
    BY <1>2 DEF Yield, NoteOvertaken, TypeOK
  <2>2. spawned' \in 0 .. Total
    BY <1>5, <1>6, TotalAssumption DEF TypeOK
  <2>3. left' \in 0 .. Len(tasks')
    BY <1>3, <1>5, <1>6, <1>7
  <2> QED
    BY <1>2, <1>6, <1>7, <1>8, <2>1, <2>2, <2>3 DEF TypeOK
<1>11. FullInv' /\ BusyInv' /\ PolledInv'
  BY <1>2, <1>3, <1>5, <1>6, <1>7, ParallelismAssumption
  DEF FullInv, BusyInv, PolledInv, InStream
<1>12. DoneInv'
  BY <1>6, <1>8, <1>9 DEF DoneInv
<1>13. PlaceInv'
  <2>1. Elements(tasks') \cup Elements(values') \cup Elements(yielded')
          = (1 .. spawned) \cup (spawned + 1 .. spawned + Len(fresh))
    BY <1>4, <1>7, <1>8, <1>9 DEF PlaceInv
  <2>2. (1 .. spawned) \cup (spawned + 1 .. spawned + Len(fresh)) = 1 .. spawned'
    BY <1>5, <1>6 DEF TypeOK
  <2>3. InStream' + Len(yielded') = spawned'
    <3>1. Len(tasks) + Len(values) + Len(yielded) = spawned
      BY DEF PlaceInv, InStream
    <3>2. InStream' = Len(tasks') + Len(Tail(values))
      BY <1>6 DEF InStream
    <3> QED
      BY <1>2, <1>3, <1>5, <1>6, <1>7, <1>8, <3>1, <3>2
  <2> QED
    BY <2>1, <2>2, <2>3 DEF PlaceInv
<1> QED
  BY <1>10, <1>11, <1>12, <1>13

LEMMA StreamInductive == StreamInv /\ [Next]_vars => StreamInv'
<1> SUFFICES ASSUME StreamInv, [Next]_vars PROVE StreamInv'
  OBVIOUS
<1>1. CASE Drop
  BY <1>1 DEF Drop, stream, StreamInv, TypeOK, FullInv, BusyInv, DoneInv, PolledInv, PlaceInv,
     InStream
<1>2. CASE UNCHANGED vars
  BY <1>2
  DEF vars, stream, StreamInv, TypeOK, FullInv, BusyInv, DoneInv, PolledInv, PlaceInv, InStream
<1> QED
  BY <1>1, <1>2, FinishStep, PollNextStep, TakeValueStep, KeepTaskStep, YieldStep, ParkStep
  DEF Next, Consumer, Quiet

------------------------------------------------------------------------------
(* Theorems *)

\* The state keeps its type: the scan never runs past the queue of tasks.
THEOREM StreamTypes == Spec => []TypeOK
<1>1. StreamInv => TypeOK
  BY DEF StreamInv
<1> QED
  BY StreamInit, StreamInductive, <1>1, PTL DEF Spec

\* "self.tasks.len() + self.values.len() <= parallelism": tasks and values together
\* never exceed the parallelism, and neither do the futures that run.
THEOREM MemoryIsBounded == Spec => []MemoryBound
<1>1. StreamInv => MemoryBound
  <2> SUFFICES ASSUME StreamInv PROVE MemoryBound
    OBVIOUS
  <2> USE DEF StreamInv
  <2>1. tasks \in Seq(Ids) /\ Len(tasks) \in Nat /\ Len(values) \in Nat
    BY LenProperties DEF TypeOK
  <2>2. Len(tasks) + Len(values) <= Parallelism
    BY <2>1, ParallelismAssumption DEF FullInv, InStream
  <2>3. (1 .. spawned) \ finished \subseteq Elements(tasks)
    BY DEF DoneInv, PlaceInv
  <2>4. IsFiniteSet(Elements(tasks)) /\ Cardinality(Elements(tasks)) <= Len(tasks)
    BY <2>1, ElementsCardinality
  <2>5. /\ Cardinality((1 .. spawned) \ finished) <= Cardinality(Elements(tasks))
        /\ Cardinality((1 .. spawned) \ finished) \in Nat
        /\ Cardinality(Elements(tasks)) \in Nat
    BY <2>3, <2>4, FS_Subset, FS_CardinalityType
  <2> QED
    BY <2>1, <2>2, <2>4, <2>5, ParallelismAssumption DEF MemoryBound
<1> QED
  BY StreamInit, StreamInductive, <1>1, PTL DEF Spec

\* No value is lost or duplicated between spawning and yielding.
THEOREM NothingLost == Spec => []EachInOnePlace
<1>1. StreamInv => EachInOnePlace
  <2> SUFFICES ASSUME StreamInv PROVE EachInOnePlace
    OBVIOUS
  <2>1. tasks \in Seq(Ids) /\ values \in Seq(Ids) /\ yielded \in Seq(Ids)
    BY DEF StreamInv, TypeOK
  <2>2. /\ tasks \o values \in Seq(Ids)
        /\ Len(tasks \o values) = Len(tasks) + Len(values)
        /\ Elements(tasks \o values) = Elements(tasks) \cup Elements(values)
    BY <2>1, ConcatProperties, ElementsConcat
  <2>3. Len((tasks \o values) \o yielded) = Len(tasks \o values) + Len(yielded)
    BY <2>1, <2>2, ConcatProperties
  <2>4. Elements((tasks \o values) \o yielded)
          = Elements(tasks \o values) \cup Elements(yielded)
    <3> DEFINE pending == tasks \o values
    <3>1. pending \in Seq(Ids)
      BY <2>2
    <3> HIDE DEF pending
    <3>2. Elements(pending \o yielded) = Elements(pending) \cup Elements(yielded)
      BY <2>1, <3>1, ElementsConcat
    <3> QED
      BY <3>2 DEF pending
  <2> QED
    BY <2>2, <2>3, <2>4 DEF EachInOnePlace, StreamInv, PlaceInv, InStream
<1> QED
  BY StreamInit, StreamInductive, <1>1, PTL DEF Spec

\* When the stream says it is over, every value was yielded.
THEOREM EndIsComplete == Spec => []EndMeansAll
<1>1. StreamInv => EndMeansAll
  <2> SUFFICES ASSUME StreamInv, pc = "end" PROVE Elements(yielded) = Ids
    BY DEF EndMeansAll
  <2>1. tasks = <<>> /\ values = <<>>
    BY DEF StreamInv, BusyInv
  <2>2. Len(tasks) = 0 /\ Len(values) = 0 /\ Elements(tasks) = {} /\ Elements(values) = {}
    BY <2>1 DEF Elements
  <2>3. spawned = Total
    BY <2>2, ParallelismAssumption DEF StreamInv, FullInv, InStream
  <2> QED
    BY <2>2, <2>3 DEF StreamInv, PlaceInv, Ids
<1> QED
  BY StreamInit, StreamInductive, <1>1, PTL DEF Spec

\* A consumer is never parked on a finished task without having been woken.
THEOREM NoWakeupIsLost == Spec => []NoLostWakeup
<1>1. StreamInv => NoLostWakeup
  <2> SUFFICES ASSUME StreamInv, pc = "parked"
               PROVE  /\ tasks # <<>>
                      /\ \A f \in Elements(tasks) : f \in finished => woken
    BY DEF NoLostWakeup
  <2>1. tasks # <<>>
    BY DEF StreamInv, BusyInv, InStream
  <2>2. ASSUME NEW f \in Elements(tasks), f \in finished PROVE woken
    <3>1. PICK i \in 1 .. Len(tasks) : tasks[i] = f
      BY DEF Elements
    <3>2. left = 0
      BY DEF StreamInv, BusyInv
    <3> QED
      BY <2>2, <3>1, <3>2 DEF StreamInv, PolledInv
  <2> QED
    BY <2>1, <2>2
<1> QED
  BY StreamInit, StreamInductive, <1>1, PTL DEF Spec

------------------------------------------------------------------------------
(* Overtaking *)

(***************************************************************************)
(* What is ahead of a finished future is bounded by its place: in the      *)
(* queue of values by the values before it, in the queue of tasks by all   *)
(* values and the tasks before it.  A scan may pass by a task that         *)
(* finishes afterwards; it has not been overtaken then, so that the one    *)
(* value this poll yields still fits under the bound.                      *)
(***************************************************************************)
Overtaken(f) == Cardinality(overtook[f])

SpawnedFinish == finished \subseteq 1 .. spawned
NoneAheadYet == \A f \in Ids \ finished : overtook[f] = {}
AheadOfYielded == \A f \in Elements(yielded) : Overtaken(f) < Parallelism
AheadOfValues == \A i \in 1 .. Len(values) : Overtaken(values[i]) + i <= Parallelism
AheadOfTasks == \A i \in 1 .. Len(tasks) : tasks[i] \in finished =>
                  Overtaken(tasks[i]) + Len(values) + i <= Parallelism
PassedBy == pc = "scan" => \A i \in left + 1 .. Len(tasks) :
              tasks[i] \in finished => overtook[tasks[i]] = {}

OvertakeInv == /\ SpawnedFinish /\ NoneAheadYet /\ AheadOfYielded
               /\ AheadOfValues /\ AheadOfTasks /\ PassedBy

\* One more value ahead adds at most one.
LEMMA OneMoreAhead ==
  ASSUME TypeOK, NEW f \in Ids, NEW v \in Ids
  PROVE  /\ Overtaken(f) \in Nat
         /\ Cardinality(overtook[f] \cup {v}) \in Nat
         /\ Cardinality(overtook[f] \cup {v}) <= Overtaken(f) + 1
<1>1. overtook[f] \subseteq Ids
  BY DEF TypeOK
<1>2. IsFiniteSet(Ids)
  BY FS_Interval, TotalAssumption DEF Ids
<1>3. IsFiniteSet(overtook[f])
  BY <1>1, <1>2, FS_Subset
<1>4. /\ IsFiniteSet(overtook[f] \cup {v})
      /\ Cardinality(overtook[f] \cup {v})
           = IF v \in overtook[f] THEN Cardinality(overtook[f]) ELSE Cardinality(overtook[f]) + 1
  BY <1>3, FS_AddElement
<1>5. Cardinality(overtook[f]) \in Nat
  BY <1>3, FS_CardinalityType
<1> QED
  BY <1>4, <1>5 DEF Overtaken

LEMMA NoneIsZero == ASSUME NEW f, overtook[f] = {} PROVE Overtaken(f) = 0
  BY FS_EmptySet DEF Overtaken

\* Steps that change neither the queues nor who was overtaken.
LEMMA SameQueues ==
  ASSUME StreamInv, OvertakeInv, tasks' = tasks, values' = values, spawned' = spawned,
         finished' = finished, yielded' = yielded, overtook' = overtook,
         pc' = "scan" => left' = Len(tasks) \/ (pc = "scan" /\ left' = left)
  PROVE  OvertakeInv'
<1>1. Len(tasks) \in Nat
  BY LenProperties DEF StreamInv, TypeOK
<1>2. SpawnedFinish' /\ NoneAheadYet' /\ AheadOfYielded' /\ AheadOfValues' /\ AheadOfTasks'
  BY DEF OvertakeInv, SpawnedFinish, NoneAheadYet, AheadOfYielded, AheadOfValues, AheadOfTasks,
     Overtaken
<1>3. PassedBy'
  <2> SUFFICES ASSUME pc' = "scan", NEW i \in left' + 1 .. Len(tasks), tasks[i] \in finished
               PROVE  overtook[tasks[i]] = {}
    BY DEF PassedBy
  <2>1. left' # Len(tasks)
    BY <1>1
  <2> QED
    BY <2>1 DEF OvertakeInv, PassedBy
<1> QED
  BY <1>2, <1>3 DEF OvertakeInv

\* A future that has just finished has been overtaken by none.
LEMMA FinishOvertake ==
  ASSUME StreamInv, OvertakeInv, NEW f \in Ids, Finish(f)
  PROVE  OvertakeInv'
<1> USE DEF StreamInv
<1>1. /\ f \in 1 .. spawned /\ f \notin finished /\ finished' = finished \cup {f}
      /\ pc' = pc /\ left' = left /\ tasks' = tasks /\ values' = values
      /\ spawned' = spawned /\ yielded' = yielded /\ overtook' = overtook
  BY DEF Finish, stream
<1>2. overtook[f] = {} /\ Overtaken(f) = 0
  BY <1>1, NoneIsZero DEF OvertakeInv, NoneAheadYet
<1>3. SpawnedFinish' /\ NoneAheadYet' /\ AheadOfYielded' /\ AheadOfValues'
  BY <1>1 DEF OvertakeInv, SpawnedFinish, NoneAheadYet, AheadOfYielded, AheadOfValues, Overtaken
<1>4. AheadOfTasks'
  <2> SUFFICES ASSUME NEW i \in 1 .. Len(tasks), tasks[i] \in finished'
               PROVE  Overtaken(tasks[i]) + Len(values) + i <= Parallelism
    BY <1>1 DEF AheadOfTasks, Overtaken
  <2>1. CASE tasks[i] \in finished
    BY <2>1 DEF OvertakeInv, AheadOfTasks
  <2>2. CASE tasks[i] = f
    <3>1. Len(tasks) \in Nat /\ Len(values) \in Nat
      BY LenProperties DEF TypeOK
    <3>2. Len(tasks) + Len(values) <= Parallelism
      BY <3>1, ParallelismAssumption DEF FullInv, InStream
    <3> QED
      BY <1>2, <2>2, <3>1, <3>2, ParallelismAssumption
  <2> QED
    BY <1>1, <2>1, <2>2
<1>5. PassedBy'
  BY <1>1, <1>2 DEF OvertakeInv, PassedBy
<1> QED
  BY <1>3, <1>4, <1>5 DEF OvertakeInv

\* The head of the tasks goes to the end of the values: no less is ahead of it there.
LEMMA TakeValueOvertake ==
  ASSUME StreamInv, OvertakeInv, TakeValue
  PROVE  OvertakeInv'
<1> USE DEF StreamInv
<1>1. tasks # <<>> /\ left \in 1 .. Len(tasks)
  BY LenProperties DEF TakeValue, TypeOK
<1>2. /\ Head(tasks) \in Ids /\ Tail(tasks) \in Seq(Ids) /\ Head(tasks) = tasks[1]
      /\ Len(Tail(tasks)) = Len(tasks) - 1
      /\ \A i \in 1 .. Len(tasks) - 1 : Tail(tasks)[i] = tasks[i + 1]
  BY <1>1, HeadTailProperties DEF TypeOK
<1>3. Len(tasks) \in Nat /\ Len(values) \in Nat
  BY LenProperties DEF TypeOK
<1>4. /\ Append(values, Head(tasks)) \in Seq(Ids)
      /\ Len(Append(values, Head(tasks))) = Len(values) + 1
      /\ \A i \in 1 .. Len(values) : Append(values, Head(tasks))[i] = values[i]
      /\ Append(values, Head(tasks))[Len(values) + 1] = Head(tasks)
  BY <1>2 DEF TypeOK
<1>5. /\ pc = "scan" /\ pc' = pc /\ left' = left - 1 /\ finished' = finished
      /\ Head(tasks) \in finished /\ tasks' = Tail(tasks) /\ values' = Append(values, Head(tasks))
      /\ spawned' = spawned /\ yielded' = yielded /\ overtook' = overtook
  BY DEF TakeValue
<1>6. \A g \in Ids : Overtaken(g) \in Nat
  BY OneMoreAhead
<1>7. SpawnedFinish' /\ NoneAheadYet' /\ AheadOfYielded'
  BY <1>5 DEF OvertakeInv, SpawnedFinish, NoneAheadYet, AheadOfYielded, Overtaken
<1>8. AheadOfValues'
  <2> SUFFICES ASSUME NEW i \in 1 .. Len(values) + 1
               PROVE  Overtaken(Append(values, Head(tasks))[i]) + i <= Parallelism
    BY <1>4, <1>5 DEF AheadOfValues, Overtaken
  <2>1. CASE i \in 1 .. Len(values)
    BY <1>4, <2>1 DEF OvertakeInv, AheadOfValues
  <2>2. CASE i = Len(values) + 1
    <3>1. 1 \in 1 .. Len(tasks)
      BY <1>1, <1>3
    <3>2. Overtaken(tasks[1]) + Len(values) + 1 <= Parallelism
      BY <1>2, <1>5, <3>1 DEF OvertakeInv, AheadOfTasks
    <3> QED
      BY <1>2, <1>3, <1>4, <1>6, <2>2, <3>2, ParallelismAssumption
  <2> QED
    BY <1>3, <2>1, <2>2
<1>9. AheadOfTasks'
  <2> SUFFICES ASSUME NEW i \in 1 .. Len(tasks) - 1, Tail(tasks)[i] \in finished
               PROVE  Overtaken(Tail(tasks)[i]) + (Len(values) + 1) + i <= Parallelism
    BY <1>2, <1>4, <1>5 DEF AheadOfTasks, Overtaken
  <2>1. i + 1 \in 1 .. Len(tasks) /\ Tail(tasks)[i] = tasks[i + 1] /\ tasks[i + 1] \in Ids
    BY <1>2, <1>3 DEF TypeOK
  <2>2. Overtaken(tasks[i + 1]) + Len(values) + (i + 1) <= Parallelism
    BY <2>1 DEF OvertakeInv, AheadOfTasks
  <2>3. Overtaken(tasks[i + 1]) \in Nat
    BY <1>6, <2>1
  <2> QED
    BY <1>3, <2>1, <2>2, <2>3, ParallelismAssumption
<1>10. PassedBy'
  <2>1. left' + 1 = left /\ Len(tasks') = Len(tasks) - 1
    BY <1>1, <1>2, <1>3, <1>5
  <2>2. ASSUME NEW i \in left .. Len(tasks) - 1, Tail(tasks)[i] \in finished
        PROVE  overtook[Tail(tasks)[i]] = {}
    <3>1. i + 1 \in left + 1 .. Len(tasks) /\ Tail(tasks)[i] = tasks[i + 1]
      BY <1>1, <1>2, <1>3
    <3> QED
      BY <1>5, <2>2, <3>1 DEF OvertakeInv, PassedBy
  <2> QED
    BY <1>5, <2>1, <2>2 DEF PassedBy
<1> QED
  BY <1>7, <1>8, <1>9, <1>10 DEF OvertakeInv

\* A pending task goes to the back, and the others come forward.
LEMMA KeepTaskOvertake ==
  ASSUME StreamInv, OvertakeInv, KeepTask
  PROVE  OvertakeInv'
<1> USE DEF StreamInv
<1>1. tasks # <<>> /\ left \in 1 .. Len(tasks)
  BY LenProperties DEF KeepTask, TypeOK
<1>2. /\ Head(tasks) \in Ids /\ Tail(tasks) \in Seq(Ids)
      /\ Len(Tail(tasks)) = Len(tasks) - 1
      /\ \A i \in 1 .. Len(tasks) - 1 : Tail(tasks)[i] = tasks[i + 1]
  BY <1>1, HeadTailProperties DEF TypeOK
<1>3. Len(tasks) \in Nat /\ Len(values) \in Nat
  BY LenProperties DEF TypeOK
<1>4. /\ Len(tasks') = Len(tasks)
      /\ \A i \in 1 .. Len(tasks) - 1 : tasks'[i] = tasks[i + 1]
      /\ tasks'[Len(tasks)] = Head(tasks)
  BY <1>2, <1>3 DEF KeepTask
<1>5. /\ pc = "scan" /\ pc' = pc /\ left' = left - 1 /\ finished' = finished
      /\ Head(tasks) \notin finished /\ values' = values
      /\ spawned' = spawned /\ yielded' = yielded /\ overtook' = overtook
  BY DEF KeepTask
<1>6. \A g \in Ids : Overtaken(g) \in Nat
  BY OneMoreAhead
<1>7. SpawnedFinish' /\ NoneAheadYet' /\ AheadOfYielded' /\ AheadOfValues'
  BY <1>5 DEF OvertakeInv, SpawnedFinish, NoneAheadYet, AheadOfYielded, AheadOfValues, Overtaken
<1>8. ASSUME NEW i \in 1 .. Len(tasks), tasks'[i] \in finished
      PROVE  /\ i + 1 \in 1 .. Len(tasks) /\ tasks'[i] = tasks[i + 1]
             /\ tasks[i + 1] \in Ids
  <2>1. i # Len(tasks)
    BY <1>4, <1>5, <1>8
  <2>2. i \in 1 .. Len(tasks) - 1
    BY <1>3, <2>1
  <2> QED
    BY <1>3, <1>4, <2>2 DEF TypeOK
<1>9. AheadOfTasks'
  <2> SUFFICES ASSUME NEW i \in 1 .. Len(tasks), tasks'[i] \in finished
               PROVE  Overtaken(tasks'[i]) + Len(values) + i <= Parallelism
    BY <1>4, <1>5 DEF AheadOfTasks, Overtaken
  <2>1. Overtaken(tasks[i + 1]) + Len(values) + (i + 1) <= Parallelism
    BY <1>8 DEF OvertakeInv, AheadOfTasks
  <2>2. Overtaken(tasks[i + 1]) \in Nat
    BY <1>6, <1>8
  <2> QED
    BY <1>3, <1>8, <2>1, <2>2, ParallelismAssumption
<1>10. PassedBy'
  <2> SUFFICES ASSUME NEW i \in left .. Len(tasks), tasks'[i] \in finished
               PROVE  overtook[tasks'[i]] = {}
    BY <1>1, <1>3, <1>4, <1>5 DEF PassedBy
  <2>1. i \in 1 .. Len(tasks)
    BY <1>1, <1>3
  <2>2. i + 1 \in left + 1 .. Len(tasks) /\ tasks'[i] = tasks[i + 1]
    BY <1>1, <1>3, <1>8, <2>1
  <2> QED
    BY <1>5, <2>2 DEF OvertakeInv, PassedBy
<1> QED
  BY <1>7, <1>8, <1>9, <1>10 DEF OvertakeInv

\* One value is yielded, at the end of a scan: the values behind it come forward, and
\* a finished task that is overtaken now is overtaken for the first time.
LEMMA YieldOvertake ==
  ASSUME StreamInv, OvertakeInv, Yield
  PROVE  OvertakeInv'
<1> DEFINE v == Head(values)
<1> DEFINE new == Fresh(tasks, Tail(values))
<1> DEFINE After(f) == Cardinality(overtook'[f])
<1> USE DEF StreamInv
<1>1. values \in Seq(Ids) /\ values # <<>> /\ tasks \in Seq(Ids) /\ yielded \in Seq(Ids)
  BY DEF Yield, TypeOK
<1>2. /\ v \in Ids /\ v = values[1] /\ Tail(values) \in Seq(Ids)
      /\ Len(Tail(values)) = Len(values) - 1
      /\ \A i \in 1 .. Len(values) - 1 : Tail(values)[i] = values[i + 1]
  BY <1>1, HeadTailProperties
<1>3. Len(tasks) \in Nat /\ Len(values) \in Nat /\ Len(values) >= 1
  BY <1>1, EmptySeq
<1>4. /\ new \in Seq(Ids)
      /\ Elements(new) = spawned + 1 .. spawned + Len(new)
      /\ Len(new) \in Nat
  <2>1. new \in Seq(Ids) /\ Elements(new) = spawned + 1 .. spawned + Len(new)
    BY <1>1, <1>2, FreshProperties
  <2> HIDE DEF new
  <2> QED
    BY <2>1, LenProperties
<1>5. /\ tasks' = tasks \o new /\ spawned' = spawned + Len(new)
      /\ values' = Tail(values) /\ yielded' = Append(yielded, v)
      /\ pc = "scan" /\ pc' = "caller" /\ left = 0 /\ finished' = finished
  BY DEF Yield, SpawnTasks
<1>6. /\ \A f \in Ids : overtook'[f] = IF f \in finished /\ f \notin Elements(yielded) /\ f # v
                                       THEN overtook[f] \cup {v} ELSE overtook[f]
  BY DEF Yield, NoteOvertaken
<1> HIDE DEF v, new
<1>7. ASSUME NEW f \in Ids
      PROVE  Overtaken(f) \in Nat /\ After(f) \in Nat /\ After(f) <= Overtaken(f) + 1
  <2>1. /\ Overtaken(f) \in Nat
        /\ Cardinality(overtook[f] \cup {v}) \in Nat
        /\ Cardinality(overtook[f] \cup {v}) <= Overtaken(f) + 1
    BY <1>2, OneMoreAhead
  <2>2. overtook'[f] = overtook[f] \cup {v} \/ overtook'[f] = overtook[f]
    BY <1>6
  <2>3. CASE overtook'[f] = overtook[f] \cup {v}
    BY <2>1, <2>3
  <2>4. CASE overtook'[f] = overtook[f]
    <3>1. After(f) = Overtaken(f)
      BY <2>4 DEF Overtaken
    <3> QED
      BY <2>1, <3>1
  <2> QED
    BY <2>2, <2>3, <2>4
<1>8. SpawnedFinish'
  BY <1>4, <1>5, TotalAssumption DEF OvertakeInv, SpawnedFinish, TypeOK
<1>9. NoneAheadYet'
  BY <1>5, <1>6 DEF OvertakeInv, NoneAheadYet
<1>10. AheadOfYielded'
  <2> SUFFICES ASSUME NEW f \in Elements(yielded') PROVE After(f) < Parallelism
    BY DEF AheadOfYielded, Overtaken
  <2>1. Elements(yielded') = Elements(yielded) \cup {v}
    BY <1>1, <1>2, <1>5, ElementsAppend
  <2>2. f \in Ids
    <3>1. Elements(yielded) \subseteq Ids
      BY <1>1 DEF Elements
    <3> QED
      BY <1>2, <2>1, <3>1
  <2>3. After(f) = Overtaken(f)
    BY <1>6, <2>1, <2>2 DEF Overtaken
  <2>4. CASE f \in Elements(yielded)
    BY <2>3, <2>4 DEF OvertakeInv, AheadOfYielded
  <2>5. CASE f = v
    <3>1. Overtaken(values[1]) + 1 <= Parallelism
      BY <1>3 DEF OvertakeInv, AheadOfValues
    <3>2. Overtaken(f) \in Nat
      BY <1>7, <2>2
    <3> QED
      BY <1>2, <2>3, <2>5, <3>1, <3>2, ParallelismAssumption
  <2> QED
    BY <2>1, <2>4, <2>5
<1>11. AheadOfValues'
  <2>1. ASSUME NEW i \in 1 .. Len(values) - 1
        PROVE  After(Tail(values)[i]) + i <= Parallelism
    <3>1. /\ i + 1 \in 1 .. Len(values) /\ values[i + 1] \in Ids
          /\ Tail(values)[i] = values[i + 1]
      BY <1>1, <1>2, <1>3
    <3>2. Overtaken(values[i + 1]) + (i + 1) <= Parallelism
      BY <3>1 DEF OvertakeInv, AheadOfValues
    <3>3. /\ Overtaken(values[i + 1]) \in Nat /\ After(values[i + 1]) \in Nat
          /\ After(values[i + 1]) <= Overtaken(values[i + 1]) + 1
      BY <1>7, <3>1
    <3> HIDE DEF After
    <3> QED
      BY <3>1, <3>2, <3>3, ParallelismAssumption
  <2> QED
    BY <1>2, <1>5, <2>1 DEF AheadOfValues, Overtaken
<1>12. AheadOfTasks'
  <2>1. /\ Len(tasks') = Len(tasks) + Len(new)
        /\ \A i \in 1 .. Len(tasks) : tasks'[i] = tasks[i]
        /\ \A i \in Len(tasks) + 1 .. Len(tasks) + Len(new) : tasks'[i] = new[i - Len(tasks)]
    BY <1>1, <1>3, <1>4, <1>5, ConcatProperties
  <2> SUFFICES ASSUME NEW i \in 1 .. Len(tasks) + Len(new), tasks'[i] \in finished
               PROVE  After(tasks'[i]) + (Len(values) - 1) + i <= Parallelism
    BY <1>2, <1>5, <2>1 DEF AheadOfTasks, Overtaken
  <2>2. i \in 1 .. Len(tasks)
    <3> SUFFICES ASSUME i \in Len(tasks) + 1 .. Len(tasks) + Len(new) PROVE FALSE
      BY <1>3, <1>4
    <3>1. i - Len(tasks) \in 1 .. Len(new)
      BY <1>3, <1>4
    <3>2. tasks'[i] \in Elements(new)
      BY <2>1, <3>1 DEF Elements
    <3> QED
      BY <1>4, <3>2, TotalAssumption DEF OvertakeInv, SpawnedFinish, TypeOK
  <2>3. tasks'[i] = tasks[i] /\ tasks[i] \in Ids /\ overtook[tasks[i]] = {}
    BY <1>1, <1>3, <1>5, <2>1, <2>2 DEF OvertakeInv, PassedBy
  <2>4. Overtaken(tasks[i]) = 0
    BY <2>3, NoneIsZero
  <2>5. After(tasks[i]) \in Nat /\ After(tasks[i]) <= 1
    BY <1>7, <2>3, <2>4
  <2>6. Len(tasks) + Len(values) <= Parallelism
    BY <1>3, ParallelismAssumption DEF FullInv, InStream
  <2> HIDE DEF After
  <2> QED
    BY <1>3, <2>2, <2>3, <2>5, <2>6, ParallelismAssumption
<1>13. PassedBy'
  BY <1>5 DEF PassedBy
<1> QED
  BY <1>8, <1>9, <1>10, <1>11, <1>12, <1>13 DEF OvertakeInv

LEMMA OvertakeInductive == StreamInv /\ OvertakeInv /\ [Next]_vars => OvertakeInv'
<1> SUFFICES ASSUME StreamInv, OvertakeInv, [Next]_vars PROVE OvertakeInv'
  OBVIOUS
<1>1. CASE PollNext
  <2>1. tasks' = tasks /\ spawned' = spawned
    BY <1>1, SpawnWhenFull DEF PollNext, StreamInv
  <2> QED
    BY <1>1, <2>1, SameQueues DEF PollNext
<1>2. CASE Park
  <2>1. tasks' = tasks /\ spawned' = spawned
    BY <1>2, SpawnWhenFull DEF Park, StreamInv
  <2> QED
    BY <1>2, <2>1, SameQueues DEF Park
<1>3. CASE Drop
  BY <1>3, SameQueues DEF Drop, stream
<1>4. CASE UNCHANGED vars
  BY <1>4, SameQueues DEF vars, stream
<1> QED
  BY <1>1, <1>2, <1>3, <1>4, FinishOvertake, TakeValueOvertake, KeepTaskOvertake, YieldOvertake
  DEF Next, Consumer, Quiet

\* Once a future has finished, fewer than Parallelism values are yielded before its own,
\* wherever the scan and the rotation of the queue had it at that moment.
THEOREM NobodyStarves == Spec => []LittleOvertaking
<1>1. Init => OvertakeInv
  <2> SUFFICES ASSUME Init PROVE OvertakeInv
    OBVIOUS
  <2>1. Elements(yielded) = {} /\ Len(values) = 0 /\ finished = {} /\ pc = "caller"
    BY DEF Init, Elements
  <2> QED
    BY <2>1 DEF Init, OvertakeInv, SpawnedFinish, NoneAheadYet, AheadOfYielded, AheadOfValues,
       AheadOfTasks, PassedBy
<1>2. StreamInv /\ OvertakeInv => LittleOvertaking
  <2> SUFFICES ASSUME StreamInv, OvertakeInv, NEW f \in Ids PROVE Overtaken(f) < Parallelism
    BY DEF LittleOvertaking, Overtaken
  <2>0. Overtaken(f) \in Nat /\ Len(values) \in Nat
    BY OneMoreAhead, LenProperties DEF StreamInv, TypeOK
  <2>1. CASE f \notin finished
    BY <2>1, NoneIsZero, ParallelismAssumption DEF OvertakeInv, NoneAheadYet
  <2>2. CASE f \in finished
    <3>1. f \in Elements(tasks) \cup Elements(values) \cup Elements(yielded)
      BY <2>2 DEF StreamInv, PlaceInv, OvertakeInv, SpawnedFinish
    <3>2. CASE f \in Elements(tasks)
      <4>1. PICK i \in 1 .. Len(tasks) : tasks[i] = f
        BY <3>2 DEF Elements
      <4>2. Overtaken(f) + Len(values) + i <= Parallelism
        BY <2>2, <4>1 DEF OvertakeInv, AheadOfTasks
      <4> QED
        BY <2>0, <4>1, <4>2, ParallelismAssumption
    <3>3. CASE f \in Elements(values)
      <4>1. PICK i \in 1 .. Len(values) : values[i] = f
        BY <3>3 DEF Elements
      <4>2. Overtaken(f) + i <= Parallelism
        BY <4>1 DEF OvertakeInv, AheadOfValues
      <4> QED
        BY <2>0, <4>1, <4>2, ParallelismAssumption
    <3>4. CASE f \in Elements(yielded)
      BY <3>4 DEF OvertakeInv, AheadOfYielded
    <3> QED
      BY <3>1, <3>2, <3>3, <3>4
  <2> QED
    BY <2>1, <2>2
<1> QED
  BY <1>1, <1>2, StreamInit, StreamInductive, OvertakeInductive, PTL DEF Spec

------------------------------------------------------------------------------
(* The stream is what RenderMemory takes it for *)

\* The render that owns the stream, in RenderMemory's words: it holds the lock until the
\* stream ends or is dropped, and has taken what was yielded.
One == INSTANCE RenderMemory
  WITH Renders <- {"one"}, Images <- Total,
       phase <- [r \in {"one"} |-> IF pc \in {"end", "dropped"} THEN "out" ELSE "holding"],
       spawned <- [r \in {"one"} |-> spawned],
       finished <- [r \in {"one"} |-> finished],
       taken <- [r \in {"one"} |-> Len(yielded)],
       result <- [r \in {"one"} |-> IF pc = "end" THEN "rendered"
                                   ELSE IF pc = "dropped" THEN "failed" ELSE "none"]

\* More futures have finished than were yielded while a value waits.
LEMMA ValuesWait ==
  ASSUME StreamInv
  PROVE  /\ Cardinality(finished) \in Nat /\ Len(yielded) \in Nat /\ Len(values) \in Nat
         /\ Len(yielded) + Len(values) <= Cardinality(finished)
<1> USE DEF StreamInv
<1>1. /\ tasks \in Seq(Ids) /\ Len(tasks) \in Nat /\ Len(values) \in Nat
      /\ Len(yielded) \in Nat /\ spawned \in Nat /\ finished \in SUBSET (1 .. Total)
  BY LenProperties, TotalAssumption, ParallelismAssumption DEF TypeOK, Ids
<1>2. IsFiniteSet(1 .. Total)
  <2>1. 1 \in Int /\ Total \in Int
    BY TotalAssumption, ParallelismAssumption
  <2> QED
    BY <2>1, FS_Interval
<1>3. IsFiniteSet(finished) /\ Cardinality(finished) \in Nat
  BY <1>1, <1>2, FS_Subset, FS_CardinalityType
<1> DEFINE E == Elements(tasks)
<1>4. IsFiniteSet(E) /\ Cardinality(E) <= Len(tasks) /\ Cardinality(E) \in Nat
  BY <1>1, ElementsCardinality, FS_CardinalityType
<1>5. 1 .. spawned \in SUBSET (E \cup finished)
  BY DEF PlaceInv, DoneInv
<1>6. Cardinality(1 .. spawned) = spawned
  <2>1. 1 \in Int /\ spawned \in Int
    BY <1>1
  <2>2. Cardinality(1 .. spawned) = IF 1 > spawned THEN 0 ELSE spawned - 1 + 1
    BY <2>1, FS_Interval
  <2> QED
    BY <1>1, <2>2
<1> HIDE DEF E
<1>7. IsFiniteSet(E \cap finished) /\ Cardinality(E \cap finished) \in Nat
  BY <1>3, FS_Intersection, FS_CardinalityType
<1>8. /\ IsFiniteSet(E \cup finished)
      /\ Cardinality(E \cup finished)
           = Cardinality(E) + Cardinality(finished) - Cardinality(E \cap finished)
  BY <1>3, <1>4, FS_Union
<1>9. spawned <= Cardinality(E \cup finished)
  BY <1>5, <1>6, <1>8, FS_Subset
<1>10. spawned = Len(tasks) + Len(values) + Len(yielded)
  BY DEF PlaceInv, InStream
<1> QED
  BY <1>1, <1>3, <1>4, <1>7, <1>8, <1>9, <1>10

\* A yield is a Take: the room of the value goes to the next load, if there is one.
LEMMA YieldTakes == ASSUME StreamInv, Yield, StreamInv' PROVE One!Take("one")
<1>1. /\ Len(yielded) \in Nat /\ Len(values) \in Nat
      /\ Len(yielded) + Len(values) <= Cardinality(finished) /\ Cardinality(finished) \in Nat
  BY ValuesWait
<1>2. /\ pc = "scan" /\ pc' = "caller" /\ values # <<>> /\ finished' = finished
      /\ yielded' = Append(yielded, Head(values))
  BY DEF Yield
<1>3. values \in Seq(Ids) /\ yielded \in Seq(Ids) /\ Head(values) \in Ids
  BY <1>2, HeadTailProperties DEF StreamInv, TypeOK
<1>4. Len(values) > 0 /\ Len(yielded') = Len(yielded) + 1
  BY <1>1, <1>2, <1>3, EmptySeq, AppendProperties
<1>5. Len(yielded) < Cardinality(finished)
  BY <1>1, <1>4
<1>6. spawned' = One!Least(Total, Len(yielded') + Parallelism)
  <2> DEFINE n == (Len(tasks) + Len(values))'
             y == Len(yielded')
             s == spawned'
  <2>1. /\ n + y = s /\ s \in 0 .. Total
        /\ n = Parallelism \/ (n < Parallelism /\ s = Total)
    BY DEF StreamInv, PlaceInv, FullInv, InStream, TypeOK
  <2>2. n \in Nat
    BY LenProperties DEF StreamInv, TypeOK
  <2>3. y \in Nat
    BY <1>1, <1>4
  <2> HIDE DEF n, y, s
  <2>4. s = IF Total < y + Parallelism THEN Total ELSE y + Parallelism
    BY <2>1, <2>2, <2>3, TotalAssumption, ParallelismAssumption
  <2> QED
    BY <2>4 DEF One!Least, y, s
<1>7. One!Cardinality(finished) = Cardinality(finished)
  BY DEF One!Cardinality, Cardinality
<1> QED
  BY <1>2, <1>4, <1>5, <1>6, <1>7 DEF One!Take

\* Every step of the stream is one that RenderMemory lets its render take, or none of its
\* business: a load that ends, a Take, the end of the stream (Complete, everything
\* was taken) or its being dropped (Fail).  What is proved of RenderMemory's
\* memory holds with the polls and wakers of AsyncParallelStream.
THEOREM StreamRefines == Spec => [][One!Next]_One!vars
<1> DEFINE Steps == One!Next \/ UNCHANGED One!vars
<1>1. ASSUME StreamInv, StreamInv', [Next]_vars PROVE Steps
  <2>1. ASSUME NEW f \in Ids, Finish(f) PROVE One!Next
    <3>1. One!Finish("one", f)
      BY <2>1 DEF Finish, stream, One!Finish, One!Loading
    <3> QED
      BY <3>1 DEF One!Next, Ids
  <2>2. CASE Yield
    BY <1>1, <2>2, YieldTakes DEF One!Next
  <2>3. CASE Drop
    <3>1. One!Fail("one")
      BY <2>3 DEF Drop, stream, One!Fail, One!Mutex!Release
    <3> QED
      BY <3>1 DEF One!Next
  <2>4. CASE PollNext
    <3>1. tasks' = tasks /\ spawned' = spawned
      BY <1>1, <2>4, SpawnWhenFull DEF PollNext, StreamInv
    <3>2. CASE tasks = <<>> /\ values = <<>>
      <4>1. pc' = "end" /\ pc \notin {"end", "dropped"} /\ UNCHANGED <<yielded, finished, spawned>>
        BY <2>4, <3>1, <3>2 DEF PollNext
      <4>2. Len(yielded) = Total
        <5>1. Len(tasks) = 0 /\ Len(values) = 0
          BY <3>2
        <5>2. Len(yielded) \in Nat /\ spawned = Len(yielded)
          BY <1>1, <5>1, LenProperties DEF StreamInv, TypeOK, PlaceInv, InStream
        <5> QED
          BY <1>1, <5>1, <5>2, TotalAssumption, ParallelismAssumption
             DEF StreamInv, FullInv, InStream
      <4>3. One!Complete("one")
        BY <4>1, <4>2 DEF One!Complete, One!Mutex!Release
      <4> QED
        BY <4>3 DEF One!Next
    <3>3. CASE ~(tasks = <<>> /\ values = <<>>)
      BY <2>4, <3>1, <3>3 DEF PollNext, One!vars
    <3> QED
      BY <3>2, <3>3
  <2>5. CASE TakeValue \/ KeepTask
    BY <2>5 DEF TakeValue, KeepTask, One!vars
  <2>6. CASE Park
    <3>1. spawned' = spawned
      BY <1>1, <2>6, SpawnWhenFull DEF Park, StreamInv
    <3> QED
      BY <2>6, <3>1 DEF Park, One!vars
  <2>7. CASE UNCHANGED vars
    BY <2>7 DEF vars, stream, One!vars
  <2> QED
    BY <1>1, <2>1, <2>2, <2>3, <2>4, <2>5, <2>6, <2>7
    DEF Next, Consumer, Quiet
<1>2. StreamInv /\ StreamInv' /\ [Next]_vars => [One!Next]_One!vars
  BY <1>1
<1> QED
  BY <1>2, StreamInit, StreamInductive, PTL DEF Spec
===============================================================================
