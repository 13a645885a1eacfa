------------------------------- MODULE Redirects -------------------------------
(***************************************************************************)
(* RedirectMiddleware                                                      *)
(* (ttsmagic-server/src/utils/surf_redirect_middleware.rs): it repeats a   *)
(* request at the URL that a redirection gives, until an answer is no      *)
(* redirection or it has seen Limit of them.  The loaders send GET         *)
(* requests through it; the middleware takes any.                          *)
(*                                                                         *)
(* What each URL answers is drawn at the start: a final answer, a          *)
(* redirection that turns the request into a GET (301, 302, 303) or that   *)
(* keeps its method (307, 308 and the others), or one without a Location   *)
(* that parses as a URL (none at all, or a relative one).                  *)
(***************************************************************************)
EXTENDS Naturals

CONSTANTS
  Urls,
  Limit         \* 5 in the code

LimitAssumption == Limit \in 1 .. 255

Answers == [kind : {"final", "unusable"}] \cup [kind : {"see", "keep"}, to : Urls]
Requests == [url : Urls, method : {"GET", "POST"}]

VARIABLES
  site,         \* what each URL answers
  asked,        \* the request of the caller
  request,      \* the next request to be sent
  redirects,
  result        \* "none" while the loop runs

vars == <<site, asked, request, redirects, result>>

TypeOK ==
  /\ site \in [Urls -> Answers]
  /\ asked \in Requests /\ request \in Requests
  /\ redirects \in 0 .. Limit
  /\ result \in {"none", "response", "error", "panicked"}

Init ==
  /\ site \in [Urls -> Answers]
  /\ asked \in Requests
  /\ request = asked
  /\ redirects = 0
  /\ result = "none"

Redirects(answer) == answer.kind \in {"see", "keep"}

\* The request that follows a redirection.
Redirected(r, answer) == [url    |-> answer.to,
                          method |-> IF answer.kind = "see" THEN "GET" ELSE r.method]
-----------------------------------------------------------------------------

\* The condition of the loop.
MoreAllowed == redirects < Limit

\* The answer is no redirection: it is the response.
Respond ==
  /\ result = "none" /\ MoreAllowed
  /\ site[request.url].kind = "final"
  /\ result' = "response"
  /\ UNCHANGED <<site, asked, request, redirects>>

\* Mutant: the redirections are not counted.
FollowUncounted ==
  /\ result = "none" /\ MoreAllowed
  /\ Redirects(site[request.url])
  /\ request' = Redirected(request, site[request.url])
  /\ UNCHANGED <<site, asked, redirects, result>>

\* Ask again, at the URL of the Location.
Follow ==
  /\ result = "none" /\ MoreAllowed
  /\ Redirects(site[request.url])
  /\ request' = Redirected(request, site[request.url])
  /\ redirects' = redirects + 1
  /\ UNCHANGED <<site, asked, result>>

\* A redirection without a usable Location, or the request fails.
GiveUp ==
  /\ result = "none" /\ MoreAllowed
  /\ \/ /\ site[request.url].kind = "unusable"
        /\ redirects' = redirects + 1
     \/ UNCHANGED redirects
  /\ result' = "error"
  /\ UNCHANGED <<site, asked, request>>

\* todo!()
LimitReached ==
  /\ result = "none" /\ ~MoreAllowed
  /\ result' = "panicked"
  /\ UNCHANGED <<site, asked, request, redirects>>

Next == Respond \/ Follow \/ GiveUp \/ LimitReached

Spec == Init /\ [][Next]_vars /\ WF_vars(Next)
-----------------------------------------------------------------------------
\* The URLs of n redirections one after the other, from the caller's.
Chains(n) == {c \in [0 .. n -> Urls] :
                /\ c[0] = asked.url
                /\ \A i \in 0 .. n - 1 : Redirects(site[c[i]]) /\ c[i + 1] = site[c[i]].to}
SeenOther(c, n) == \E i \in 0 .. n - 1 : site[c[i]].kind = "see"

\* A response is the final answer at the end of the chain, it was asked for with the
\* caller's method unless a redirection on the way made it a GET, and fewer than Limit
\* redirections lead to it; the loop runs out only when they do not.
ResponseEndsChain ==
  /\ result = "response" =>
       /\ site[request.url].kind = "final"
       /\ \E n \in 0 .. Limit - 1 : \E c \in Chains(n) :
            /\ request.url = c[n]
            /\ request.method = IF SeenOther(c, n) THEN "GET" ELSE asked.method
  /\ result = "panicked" => Chains(Limit) # {}

\* Every request comes to an end, also where redirections run in a circle.
RequestEnds == <>(result # "none")

=============================================================================
