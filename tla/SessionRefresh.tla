--------------------------- MODULE SessionRefresh ---------------------------
(***************************************************************************)
(* The session of one user: the two cookies of each browser, the requests  *)
(* the Next.js proxy forwards for it, the shared refresh of an expired     *)
(* session, and the one refresh token the backend remembers per user.      *)
(*                                                                         *)
(* The access and the refresh token are issued and stored together, so one *)
(* number stands for the pair; 0 is no session. Equal tokens are one       *)
(* number: pairs made in the same second do not differ (Issue).            *)
(***************************************************************************)
EXTENDS Naturals

CONSTANTS
    Browsers,
    Requests,    \* requests that can be in flight at a time
    MaxTokens,   \* bound on the pairs issued
    MaxFaults,   \* bound on failed refreshes and lost answers
    Calmness,    \* which environments there are: see calm
    Hurried      \* bound: the browsers used when it is not calm

ASSUME SessionAssumption ==
    /\ {MaxTokens, MaxFaults} \subseteq Nat
    /\ Calmness \subseteq BOOLEAN
    /\ Hurried \subseteq Browsers /\ "nobody" \notin Browsers

VARIABLES
    current,   \* backend: the pair whose refresh token hash is stored
    rotations, \* how often each pair was exchanged since it was last stored
    issued,    \* pairs issued so far
    age,       \* of each access token: fresh, expiring (< 5 minutes) or dead
    cookie,    \* the pair in the cookies of each browser
    signedIn,  \* the browser that signed in last and did not sign out
    req,       \* the requests
    flight,    \* refreshPromises: the refresh of each pair
    result,    \* what that refresh resolved to (0: null)
    faults,
    calm       \* the environment is calm: see Start, CheckSession, SignIn,
               \* DropPromise, Issue and Age

vars == <<current, rotations, issued, age, cookie, signedIn, req, flight,
          result, faults, calm>>
backend == <<current, rotations, issued>>

Tokens == 1..MaxTokens

\* "me" is the check before an upload; the other kinds are any buffered call,
\* an upload stream, the explicit refresh route and the sign-in.
Kinds == {"call", "stream", "me", "refresh", "signin"}

NoRequest == [kind |-> "call", by |-> "nobody", token |-> 0, pc |-> "idle",
              out |-> "none", sets |-> 0, clears |-> FALSE]

InFlight(r) == req[r].pc # "idle"

SigningIn(r) == InFlight(r) /\ req[r].kind = "signin"

Go(r, pc) == req' = [req EXCEPT ![r].pc = pc]

\* The answer the proxy returns, with the cookies it sets or clears.  Only the
\* check and the sign-in are modelled further than their answer.
Answer(r, out, sets, clears) ==
    req' = [req EXCEPT ![r].pc = "answered",
                       ![r].out = IF req[r].kind \in {"me", "signin"} THEN out ELSE @,
                       ![r].sets = sets, ![r].clears = clears]

-----------------------------------------------------------------------------
(* The browser *)

HasSession(b) == cookie[b] # 0

Start(r, b, kind) ==
    /\ ~InFlight(r)
    /\ IF calm THEN \A s \in Requests : ~SigningIn(s) ELSE b \in Hurried
    /\ req' = [req EXCEPT ![r] =
                 [NoRequest EXCEPT !.kind = kind, !.by = b, !.token = cookie[b],
                                   !.pc = "sent"]]
    /\ UNCHANGED <<backend, age, cookie, signedIn, flight, result, faults, calm>>

\* ensureFreshSession starts with the cookies alone.  In a calm environment a
\* browser has one check under way at a time: the shorts page sends one per
\* submission, but another tab may send its own.
CheckSession(r, b) ==
    /\ HasSession(b)
    /\ calm => \A s \in Requests :
         InFlight(s) /\ req[s].by = b => req[s].kind \notin {"me", "refresh"}
    /\ Start(r, b, "me")

\* In a calm environment a sign-in has the user's browsers to itself.
SignIn(r, b) ==
    /\ calm => \A s \in Requests : ~InFlight(s)
    /\ Start(r, b, "signin")

SignOut(b) ==
    /\ cookie' = [cookie EXCEPT ![b] = 0]
    /\ signedIn' = IF signedIn = b THEN "nobody" ELSE signedIn
    /\ UNCHANGED <<backend, age, req, flight, result, faults, calm>>

\* The answer reaches the browser: its cookies first, then the caller, where
\* ensureFreshSession goes on to refresh a session about to expire.
Deliver(r) ==
    LET q == req[r] IN
    /\ q.pc = "answered"
    /\ cookie' = [cookie EXCEPT ![q.by] = IF q.clears THEN 0
                                          ELSE IF q.sets # 0 THEN q.sets ELSE @]
    /\ signedIn' = IF q.kind = "signin" /\ q.out = "ok" THEN q.by ELSE signedIn
    /\ req' = [req EXCEPT ![r] =
                 IF /\ q.kind = "me" /\ q.out = "ok"
                    /\ age[IF q.sets # 0 THEN q.sets ELSE q.token] = "expiring"
                 THEN [NoRequest EXCEPT !.kind = "refresh", !.by = q.by,
                                        !.token = cookie'[q.by], !.pc = "sent"]
                 ELSE NoRequest]
    /\ UNCHANGED <<backend, age, flight, result, faults, calm>>

-----------------------------------------------------------------------------
(* The proxy (proxyPendingResponse) *)

Accepted(token) == token # 0 /\ age[token] # "dead"

\* The request reaches the backend with the access token of its cookies.
Forwarded(r) ==
    LET q == req[r] IN
    /\ q.pc = "sent" /\ q.kind \in {"call", "stream", "me"}
    /\ CASE Accepted(q.token) -> Answer(r, "ok", 0, FALSE)
         [] ~Accepted(q.token) /\ (q.token = 0 \/ q.kind = "stream") ->
              Answer(r, "401", 0, FALSE)
         [] OTHER -> Go(r, "joining")
    /\ UNCHANGED <<backend, age, cookie, signedIn, flight, result, faults, calm>>

\* The refresh route goes to refreshSessionCookies at once.
RefreshRoute(r) ==
    LET q == req[r] IN
    /\ q.pc = "sent" /\ q.kind = "refresh"
    /\ IF q.token = 0 THEN Answer(r, "401", 0, FALSE) ELSE Go(r, "joining")
    /\ UNCHANGED <<backend, age, cookie, signedIn, flight, result, faults, calm>>

\* A pair is made and stored (make_tokens, record_refresh_token).  What is
\* signed is the user, the type and the expiry in whole seconds: a pair made in
\* the same second as the last one is that pair again, even if it was exchanged.
\* Seconds are not modelled: while the last pair is fresh, it may be made again.
\* In a calm environment the user's pairs are made in different seconds.
Issue(n) ==
    /\ n = issued + 1 \/ (~calm /\ n = issued /\ age[n] = "fresh")
    /\ issued' = n
    /\ current' = n
    /\ age' = [age EXCEPT ![n] = "fresh"]

\* A public path: whatever comes back is the answer.
SigninServed(r) ==
    /\ req[r].pc = "sent" /\ req[r].kind = "signin"
    /\ \/ \E n \in Tokens :
            /\ Issue(n)
            /\ rotations' = [rotations EXCEPT ![n] = 0]
            /\ Answer(r, "ok", n, FALSE)
       \/ /\ Answer(r, "401", 0, FALSE)
          /\ UNCHANGED <<backend, age>>
    /\ UNCHANGED <<cookie, signedIn, flight, result, faults, calm>>

\* Any error of the backend or of the network is passed on as a server error.
Unreachable(r) ==
    /\ req[r].pc \in {"sent", "replay"}
    /\ Answer(r, "5xx", req[r].sets, FALSE)
    /\ UNCHANGED <<backend, age, cookie, signedIn, flight, result, faults, calm>>

\* One refresh per refresh token, joined by whoever holds that token.
Join(r) ==
    LET k == req[r].token IN
    /\ req[r].pc = "joining"
    /\ flight' = [flight EXCEPT ![k] = IF @ = "none" THEN "sent" ELSE @]
    /\ Go(r, "waiting")
    /\ UNCHANGED <<backend, age, cookie, signedIn, result, faults, calm>>

\* The refresh resolved: every joiner stores the new pair, or clears the old.
Resume(r) ==
    LET k == req[r].token IN
    /\ req[r].pc = "waiting" /\ flight[k] = "settled"
    /\ IF result[k] = 0 THEN Answer(r, "401", 0, TRUE)
       ELSE IF req[r].kind = "refresh" THEN Answer(r, "ok", result[k], FALSE)
       ELSE req' = [req EXCEPT ![r].pc = "replay", ![r].sets = result[k]]
    /\ UNCHANGED <<backend, age, cookie, signedIn, flight, result, faults, calm>>

\* The call again, with the new access token.
Replayed(r) ==
    /\ req[r].pc = "replay"
    /\ Answer(r, IF Accepted(req[r].sets) THEN "ok" ELSE "401", req[r].sets, FALSE)
    /\ UNCHANGED <<backend, age, cookie, signedIn, flight, result, faults, calm>>

\* Mutant: the promise is deleted as soon as it settled, without the 500 ms.
DropPromiseAtOnce(k) ==
    /\ flight[k] = "settled"
    /\ \A r \in Requests : req[r].token = k => req[r].pc # "waiting"
    /\ flight' = [flight EXCEPT ![k] = "none"]
    /\ result' = [result EXCEPT ![k] = 0]
    /\ UNCHANGED <<backend, age, cookie, signedIn, req, faults, calm>>

\* 500 ms after it settled the promise is dropped.  Its joiners went on at
\* once; in a calm environment every answer due to that token has arrived.
DropPromise(k) ==
    /\ flight[k] = "settled"
    /\ \A r \in Requests : req[r].token = k =>
         req[r].pc # "waiting" /\ (calm => ~InFlight(r))
    /\ flight' = [flight EXCEPT ![k] = "none"]
    /\ result' = [result EXCEPT ![k] = 0]
    /\ UNCHANGED <<backend, age, cookie, signedIn, req, faults, calm>>

-----------------------------------------------------------------------------
(* The backend (token_refresh_with_verify) *)

Settle(k, to) ==
    /\ flight' = [flight EXCEPT ![k] = "settled"]
    /\ result' = [result EXCEPT ![k] = to]

\* Mutant: any refresh token with a valid signature is accepted.
VerifySignatureOnly(k) ==
    /\ flight[k] = "sent"
    /\ flight' = [flight EXCEPT ![k] = "verified"]
    /\ UNCHANGED <<backend, age, cookie, signedIn, req, result, faults, calm>>

\* The stored hash is read and compared ...
Verify(k) ==
    /\ flight[k] = "sent"
    /\ IF current = k
       THEN flight' = [flight EXCEPT ![k] = "verified"] /\ UNCHANGED result
       ELSE Settle(k, 0)
    /\ UNCHANGED <<backend, age, cookie, signedIn, req, faults, calm>>

\* Mutant: the pair after the stored one is returned.
RotateOffByOne(k) ==
    /\ flight[k] = "verified"
    /\ \E n \in Tokens :
         /\ Issue(n)
         /\ rotations' = [rotations EXCEPT ![k] = @ + 1, ![n] = 0]
         /\ Settle(k, n + 1) /\ UNCHANGED faults
    /\ UNCHANGED <<cookie, signedIn, req, calm>>

\* ... and later replaced, without another look (record_refresh_token).
Rotate(k) ==
    /\ flight[k] = "verified"
    /\ \E n \in Tokens :
         /\ Issue(n)
         /\ rotations' = [rotations EXCEPT ![k] = @ + 1, ![n] = 0]
         /\ \/ Settle(k, n) /\ UNCHANGED faults
            \/ faults < MaxFaults /\ faults' = faults + 1 /\ Settle(k, 0)
    /\ UNCHANGED <<cookie, signedIn, req, calm>>

\* fetchNewAccessToken resolves to null on any failure, an outage included.
RefreshFails(k) ==
    /\ flight[k] \in {"sent", "verified"}
    /\ \/ faults < MaxFaults /\ faults' = faults + 1
       \/ issued = MaxTokens /\ faults' = MaxFaults   \* the bound is a fault
    /\ Settle(k, 0)
    /\ UNCHANGED <<backend, age, cookie, signedIn, req, calm>>

\* In a calm environment no request is under way for the 25 minutes that make
\* a fresh access token an expiring one.  The age of a pair nobody holds does
\* not matter.
Age(k) ==
    /\ \/ \E b \in Browsers : cookie[b] = k
       \/ \E r \in Requests : k \in {req[r].token, req[r].sets}
    /\ calm => \A r \in Requests : ~InFlight(r)
    /\ \/ age[k] = "fresh" /\ age' = [age EXCEPT ![k] = "expiring"]
       \/ age[k] = "expiring" /\ age' = [age EXCEPT ![k] = "dead"]
    /\ UNCHANGED <<backend, cookie, signedIn, req, flight, result, faults, calm>>

-----------------------------------------------------------------------------
Init ==
    /\ current = 0 /\ issued = 0 /\ faults = 0
    /\ rotations = [k \in Tokens |-> 0]
    /\ age = [k \in Tokens |-> "fresh"]
    /\ cookie = [b \in Browsers |-> 0]
    /\ signedIn = "nobody"
    /\ req = [r \in Requests |-> NoRequest]
    /\ flight = [k \in Tokens |-> "none"]
    /\ result = [k \in Tokens |-> 0]
    /\ calm \in Calmness

Handle(r) ==
    \/ Deliver(r) \/ Forwarded(r) \/ RefreshRoute(r) \/ SigninServed(r)
    \/ Unreachable(r) \/ Join(r) \/ Resume(r) \/ Replayed(r)

Refresh(k) == Verify(k) \/ Rotate(k) \/ RefreshFails(k)

Next ==
    \/ \E b \in Browsers :
         \/ SignOut(b)
         \/ \E r \in Requests :
              \/ CheckSession(r, b) \/ SignIn(r, b)
              \/ \E kind \in {"call", "stream"} : Start(r, b, kind)
    \/ \E r \in Requests : Handle(r)
    \/ \E k \in Tokens : Refresh(k) \/ DropPromise(k) \/ Age(k)

Spec == Init /\ [][Next]_vars

-----------------------------------------------------------------------------
\* Cookies, requests and refreshes name only pairs that can have been issued.
TypeOK ==
    /\ {current, issued} \subseteq 0..MaxTokens
    /\ rotations \in [Tokens -> Nat]
    /\ age \in [Tokens -> {"fresh", "expiring", "dead"}]
    /\ cookie \in [Browsers -> 0..MaxTokens]
    /\ signedIn \in Browsers \union {"nobody"}
    /\ req \in [Requests ->
         [kind : Kinds, by : Browsers \union {"nobody"}, token : 0..MaxTokens,
          pc : {"idle", "sent", "joining", "waiting", "replay", "answered"},
          out : {"none", "ok", "401", "5xx"}, sets : 0..MaxTokens,
          clears : BOOLEAN]]
    /\ flight \in [Tokens -> {"none", "sent", "verified", "settled"}]
    /\ result \in [Tokens -> 0..MaxTokens]
    /\ faults \in 0..MaxFaults /\ calm \in BOOLEAN

\* No refresh token is exchanged twice for one time it was stored, however many
\* requests find their session expired at once (response.ts:81), and though a
\* pair made in the same second may store an exchanged one again.
RotatedOnce == \A k \in Tokens : rotations[k] <= 1

\* In a calm environment without failures (which has one session check of a
\* browser under way at a time), a browser at rest that signed in last still
\* holds the session the backend would refresh: neither a refresh nor an answer
\* that sets or clears cookies has logged it out.
SessionKept ==
    \A b \in Browsers :
      calm /\ faults = 0 /\ signedIn = b /\ (\A r \in Requests : ~InFlight(r)) =>
        cookie[b] = current

\* "401 means the session is certainly dead" (session.ts:38).
UnauthorizedMeansDead ==
    \A r \in Requests :
      req[r].kind = "me" /\ req[r].pc = "answered" /\ req[r].out = "401" =>
        req[r].token # current

=============================================================================
