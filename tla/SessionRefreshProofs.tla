------------------------ MODULE SessionRefreshProofs ------------------------
(***************************************************************************)
(* The session, for any number of browsers, requests and tokens.           *)
(*                                                                         *)
(* No refresh token is exchanged twice for one time it was stored, however *)
(* calm the environment (IInv). The shared promise alone does not ensure   *)
(* it: the promise is dropped 500 ms after it settled, and a later request *)
(* asks the backend again. The stored hash does: a pair that was exchanged *)
(* is not the stored one, unless it was made again in the same second.     *)
(*                                                                         *)
(* A browser that signed in keeps its session in a calm environment where  *)
(* nothing fails (SessionInv). Its cookie may lag behind the stored pair   *)
(* only while an answer that sets it is due (Kept); a refresh begins when  *)
(* every request of the browser is of the stored pair (RefreshIsFirst);    *)
(* and a check whose pair was exchanged meanwhile asks for no refresh of   *)
(* its own (ChecksLag), because in a calm environment a browser has one    *)
(* session check under way at a time (OneCheck).                           *)
(***************************************************************************)
EXTENDS SessionRefresh, TLAPS

\* What the proof needs of the variables' types.
Types ==
    /\ issued \in Nat /\ current \in Nat
    /\ rotations \in [Tokens -> Nat]
    /\ flight \in [Tokens -> {"none", "sent", "verified", "settled"}]

\* The stored pair was issued.
StoredWasIssued == current <= issued

\* A pair whose refresh is verified but not yet exchanged was issued.
VerifiedWasIssued == \A k \in Tokens : flight[k] = "verified" => k <= issued

\* A pair exchanged since it was last stored was issued, is not stored and is
\* not about to be exchanged again.
ExchangedIsSpent ==
    \A k \in Tokens :
      rotations[k] # 0 =>
        k <= issued /\ current # k /\ flight[k] # "verified"

IInv == /\ Types /\ StoredWasIssued /\ VerifiedWasIssued /\ ExchangedIsSpent
        /\ RotatedOnce

\* Nothing is issued at the start.
LEMMA Initially == Init => IInv
BY DEF Init, IInv, Types, StoredWasIssued, VerifiedWasIssued,
       ExchangedIsSpent, RotatedOnce, Tokens

\* Steps that leave the backend and the refreshes alone.
LEMMA Untouched ==
    ASSUME IInv, UNCHANGED <<current, issued, rotations, flight>>
    PROVE  IInv'
BY DEF IInv, Types, StoredWasIssued, VerifiedWasIssued, ExchangedIsSpent,
       RotatedOnce

\* Steps that leave the backend alone and verify no refresh.
LEMMA FlightOnly ==
    ASSUME IInv, NEW k \in Tokens, NEW s \in {"none", "sent", "settled"},
           UNCHANGED backend, flight' = [flight EXCEPT ![k] = s]
    PROVE  IInv'
BY DEF IInv, Types, StoredWasIssued, VerifiedWasIssued, ExchangedIsSpent,
       RotatedOnce, backend

\* The backend compares the token it is sent with the stored one.
LEMMA VerifyStep ==
    ASSUME IInv, NEW k \in Tokens, Verify(k)
    PROVE  IInv'
<1>1. CASE current = k
  <2>1. flight' = [flight EXCEPT ![k] = "verified"] /\ UNCHANGED backend
    BY <1>1 DEF Verify
  <2>2. rotations[k] = 0 /\ k <= issued
    BY <1>1 DEF IInv, Types, StoredWasIssued, ExchangedIsSpent, Tokens
  <2> QED
    BY <2>1, <2>2 DEF IInv, Types, StoredWasIssued, VerifiedWasIssued,
       ExchangedIsSpent, RotatedOnce, backend
<1>2. CASE current # k
  BY <1>2, FlightOnly DEF Verify, Settle
<1> QED
  BY <1>1, <1>2

\* The backend exchanges the token it has verified for a new one.
LEMMA RotateStep ==
    ASSUME IInv, NEW k \in Tokens, Rotate(k)
    PROVE  IInv'
<1>1. PICK n \in Tokens :
        /\ issued' = n /\ current' = n /\ n \in {issued, issued + 1}
        /\ rotations' = [rotations EXCEPT ![k] = @ + 1, ![n] = 0]
        /\ flight' = [flight EXCEPT ![k] = "settled"]
  BY DEF Rotate, Settle, Issue
<1>2. rotations[k] = 0 /\ k <= issued
  BY DEF Rotate, IInv, VerifiedWasIssued, ExchangedIsSpent
<1> USE DEF IInv, Types
<1>3. Types'
  BY <1>1 DEF Tokens
<1>4. StoredWasIssued' /\ VerifiedWasIssued'
  BY <1>1 DEF StoredWasIssued, VerifiedWasIssued, Tokens
<1>5. ExchangedIsSpent'
  BY <1>1, <1>2 DEF ExchangedIsSpent, Tokens
<1>6. RotatedOnce'
  BY <1>1, <1>2 DEF RotatedOnce
<1> QED
  BY <1>3, <1>4, <1>5, <1>6

\* A sign-in stores a pair of its own, or the one made in the same second.
LEMMA SigninStep ==
    ASSUME IInv, NEW r \in Requests, SigninServed(r)
    PROVE  IInv'
<1>1. ASSUME NEW n \in Tokens, issued' = n, current' = n, n \in {issued, issued + 1},
             rotations' = [rotations EXCEPT ![n] = 0], flight' = flight
      PROVE  IInv'
  BY <1>1 DEF IInv, Types, StoredWasIssued, VerifiedWasIssued,
     ExchangedIsSpent, RotatedOnce, Tokens
<1>2. CASE UNCHANGED <<backend, flight>>
  BY <1>2, Untouched DEF backend
<1> QED
  BY <1>1, <1>2 DEF SigninServed, Issue

\* A request joins a refresh of the token it carries; no refresh is asked for
\* without one.
LEMMA JoinStep ==
    ASSUME IInv, NEW r \in Requests, Join(r)
    PROVE  IInv'
<1> DEFINE k == req[r].token
<1>1. UNCHANGED backend
      /\ flight' = [flight EXCEPT ![k] = IF @ = "none" THEN "sent" ELSE @]
  BY DEF Join
<1> QED
  BY <1>1 DEF IInv, Types, StoredWasIssued, VerifiedWasIssued,
     ExchangedIsSpent, RotatedOnce, backend

\* Every step preserves the invariant.
LEMMA Step == IInv /\ [Next]_vars => IInv'
<1> SUFFICES ASSUME IInv, [Next]_vars PROVE IInv'
  OBVIOUS
<1>1. CASE UNCHANGED vars
  BY <1>1, Untouched DEF vars, backend
<1>2. ASSUME NEW b \in Browsers, NEW r \in Requests,
             CheckSession(r, b) \/ SignIn(r, b)
             \/ \E kind \in {"call", "stream"} : Start(r, b, kind)
      PROVE  IInv'
  BY <1>2, Untouched DEF CheckSession, SignIn, Start, backend
<1>3. ASSUME NEW b \in Browsers, SignOut(b) PROVE IInv'
  BY <1>3, Untouched DEF SignOut, backend
<1>4. ASSUME NEW r \in Requests, Handle(r) PROVE IInv'
  <2>1. CASE Deliver(r) \/ Forwarded(r) \/ RefreshRoute(r) \/ Unreachable(r)
             \/ Resume(r) \/ Replayed(r)
    BY <2>1, Untouched DEF Deliver, Forwarded, RefreshRoute, Unreachable,
       Resume, Replayed, backend
  <2>2. CASE SigninServed(r)
    BY <2>2, SigninStep
  <2>3. CASE Join(r)
    BY <2>3, JoinStep
  <2> QED
    BY <1>4, <2>1, <2>2, <2>3 DEF Handle
<1>5. ASSUME NEW k \in Tokens, Refresh(k) \/ DropPromise(k) \/ Age(k)
      PROVE  IInv'
  <2>1. CASE Verify(k)
    BY <2>1, VerifyStep
  <2>2. CASE Rotate(k)
    BY <2>2, RotateStep
  <2>3. CASE RefreshFails(k)
    BY <2>3, FlightOnly DEF RefreshFails, Settle
  <2>4. CASE DropPromise(k)
    BY <2>4, FlightOnly DEF DropPromise, backend
  <2>5. CASE Age(k)
    BY <2>5, Untouched DEF Age, backend
  <2> QED
    BY <1>5, <2>1, <2>2, <2>3, <2>4, <2>5 DEF Refresh
<1> QED
  BY <1>1, <1>2, <1>3, <1>4, <1>5 DEF Next

\* No refresh token is exchanged twice for one time it was stored
\* (response.ts:81, auth.py:133), whatever pairs are made in the same second.
THEOREM NeverRotatedTwice == Spec => []RotatedOnce
<1>1. IInv => RotatedOnce
  BY DEF IInv
<1> QED
  BY Initially, Step, <1>1, PTL DEF Spec

-----------------------------------------------------------------------------
(* A calm session is kept                                                    *)

\* In a calm environment one check of a session is under way in a browser at a
\* time.  Of three that were, the last one's late answer could set a spent pair.
OneCheck ==
    \A r, s \in Requests :
        /\ InFlight(r) /\ InFlight(s) /\ req[r].by = req[s].by
        /\ {req[r].kind, req[s].kind} \subseteq {"me", "refresh"}
        => r = s

\* Only pairs that were issued are in cookies, requests and results, and only
\* they are refreshed.
OnlyIssued ==
    /\ current <= issued
    /\ \A b \in Browsers : cookie[b] <= issued
    /\ \A r \in Requests : req[r].token <= issued /\ req[r].sets <= issued
    /\ \A k \in Tokens :
         /\ result[k] <= issued
         /\ k > issued => flight[k] = "none" /\ result[k] = 0

\* What the step of a request tells about it.
RequestShape ==
    \A r \in Requests :
        /\ InFlight(r) => req[r].by \in Browsers
        /\ ~InFlight(r) => req[r].token = 0
        /\ req[r].sets # 0 => req[r].pc \in {"replay", "answered"}
        /\ req[r].clears => req[r].pc = "answered"
        /\ req[r].pc \in {"joining", "waiting"} => req[r].token # 0
        /\ req[r].kind = "signin" => req[r].pc \in {"sent", "answered"}

\* A sign-in has the environment to itself, and answers with the pair it stored.
SigninShape ==
    \A r \in Requests : SigningIn(r) =>
        /\ \A s \in Requests : InFlight(s) => s = r
        /\ ~req[r].clears
        /\ \/ req[r].pc = "sent" /\ req[r].out # "ok" /\ req[r].sets = 0
           \/ req[r].pc = "answered" /\ req[r].out # "ok" /\ req[r].sets = 0
           \/ req[r].pc = "answered" /\ req[r].out = "ok" /\ req[r].sets = current /\ current # 0

\* A refresh is under way for as long as someone waits for it, and it is the
\* stored pair that is exchanged.
RefreshShape ==
    /\ \A k \in Tokens : flight[k] \in {"sent", "verified"} =>
         \E r \in Requests : req[r].pc = "waiting" /\ req[r].token = k
    /\ \A k \in Tokens : flight[k] = "verified" => current = k
    /\ current # 0 => flight[current] # "settled"

ServedSignin == \E r \in Requests : SigningIn(r) /\ req[r].out = "ok"
Reigns == signedIn # "nobody" /\ ~ServedSignin

Holds(b, k) ==
    \/ cookie[b] = k
    \/ \E r \in Requests : InFlight(r) /\ req[r].by = b /\ k \in {req[r].token, req[r].sets}

\* Every pair came to one browser, by a sign-in or from a pair of that browser.
Owned(own) ==
    /\ \A b \in Browsers, k \in Tokens : Holds(b, k) => own[k] = b
    /\ \A k \in Tokens : result[k] # 0 => own[result[k]] = own[k]
    /\ Reigns => own[current] = signedIn

Mine(r) == InFlight(r) /\ req[r].by = signedIn

\* A pair with which the browser comes to the stored one.
Leads(k) == k = current \/ (k # 0 /\ flight[k] = "settled" /\ result[k] = current)

\* The browser that is signed in holds the stored pair or is about to: its cookie
\* lags behind only while an answer that sets it is due, and nothing can exchange
\* the new pair before the last request of the old one has come home.
Kept ==
    /\ current # 0
    /\ Leads(cookie[signedIn])
    /\ \A r \in Requests : Mine(r) =>
         Leads(req[r].token) /\ req[r].sets \in {0, current} /\ ~req[r].clears
    /\ cookie[signedIn] # current =>
         \E r \in Requests : /\ Mine(r) /\ req[r].token = cookie[signedIn]
                             /\ req[r].pc = "waiting" \/ req[r].sets = current
    /\ \A r \in Requests :
         Mine(r) /\ (req[r].token # current \/ req[r].sets # 0) => age[current] = "fresh"

\* Before a refresh of the stored pair every request of the browser is of that pair.
RefreshIsFirst ==
    \A r \in Requests :
        /\ Mine(r) /\ req[r].token = current
        /\ \/ req[r].pc \in {"joining", "waiting"}
           \/ req[r].pc = "sent" /\ req[r].kind = "refresh"
        => \A s \in Requests : Mine(s) => req[s].token = current /\ req[s].sets = 0

\* A check that outlives the refresh of its pair was made with a dead one, and so
\* asks for no second refresh; and only a dead pair, or a check, begins one.
ChecksLag ==
    \A r \in Requests : Mine(r) =>
        /\ req[r].kind = "me" /\ req[r].token # current /\ req[r].sets = 0 =>
             age[req[r].token] = "dead"
        /\ /\ req[r].kind # "refresh"
           /\ req[r].pc \in {"joining", "waiting"} \/ req[r].sets # 0
           => age[req[r].token] = "dead"

CalmInv ==
    /\ SigninShape /\ RefreshShape
    /\ \E own \in [Tokens -> Browsers \union {"nobody"}] : Owned(own)
    /\ Reigns => Kept /\ RefreshIsFirst /\ ChecksLag

\* In every environment.
ShapeInv == TypeOK /\ OnlyIssued /\ RequestShape

SessionInv == ShapeInv /\ (calm => OneCheck) /\ (calm /\ faults = 0 => CalmInv)


RequestType ==
    [kind : Kinds, by : Browsers \union {"nobody"}, token : 0..MaxTokens,
     pc : {"idle", "sent", "joining", "waiting", "replay", "answered"},
     out : {"none", "ok", "401", "5xx"}, sets : 0..MaxTokens, clears : BOOLEAN]

\* A request that goes on: it keeps its kind, browser and pair, gets a pair to set
\* from a settled refresh only, and joins one only with a dead pair or as a check.
Moves(r, new) ==
    /\ InFlight(r) /\ req' = [req EXCEPT ![r] = new] /\ new \in RequestType
    /\ new.kind = req[r].kind /\ new.by = req[r].by /\ new.token = req[r].token
    /\ new.pc \in {"joining", "waiting", "replay", "answered"}
    /\ UNCHANGED <<backend, age, cookie, signedIn, result, faults, calm>>

Gets(r, new) ==
    /\ new.sets = IF req[r].pc = "waiting" THEN result[req[r].token] ELSE req[r].sets
    /\ new.sets # 0 => new.pc \in {"replay", "answered"}
    /\ new.clears => /\ req[r].pc = "waiting" /\ new.pc = "answered"
                     /\ result[req[r].token] = 0

Joins(r, new) ==
    /\ new.pc = "joining" => /\ req[r].pc = "sent" /\ req[r].token # 0
                             /\ req[r].kind = "refresh" \/ age[req[r].token] = "dead"
    /\ new.pc = "waiting" => req[r].pc = "joining"
    /\ req[r].pc = "waiting" => flight[req[r].token] = "settled"
    /\ req[r].kind = "signin" => /\ req[r].pc = "sent" /\ new.pc = "answered" /\ new.out # "ok"
                                 /\ new.sets = 0 /\ ~new.clears
    /\ \/ flight' = flight
       \/ /\ new.pc = "waiting" /\ flight[req[r].token] = "none"
          /\ flight' = [flight EXCEPT ![req[r].token] = "sent"]

\* What the steps need of the types.
LEMMA SessionTypes ==
    ASSUME TypeOK
    PROVE  /\ req \in [Requests -> RequestType]
           /\ current \in 0..MaxTokens /\ issued \in 0..MaxTokens
           /\ current \in Nat /\ issued \in Nat /\ MaxTokens \in Nat
           /\ cookie \in [Browsers -> 0..MaxTokens] /\ result \in [Tokens -> 0..MaxTokens]
           /\ flight \in [Tokens -> {"none", "sent", "verified", "settled"}]
           /\ age \in [Tokens -> {"fresh", "expiring", "dead"}]
           /\ signedIn \in Browsers \union {"nobody"}
           /\ \A k : k \in 0..MaxTokens /\ k # 0 => k \in Tokens
           /\ \A k \in Tokens : k # 0 /\ k \in 0..MaxTokens /\ k \in Nat
  BY SessionAssumption DEF TypeOK, RequestType, Tokens

\* A request that goes on keeps the types and the shape.
LEMMA MoveBasics ==
    ASSUME ShapeInv, NEW r \in Requests, NEW new, Moves(r, new), Gets(r, new), Joins(r, new)
    PROVE  ShapeInv'
<1> USE SessionTypes DEF ShapeInv
<1>1. /\ req' \in [Requests -> RequestType] /\ req'[r] = new
      /\ \A s \in Requests : s # r => req'[s] = req[s]
      /\ UNCHANGED <<current, issued, rotations, age, cookie, signedIn, result, faults, calm>>
  BY DEF Moves, backend
<1>2. flight' \in [Tokens -> {"none", "sent", "verified", "settled"}]
  BY DEF Joins
<1>3. TypeOK'
  BY <1>1, <1>2 DEF TypeOK, RequestType
<1>4. req[r].pc \in {"joining", "waiting"} => req[r].token \in Tokens
  <2>1. req[r] \in RequestType
    OBVIOUS
  <2> QED
    BY <2>1 DEF RequestShape, RequestType
<1>5. \A k \in Tokens : flight'[k] # flight[k] => k = req[r].token /\ new.pc = "waiting"
  BY <1>4 DEF Joins
<1>6. OnlyIssued'
  <2>1. new.token <= issued /\ new.sets <= issued
    BY <1>4 DEF Moves, Gets, OnlyIssued
  <2>2. \A k \in Tokens : k > issued => flight'[k] = flight[k]
    <3> SUFFICES ASSUME NEW k \in Tokens, k > issued, flight'[k] # flight[k] PROVE FALSE
      OBVIOUS
    <3>1. k = req[r].token /\ req[r].token <= issued
      BY <1>5 DEF OnlyIssued
    <3> QED
      BY <3>1
  <2> QED
    BY <1>1, <2>1, <2>2 DEF OnlyIssued
<1>7. RequestShape'
  BY <1>1, <1>4 DEF RequestShape, Moves, Gets, Joins, InFlight
<1> QED
  BY <1>3, <1>6, <1>7

\* And it keeps a calm session: what it sets is the stored pair, and it joins the
\* refresh of that pair only when every request of the browser is of it.
LEMMA MoveCalm ==
    ASSUME ShapeInv, CalmInv, NEW r \in Requests, NEW new,
           Moves(r, new), Gets(r, new), Joins(r, new)
    PROVE  CalmInv'
<1> USE SessionTypes DEF ShapeInv
<1>1. /\ req' \in [Requests -> RequestType] /\ req'[r] = new
      /\ \A s \in Requests : s # r => req'[s] = req[s]
      /\ UNCHANGED <<current, issued, rotations, age, cookie, signedIn, result, faults, calm>>
      /\ new.kind = req[r].kind /\ new.by = req[r].by /\ new.token = req[r].token
      /\ req[r].pc # "idle" /\ new.pc # "idle" /\ new.pc # "sent"
      /\ req[r] \in RequestType
  BY DEF Moves, InFlight, backend
<1>2. SigninShape /\ RefreshShape /\ (Reigns => Kept /\ RefreshIsFirst /\ ChecksLag)
  BY DEF CalmInv
<1>3. SigninShape'
  BY <1>1, <1>2 DEF SigninShape, SigningIn, InFlight, Joins
<1>4. req[r].pc \in {"joining", "waiting"} => req[r].token \in Tokens
  BY <1>1 DEF RequestShape, RequestType
<1>5. \A k \in Tokens : \/ flight'[k] = flight[k]
                        \/ /\ k = req[r].token /\ new.pc = "waiting" /\ req[r].pc = "joining"
                           /\ flight[k] = "none" /\ flight'[k] = "sent"
  BY <1>4 DEF Joins
<1>6. RefreshShape'
  <2>1. ASSUME NEW k \in Tokens, flight'[k] \in {"sent", "verified"}
        PROVE  \E s \in Requests : req'[s].pc = "waiting" /\ req'[s].token = k
    <3>1. CASE flight'[k] = flight[k]
      <4>1. PICK s \in Requests : req[s].pc = "waiting" /\ req[s].token = k
        BY <1>2, <2>1, <3>1 DEF RefreshShape
      <4>2. s # r
        BY <2>1, <3>1, <4>1 DEF Joins
      <4> QED
        BY <1>1, <4>1, <4>2
    <3>2. CASE flight'[k] # flight[k]
      BY <1>1, <1>5, <3>2
    <3> QED
      BY <3>1, <3>2
  <2>2. \A k \in Tokens : flight'[k] = "verified" => current' = k
    BY <1>1, <1>2, <1>5 DEF RefreshShape
  <2>3. current' # 0 => flight'[current'] # "settled"
    BY <1>1, <1>2, <1>5 DEF RefreshShape
  <2> QED
    BY <2>1, <2>2, <2>3 DEF RefreshShape
<1>7. ServedSignin' <=> ServedSignin
  BY <1>1, <1>2 DEF ServedSignin, SigningIn, InFlight, Joins, SigninShape
<1>8. Reigns' <=> Reigns
  BY <1>1, <1>7 DEF Reigns
<1>9. PICK own \in [Tokens -> Browsers \union {"nobody"}] : Owned(own)
  BY DEF CalmInv
<1>10. Owned(own)'
  <2>1. ASSUME NEW b \in Browsers, NEW k \in Tokens, Holds(b, k)'  PROVE own[k] = b
    <3>1. CASE Holds(b, k)
      BY <1>9, <3>1 DEF Owned
    <3>2. CASE ~Holds(b, k)
      <4>1. /\ req[r].by = b /\ req[r].pc = "waiting" /\ k = result[req[r].token] /\ k # 0
        BY <1>1, <2>1, <3>2 DEF Holds, InFlight, Gets
      <4>2. req[r].token \in Tokens /\ Holds(b, req[r].token)
        BY <1>1, <1>4, <4>1 DEF Holds, InFlight
      <4> QED
        BY <1>9, <4>1, <4>2 DEF Owned
    <3> QED
      BY <3>1, <3>2
  <2> QED
    BY <1>1, <1>8, <1>9, <2>1 DEF Owned
<1>11. ASSUME Reigns'  PROVE Kept' /\ RefreshIsFirst' /\ ChecksLag'
  <2>1. Kept /\ RefreshIsFirst /\ ChecksLag /\ signedIn' = signedIn
    BY <1>1, <1>2, <1>8, <1>11
  <2>2. \A s \in Requests : Mine(s)' <=> Mine(s)
    BY <1>1 DEF Mine, InFlight
  <2>3. \A k : Leads(k) /\ k \in 0..MaxTokens => Leads(k)'
    BY <1>1, <1>5 DEF Leads
  <2>4. /\ current \in Tokens /\ flight[current] # "settled" /\ current # 0
    BY <1>2, <2>1 DEF Kept, RefreshShape
  <2>5. ASSUME Mine(r), new.sets # req[r].sets
        PROVE  /\ req[r].pc = "waiting" /\ req[r].token # current
               /\ new.sets = current
    <3>1. /\ req[r].pc = "waiting" /\ flight[req[r].token] = "settled"
          /\ new.sets = result[req[r].token]
      BY <2>5 DEF Gets, Joins
    <3>2. Leads(req[r].token)
      BY <2>1, <2>5 DEF Kept
    <3> QED
      BY <2>4, <3>1, <3>2 DEF Leads
  <2>6. Mine(r) => ~new.clears
    <3> SUFFICES ASSUME Mine(r), new.clears PROVE FALSE
      OBVIOUS
    <3>1. flight[req[r].token] = "settled" /\ result[req[r].token] = 0
      BY DEF Gets, Joins
    <3>2. Leads(req[r].token)
      BY <2>1 DEF Kept
    <3> QED
      BY <2>4, <3>1, <3>2 DEF Leads
  <2>7. Kept'
    <3>1. Leads(cookie[signedIn])'
      <4>1. signedIn \in Browsers
        BY <1>11, <1>8 DEF Reigns
      <4> QED
        BY <1>1, <2>1, <2>3, <4>1 DEF Kept
    <3>3. (\A s \in Requests : Mine(s) =>
             Leads(req[s].token) /\ req[s].sets \in {0, current} /\ ~req[s].clears)'
      <4> SUFFICES ASSUME NEW s \in Requests, Mine(s)
                   PROVE  (Leads(req[s].token) /\ req[s].sets \in {0, current} /\ ~req[s].clears)'
        BY <2>2
      <4>1. PICK k \in 0..MaxTokens : k = req[s].token /\ Leads(k)
        BY <2>1 DEF Kept, RequestType
      <4>2. req'[s].token = k /\ Leads(k)'
        BY <1>1, <2>3, <4>1
      <4>3. (Leads(req[s].token))'
        BY <4>2 DEF Leads
      <4> QED
        BY <1>1, <2>1, <2>5, <2>6, <4>3 DEF Kept
    <3>4. cookie[signedIn] # current =>
            \E s \in Requests : /\ Mine(s) /\ req'[s].token = cookie[signedIn]
                                /\ req'[s].pc = "waiting" \/ req'[s].sets = current
      <4> SUFFICES ASSUME cookie[signedIn] # current
                   PROVE  \E s \in Requests : /\ Mine(s) /\ req'[s].token = cookie[signedIn]
                                              /\ req'[s].pc = "waiting" \/ req'[s].sets = current
        OBVIOUS
      <4>1. PICK s \in Requests : /\ Mine(s) /\ req[s].token = cookie[signedIn]
                                  /\ req[s].pc = "waiting" \/ req[s].sets = current
        BY <2>1 DEF Kept
      <4>2. CASE s # r
        BY <1>1, <4>1, <4>2
      <4>3. CASE s = r /\ req[r].sets = current
        <5>1. new.sets = current
          BY <2>5, <4>1, <4>3
        <5> QED
          BY <1>1, <4>1, <4>3, <5>1
      <4>4. CASE s = r /\ req[r].pc = "waiting"
        <5>1. Leads(req[r].token) /\ req[r].token # current
          BY <2>1, <4>1, <4>4 DEF Kept
        <5>2. flight[req[r].token] = "settled" /\ result[req[r].token] = current
          BY <5>1 DEF Leads
        <5>3. new.sets = current \/ new.pc = "waiting"
          BY <2>4, <2>5, <4>1, <4>4, <5>2 DEF Gets
        <5> QED
          BY <1>1, <4>1, <4>4, <5>3
      <4> QED
        BY <4>1, <4>2, <4>3, <4>4
    <3>5. \A s \in Requests :
            Mine(s) /\ (req'[s].token # current \/ req'[s].sets # 0) => age[current] = "fresh"
      BY <1>1, <2>1, <2>5 DEF Kept
    <3> QED
      BY <1>1, <2>1, <2>2, <3>1, <3>3, <3>4, <3>5 DEF Kept
  <2>8. RefreshIsFirst'
    <3> SUFFICES ASSUME NEW s \in Requests, Mine(s), req'[s].token = current,
                        \/ req'[s].pc \in {"joining", "waiting"}
                        \/ req'[s].pc = "sent" /\ req'[s].kind = "refresh",
                        NEW t \in Requests, Mine(t)
                 PROVE  req'[t].token = current /\ req'[t].sets = 0
      BY <1>1, <2>2 DEF RefreshIsFirst
    <3>1. req[t].token = current /\ req[t].sets = 0
      <4>1. CASE \/ req[s].pc \in {"joining", "waiting"}
                 \/ req[s].pc = "sent" /\ req[s].kind = "refresh"
        BY <1>1, <2>1, <4>1 DEF RefreshIsFirst
      <4>2. CASE ~(\/ req[s].pc \in {"joining", "waiting"}
                   \/ req[s].pc = "sent" /\ req[s].kind = "refresh")
        <5>1. s = r /\ new.pc = "joining" /\ age[req[r].token] = "dead"
          BY <1>1, <4>2 DEF Joins
        <5>2. age[current] # "fresh"
          BY <1>1, <5>1
        <5> QED
          BY <2>1, <5>2 DEF Kept
      <4> QED
        BY <4>1, <4>2
    <3> QED
      BY <1>1, <2>5, <3>1
  <2>9. ChecksLag'
    <3> SUFFICES ASSUME NEW s \in Requests, Mine(s)
                 PROVE  /\ req'[s].kind = "me" /\ req'[s].token # current /\ req'[s].sets = 0 =>
                             age[req'[s].token] = "dead"
                        /\ /\ req'[s].kind # "refresh"
                           /\ req'[s].pc \in {"joining", "waiting"} \/ req'[s].sets # 0
                           => age[req'[s].token] = "dead"
      BY <1>1, <2>2 DEF ChecksLag
    <3>1. CASE s # r
      BY <1>1, <2>1, <3>1 DEF ChecksLag
    <3>2. CASE s = r
      <4>1. new.sets = 0 => req[r].sets = 0
        BY <2>4, <2>5, <3>2
      <4>2. /\ req[r].kind # "refresh" /\ (new.pc \in {"joining", "waiting"} \/ new.sets # 0)
            => age[req[r].token] = "dead"
        BY <2>1, <2>5, <3>2 DEF ChecksLag, Joins
      <4> QED
        BY <1>1, <2>1, <3>2, <4>1, <4>2 DEF ChecksLag
    <3> QED
      BY <3>1, <3>2
  <2> QED
    BY <2>7, <2>8, <2>9
<1> QED
  BY <1>3, <1>6, <1>9, <1>10, <1>11 DEF CalmInv


\* A request that goes on keeps the invariant in every environment.
LEMMA MoveKeeps ==
    ASSUME SessionInv, calm' => OneCheck', NEW r \in Requests, NEW new, Moves(r, new), Gets(r, new), Joins(r, new)
    PROVE  SessionInv'
<1>1. calm' = calm /\ faults' = faults
  BY DEF Moves
<1> QED
  BY <1>1, MoveBasics, MoveCalm DEF SessionInv

\* A sign-in succeeds: a pair is made, stored and sent with the answer.
Serves(r) ==
    /\ req[r].pc = "sent" /\ req[r].kind = "signin"
    /\ \E n \in Tokens : /\ Issue(n) /\ rotations' = [rotations EXCEPT ![n] = 0]
                         /\ Answer(r, "ok", n, FALSE)
    /\ UNCHANGED <<cookie, signedIn, flight, result, faults, calm>>

\* It does not.
Refuses(r) ==
    /\ req[r].pc = "sent" /\ req[r].kind = "signin" /\ Answer(r, "401", 0, FALSE)
    /\ UNCHANGED <<backend, age, cookie, signedIn, flight, result, faults, calm>>

\* The steps of the proxy that change no pair: each is a request that goes on.
LEMMA ProxyMoves ==
    ASSUME ShapeInv, NEW r \in Requests,
           \/ Forwarded(r) \/ RefreshRoute(r) \/ Unreachable(r) \/ Join(r)
           \/ Resume(r) \/ Replayed(r) \/ Refuses(r)
    PROVE  \E new : Moves(r, new) /\ Gets(r, new) /\ Joins(r, new)
<1> USE SessionTypes DEF ShapeInv
<1> DEFINE To(pc, out, sets, clears) ==
             [req[r] EXCEPT !.pc = pc, !.out = out, !.sets = sets, !.clears = clears]
           Out(out) == IF req[r].kind \in {"me", "signin"} THEN out ELSE req[r].out
<1>1. /\ req[r] \in RequestType /\ req[r].token \in 0..MaxTokens
      /\ InFlight(r) => req[r].by \in Browsers
      /\ req[r].sets # 0 => req[r].pc \in {"replay", "answered"}
      /\ req[r].clears => req[r].pc = "answered"
      /\ req[r].pc \in {"joining", "waiting"} => req[r].token \in Tokens
      /\ req[r].kind = "signin" => req[r].pc \in {"sent", "answered"}
      /\ 0 \in 0..MaxTokens
  BY DEF RequestShape, RequestType
<1>2. ASSUME NEW pc, NEW out, NEW sets, NEW clears, To(pc, out, sets, clears) \in RequestType
      PROVE  LET new == To(pc, out, sets, clears)
             IN  /\ new.kind = req[r].kind /\ new.by = req[r].by /\ new.token = req[r].token
                 /\ new.pc = pc /\ new.out = out /\ new.sets = sets /\ new.clears = clears
  BY <1>1 DEF RequestType
<1>3. ASSUME NEW out \in {"ok", "401", "5xx"}, NEW sets \in 0..MaxTokens, NEW clears \in BOOLEAN
      PROVE  /\ To("answered", Out(out), sets, clears) \in RequestType
             /\ Answer(r, out, sets, clears) =>
                  req' = [req EXCEPT ![r] = To("answered", Out(out), sets, clears)]
  <2>1. Out(out) \in {"none", "ok", "401", "5xx"}
    BY <1>1, <1>3 DEF RequestType
  <2>2. To("answered", Out(out), sets, clears) \in RequestType
    <3> HIDE DEF Out
    <3> QED
      BY <1>1, <1>3, <2>1 DEF RequestType
  <2>3. Answer(r, out, sets, clears) =>
          req' = [req EXCEPT ![r] = To("answered", Out(out), sets, clears)]
    BY DEF Answer
  <2> QED
    BY <2>2, <2>3
<1>4. CASE Forwarded(r)
  <2>1. CASE Accepted(req[r].token)
    <3> DEFINE new == To("answered", Out("ok"), 0, FALSE)
    <3>1. new \in RequestType /\ req' = [req EXCEPT ![r] = new] 
      BY <1>1, <1>3, <1>4, <2>1 DEF Forwarded, Answer
    <3>2. Moves(r, new) /\ Gets(r, new) /\ Joins(r, new)
      BY <1>1, <1>2, <1>4, <3>1 DEF Forwarded, Moves, Gets, Joins, InFlight
    <3> QED
      BY <3>2
  <2>2. CASE ~Accepted(req[r].token) /\ (req[r].token = 0 \/ req[r].kind = "stream")
    <3> DEFINE new == To("answered", Out("401"), 0, FALSE)
    <3>1. new \in RequestType /\ req' = [req EXCEPT ![r] = new] 
      BY <1>1, <1>3, <1>4, <2>2 DEF Forwarded, Answer
    <3>2. Moves(r, new) /\ Gets(r, new) /\ Joins(r, new)
      BY <1>1, <1>2, <1>4, <3>1 DEF Forwarded, Moves, Gets, Joins, InFlight
    <3> QED
      BY <3>2
  <2>3. CASE ~Accepted(req[r].token) /\ ~(req[r].token = 0 \/ req[r].kind = "stream")
    <3> DEFINE new == [req[r] EXCEPT !.pc = "joining"]
    <3>1. /\ req' = [req EXCEPT ![r] = new] /\ new \in RequestType
          /\ age[req[r].token] = "dead" /\ req[r].token # 0
      BY <1>1, <1>4, <2>3 DEF Forwarded, Go, Accepted, RequestType
    <3>2. /\ new.kind = req[r].kind /\ new.by = req[r].by /\ new.token = req[r].token
          /\ new.pc = "joining" /\ new.sets = req[r].sets /\ new.clears = req[r].clears
      BY <1>1 DEF RequestType
    <3>3. Moves(r, new) /\ Gets(r, new) /\ Joins(r, new)
      BY <1>1, <1>4, <3>1, <3>2 DEF Forwarded, Moves, Gets, Joins, InFlight
    <3> QED
      BY <3>3
  <2> QED
    BY <2>1, <2>2, <2>3
<1>5. CASE RefreshRoute(r)
  <2>1. CASE req[r].token = 0
    <3> DEFINE new == To("answered", Out("401"), 0, FALSE)
    <3>1. new \in RequestType /\ req' = [req EXCEPT ![r] = new] 
      BY <1>1, <1>3, <1>5, <2>1 DEF RefreshRoute, Answer
    <3>2. /\ new.kind = req[r].kind /\ new.by = req[r].by /\ new.token = req[r].token
          /\ new.pc = "answered" /\ new.sets = 0 /\ new.clears = FALSE
      BY <1>2, <3>1
    <3>3. Moves(r, new) /\ Gets(r, new) /\ Joins(r, new)
      BY <1>1, <1>5, <3>1, <3>2 DEF RefreshRoute, Moves, Gets, Joins, InFlight
    <3> QED
      BY <3>3
  <2>2. CASE req[r].token # 0
    <3> DEFINE new == [req[r] EXCEPT !.pc = "joining"]
    <3>1. req' = [req EXCEPT ![r] = new] /\ new \in RequestType
      BY <1>1, <1>5, <2>2 DEF RefreshRoute, Go, RequestType
    <3>2. /\ new.kind = req[r].kind /\ new.by = req[r].by /\ new.token = req[r].token
          /\ new.pc = "joining" /\ new.sets = req[r].sets /\ new.clears = req[r].clears
      BY <1>1 DEF RequestType
    <3>3. Moves(r, new) /\ Gets(r, new) /\ Joins(r, new)
      BY <1>1, <1>5, <2>2, <3>1, <3>2 DEF RefreshRoute, Moves, Gets, Joins, InFlight
    <3> QED
      BY <3>3
  <2> QED
    BY <2>1, <2>2
<1>6. CASE Unreachable(r)
  <2> DEFINE new == To("answered", Out("5xx"), req[r].sets, FALSE)
  <2>1. new \in RequestType /\ req' = [req EXCEPT ![r] = new] 
    <3>1. req[r].sets \in 0..MaxTokens
      BY <1>1 DEF RequestType
    <3> QED
      BY <1>1, <1>3, <1>6, <3>1 DEF Unreachable, Answer
  <2>2. Moves(r, new) /\ Gets(r, new) /\ Joins(r, new)
    BY <1>1, <1>2, <1>6, <2>1 DEF Unreachable, Moves, Gets, Joins, InFlight
  <2> QED
    BY <2>2
<1>7. CASE Join(r)
  <2> DEFINE new == [req[r] EXCEPT !.pc = "waiting"]
             k == req[r].token
  <2>1. req' = [req EXCEPT ![r] = new] /\ new \in RequestType
    BY <1>1, <1>7 DEF Join, Go, RequestType
  <2>2. /\ new.kind = req[r].kind /\ new.by = req[r].by /\ new.token = req[r].token
        /\ new.pc = "waiting" /\ new.sets = req[r].sets /\ new.clears = req[r].clears
    BY <1>1 DEF RequestType
  <2>3. /\ flight[k] = "none" => flight' = [flight EXCEPT ![k] = "sent"]
        /\ flight[k] # "none" => flight' = flight
    BY <1>1, <1>7 DEF Join
  <2>4. Moves(r, new) /\ Gets(r, new) /\ Joins(r, new)
    BY <1>1, <1>7, <2>1, <2>2, <2>3 DEF Join, Moves, Gets, Joins, InFlight
  <2> QED
    BY <2>4
<1>8. CASE Resume(r)
  <2> DEFINE k == req[r].token
  <2>1. k \in Tokens /\ result[k] \in 0..MaxTokens /\ req[r].kind # "signin"
    BY <1>1, <1>8 DEF Resume
  <2>2. CASE result[k] = 0
    <3> DEFINE new == To("answered", Out("401"), 0, TRUE)
    <3>1. new \in RequestType /\ req' = [req EXCEPT ![r] = new] 
      BY <1>1, <1>3, <1>8, <2>2 DEF Resume, Answer
    <3>2. Moves(r, new) /\ Gets(r, new) /\ Joins(r, new)
      BY <1>1, <1>2, <1>8, <2>1, <2>2, <3>1 DEF Resume, Moves, Gets, Joins, InFlight
    <3> QED
      BY <3>2
  <2>3. CASE result[k] # 0 /\ req[r].kind = "refresh"
    <3> DEFINE new == To("answered", Out("ok"), result[k], FALSE)
    <3>1. new \in RequestType /\ req' = [req EXCEPT ![r] = new] 
      BY <1>3, <1>8, <2>1, <2>3 DEF Resume, Answer
    <3>2. /\ new.kind = req[r].kind /\ new.by = req[r].by /\ new.token = req[r].token
          /\ new.pc = "answered" /\ new.sets = result[k] /\ new.clears = FALSE
      BY <1>2, <3>1
    <3>3. Moves(r, new) /\ Gets(r, new) /\ Joins(r, new)
      BY <1>1, <1>8, <2>1, <2>3, <3>1, <3>2 DEF Resume, Moves, Gets, Joins, InFlight
    <3> QED
      BY <3>3
  <2>4. CASE result[k] # 0 /\ req[r].kind # "refresh"
    <3> DEFINE new == [req[r] EXCEPT !.pc = "replay", !.sets = result[k]]
    <3>1. req' = [req EXCEPT ![r] = new] /\ new \in RequestType
      BY <1>1, <1>8, <2>1, <2>4 DEF Resume, RequestType
    <3>2. /\ new.kind = req[r].kind /\ new.by = req[r].by /\ new.token = req[r].token
          /\ new.pc = "replay" /\ new.sets = result[k] /\ new.clears = req[r].clears
      BY <1>1 DEF RequestType
    <3>3. Moves(r, new) /\ Gets(r, new) /\ Joins(r, new)
      BY <1>1, <1>8, <2>1, <2>4, <3>1, <3>2 DEF Resume, Moves, Gets, Joins, InFlight
    <3> QED
      BY <3>3
  <2> QED
    BY <2>2, <2>3, <2>4
<1>9. CASE Replayed(r)
  <2> DEFINE out == IF Accepted(req[r].sets) THEN "ok" ELSE "401"
             new == To("answered", Out(out), req[r].sets, FALSE)
  <2>1. new \in RequestType /\ req' = [req EXCEPT ![r] = new] 
    <3>1. req[r].sets \in 0..MaxTokens /\ out \in {"ok", "401", "5xx"}
      BY <1>1 DEF RequestType
    <3> QED
      BY <1>1, <1>3, <1>9, <3>1 DEF Replayed, Answer
  <2>2. Moves(r, new) /\ Gets(r, new) /\ Joins(r, new)
    BY <1>1, <1>2, <1>9, <2>1 DEF Replayed, Moves, Gets, Joins, InFlight
  <2> QED
    BY <2>2
<1>10. CASE Refuses(r)
  <2> DEFINE new == To("answered", Out("401"), 0, FALSE)
  <2>1. /\ req[r].pc = "sent" /\ req[r].kind = "signin"
        /\ Answer(r, "401", 0, FALSE)
        /\ UNCHANGED <<backend, age, cookie, signedIn, flight, result, faults, calm>>
    BY <1>10 DEF Refuses
  <2>2. new \in RequestType /\ req' = [req EXCEPT ![r] = new]
    BY <1>1, <1>3, <2>1 DEF Answer
  <2>3. /\ new.kind = req[r].kind /\ new.by = req[r].by /\ new.token = req[r].token
        /\ new.pc = "answered" /\ new.out = "401" /\ new.sets = 0 /\ new.clears = FALSE
    <3>1. Out("401") = "401"
      BY <2>1
    <3> HIDE DEF Out
    <3> QED
      BY <1>2, <2>2, <3>1
  <2>4. Moves(r, new) /\ Gets(r, new) /\ Joins(r, new)
    BY <1>1, <2>1, <2>2, <2>3 DEF Moves, Gets, Joins, InFlight
  <2> QED
    BY <2>4
<1> QED
  BY <1>4, <1>5, <1>6, <1>7, <1>8, <1>9, <1>10

\* A request begins, of any kind but the refresh a check goes on to.
Starts(r, b) ==
    \/ CheckSession(r, b) \/ SignIn(r, b)
    \/ \E kind \in {"call", "stream"} : Start(r, b, kind)

\* A request begins.
LEMMA StartShape ==
    ASSUME ShapeInv, NEW r \in Requests, NEW b \in Browsers, Starts(r, b)
    PROVE  ShapeInv'
<1> USE SessionTypes DEF ShapeInv
<1>1. PICK kind \in Kinds \ {"refresh"} : Start(r, b, kind)
  BY DEF Starts, CheckSession, SignIn, Kinds
<1> DEFINE new == [kind |-> kind, by |-> b, token |-> cookie[b], pc |-> "sent",
                   out |-> "none", sets |-> 0, clears |-> FALSE]
<1>2. new \in RequestType
  BY DEF RequestType
<1>3. /\ req' \in [Requests -> RequestType] /\ req'[r] = new
      /\ \A s \in Requests : s # r => req'[s] = req[s]
      /\ UNCHANGED <<current, issued, rotations, age, cookie, signedIn, flight, result,
                     faults, calm>>
  BY <1>1, <1>2 DEF Start, NoRequest, backend
<1>4. TypeOK'
  BY <1>3 DEF TypeOK, RequestType
<1>5. OnlyIssued'
  <2>1. cookie[b] <= issued /\ 0 <= issued
    BY DEF OnlyIssued
  <2> QED
    BY <1>2, <1>3, <2>1 DEF OnlyIssued
<1>6. RequestShape'
  BY <1>2, <1>3 DEF RequestShape, InFlight
<1> QED
  BY <1>4, <1>5, <1>6

\* A session is ended.
LEMMA SignOutShape ==
    ASSUME ShapeInv, NEW b \in Browsers, SignOut(b)
    PROVE  ShapeInv'
<1> USE SessionTypes DEF ShapeInv
<1>1. /\ cookie' \in [Browsers -> 0..MaxTokens]
      /\ \A c \in Browsers : cookie'[c] = IF c = b THEN 0 ELSE cookie[c]
      /\ signedIn' \in Browsers \union {"nobody"}
      /\ UNCHANGED <<current, issued, rotations, age, req, flight, result, faults, calm>>
  BY DEF SignOut, backend
<1>2. TypeOK'
  BY <1>1 DEF TypeOK
<1>3. OnlyIssued' /\ RequestShape'
  BY <1>1 DEF OnlyIssued, RequestShape, InFlight
<1> QED
  BY <1>2, <1>3

\* What an answer sets in the cookies, and what its caller does next.
LEMMA Delivered ==
    ASSUME ShapeInv, NEW r \in Requests, Deliver(r)
    PROVE  /\ req' \in [Requests -> RequestType]
           /\ \A s \in Requests : s # r => req'[s] = req[s]
           /\ cookie' \in [Browsers -> 0..MaxTokens]
           /\ \A b \in Browsers \ {req[r].by} : cookie'[b] = cookie[b]
           /\ req[r].by \in Browsers
           /\ cookie'[req[r].by] = IF req[r].clears THEN 0
                                   ELSE IF req[r].sets # 0 THEN req[r].sets
                                   ELSE cookie[req[r].by]
           /\ req'[r].sets = 0 /\ ~req'[r].clears
           /\ \/ req'[r].pc = "idle" /\ req'[r].kind = "call" /\ req'[r].token = 0
              \/ /\ req'[r].pc = "sent" /\ req'[r].kind = "refresh"
                 /\ req'[r].by = req[r].by /\ req'[r].token = cookie'[req[r].by]
                 /\ req[r].kind = "me"
                 /\ age[IF req[r].sets # 0 THEN req[r].sets ELSE req[r].token] = "expiring"
           /\ signedIn' = IF req[r].kind = "signin" /\ req[r].out = "ok"
                          THEN req[r].by ELSE signedIn
           /\ req[r].pc = "answered"
           /\ UNCHANGED <<current, issued, rotations, age, flight, result, faults, calm>>
<1> USE SessionTypes DEF ShapeInv
<1>1. req[r] \in RequestType /\ req[r].pc = "answered"
  BY DEF Deliver
<1>2. req[r].by \in Browsers
  BY <1>1 DEF RequestShape, InFlight
<1>3. /\ cookie' \in [Browsers -> 0..MaxTokens]
      /\ \A b \in Browsers \ {req[r].by} : cookie'[b] = cookie[b]
      /\ cookie'[req[r].by] = IF req[r].clears THEN 0
                              ELSE IF req[r].sets # 0 THEN req[r].sets
                              ELSE cookie[req[r].by]
  BY <1>1, <1>2 DEF Deliver, RequestType
<1>9. /\ NoRequest \in RequestType
      /\ NoRequest.kind = "call" /\ NoRequest.token = 0 /\ NoRequest.pc = "idle"
      /\ NoRequest.sets = 0 /\ ~NoRequest.clears
  BY DEF NoRequest, RequestType, Kinds
<1> DEFINE refresh == [NoRequest EXCEPT !.kind = "refresh", !.by = req[r].by,
                                        !.token = cookie'[req[r].by], !.pc = "sent"]
<1>4. /\ refresh \in RequestType
      /\ refresh.kind = "refresh" /\ refresh.by = req[r].by /\ refresh.pc = "sent"
      /\ refresh.token = cookie'[req[r].by] /\ refresh.sets = 0 /\ ~refresh.clears
  BY <1>2, <1>3, <1>9 DEF RequestType, Kinds
<1>5. PICK new : /\ req' = [req EXCEPT ![r] = new]
                 /\ \/ new = NoRequest
                    \/ /\ new = refresh /\ req[r].kind = "me"
                       /\ age[IF req[r].sets # 0 THEN req[r].sets ELSE req[r].token] = "expiring"
  <2> DEFINE onward == /\ req[r].kind = "me" /\ req[r].out = "ok"
                       /\ age[IF req[r].sets # 0 THEN req[r].sets ELSE req[r].token] = "expiring"
  <2>1. req' = [req EXCEPT ![r] = IF onward THEN refresh ELSE NoRequest]
    BY Zenon DEF Deliver
  <2> HIDE DEF refresh
  <2>3. CASE onward
    <3>1. req' = [req EXCEPT ![r] = refresh]
      BY <2>1, <2>3, Zenon
    <3> QED
      BY <2>3, <3>1, Zenon
  <2>4. CASE ~onward
    <3>1. req' = [req EXCEPT ![r] = NoRequest]
      BY <2>1, <2>4, Zenon
    <3> QED
      BY <3>1, Zenon
  <2> QED
    BY <2>3, <2>4, Zenon
<1> HIDE DEF refresh
<1>6. /\ req' \in [Requests -> RequestType] /\ req'[r] = new
      /\ \A s \in Requests : s # r => req'[s] = req[s]
  BY <1>4, <1>5, <1>9
<1>7. /\ req'[r].sets = 0 /\ ~req'[r].clears
      /\ \/ req'[r].pc = "idle" /\ req'[r].kind = "call" /\ req'[r].token = 0
         \/ /\ req'[r].pc = "sent" /\ req'[r].kind = "refresh"
            /\ req'[r].by = req[r].by /\ req'[r].token = cookie'[req[r].by]
            /\ req[r].kind = "me"
            /\ age[IF req[r].sets # 0 THEN req[r].sets ELSE req[r].token] = "expiring"
  BY <1>4, <1>5, <1>6, <1>9
<1>8. /\ signedIn' = IF req[r].kind = "signin" /\ req[r].out = "ok"
                     THEN req[r].by ELSE signedIn
      /\ UNCHANGED <<current, issued, rotations, age, flight, result, faults, calm>>
  BY DEF Deliver, backend
<1> QED
  BY <1>1, <1>2, <1>3, <1>6, <1>7, <1>8

\* An answer arrives.
LEMMA DeliverShape ==
    ASSUME ShapeInv, NEW r \in Requests, Deliver(r)
    PROVE  ShapeInv'
<1> USE SessionTypes DEF ShapeInv
<1>1. TypeOK'
  BY Delivered DEF TypeOK, RequestType
<1>2. \A b \in Browsers : cookie'[b] <= issued
  BY Delivered DEF OnlyIssued, RequestType
<1>3. \/ /\ req'[r].pc = "idle" /\ req'[r].token = 0 /\ req'[r].kind = "call"
      \/ /\ req'[r].pc = "sent" /\ req'[r].token <= issued /\ req'[r].by \in Browsers
         /\ req'[r].kind = "refresh"
  BY <1>2, Delivered
<1>4. req'[r].sets = 0 /\ ~req'[r].clears
  BY Delivered
<1>5. OnlyIssued'
  BY <1>2, <1>3, <1>4, Delivered DEF OnlyIssued
<1>6. RequestShape'
  BY <1>3, <1>4, Delivered DEF RequestShape, InFlight
<1> QED
  BY <1>1, <1>5, <1>6

\* A sign-in that succeeds.
LEMMA Served ==
    ASSUME ShapeInv, NEW r \in Requests, Serves(r)
    PROVE  /\ req' \in [Requests -> RequestType]
           /\ \A s \in Requests : s # r => req'[s] = req[s]
           /\ req[r].pc = "sent" /\ req[r].kind = "signin"
           /\ req'[r].kind = "signin" /\ req'[r].by = req[r].by /\ req'[r].token = req[r].token
           /\ req'[r].pc = "answered" /\ req'[r].out = "ok" /\ req'[r].sets = issued'
           /\ ~req'[r].clears
           /\ issued' \in Tokens /\ current' = issued'
           /\ (issued' = issued + 1 \/ (~calm /\ issued' = issued))
           /\ issued' \in 1..MaxTokens /\ issued <= issued'
           /\ rotations' \in [Tokens -> Nat]
           /\ age' \in [Tokens -> {"fresh", "expiring", "dead"}]
           /\ UNCHANGED <<cookie, signedIn, flight, result, faults, calm>>
<1> USE SessionTypes DEF ShapeInv
<1>1. /\ req[r] \in RequestType /\ req[r].pc = "sent" /\ req[r].kind = "signin"
      /\ UNCHANGED <<cookie, signedIn, flight, result, faults, calm>>
  BY DEF Serves
<1>2. PICK n \in Tokens : /\ Issue(n) /\ rotations' = [rotations EXCEPT ![n] = 0]
                          /\ Answer(r, "ok", n, FALSE)
  BY DEF Serves
<1>3. /\ n \in 0..MaxTokens /\ issued' = n /\ current' = n
      /\ (n = issued + 1 \/ (~calm /\ n = issued))
      /\ age' = [age EXCEPT ![n] = "fresh"] /\ rotations' \in [Tokens -> Nat]
  BY <1>2 DEF Issue, TypeOK, Tokens
<1> DEFINE new == [req[r] EXCEPT !.pc = "answered", !.out = "ok", !.sets = n, !.clears = FALSE]
<1>4. req' = [req EXCEPT ![r] = new]
  BY <1>1, <1>2 DEF Answer
<1>5. /\ new \in RequestType /\ new.kind = req[r].kind /\ new.by = req[r].by
      /\ new.token = req[r].token /\ new.pc = "answered" /\ new.out = "ok" /\ new.sets = n
      /\ new.clears = FALSE
  BY <1>1, <1>3 DEF RequestType
<1>6. n \in 1..MaxTokens /\ issued <= n
  BY <1>3 DEF Tokens
<1> QED
  BY <1>1, <1>3, <1>4, <1>5, <1>6

\* The pair it sends was issued.
LEMMA ServeShape ==
    ASSUME ShapeInv, NEW r \in Requests, Serves(r)
    PROVE  ShapeInv'
<1> USE SessionTypes, Served DEF ShapeInv
<1>1. issued' \in 1..MaxTokens /\ issued <= issued'
  OBVIOUS
<1>2. TypeOK'
  BY <1>1 DEF TypeOK, RequestType
<1>3. \A n \in 0..MaxTokens : n <= issued => n <= issued'
  BY <1>1
<1>4. /\ \A b \in Browsers : cookie'[b] <= issued'
      /\ \A k \in Tokens : /\ result'[k] <= issued'
                           /\ k > issued' => flight'[k] = "none" /\ result'[k] = 0
  BY <1>1 DEF OnlyIssued
<1>5. \A s \in Requests : req'[s].token <= issued' /\ req'[s].sets <= issued'
  BY <1>1, <1>3 DEF OnlyIssued, RequestType
<1>6. current' <= issued'
  BY <1>1
<1>7. OnlyIssued'
  BY <1>4, <1>5, <1>6 DEF OnlyIssued
<1>8. RequestShape'
  BY DEF RequestShape, InFlight
<1> QED
  BY <1>2, <1>7, <1>8

\* The stored hash is compared: the refresh is verified, or resolves to null.
LEMMA Verified ==
    ASSUME ShapeInv, NEW k \in Tokens, Verify(k)
    PROVE  /\ flight' \in [Tokens -> {"none", "sent", "verified", "settled"}]
           /\ result' \in [Tokens -> 0..MaxTokens]
           /\ \A l \in Tokens : l # k => flight'[l] = flight[l] /\ result'[l] = result[l]
           /\ flight[k] = "sent"
           /\ \/ flight'[k] = "verified" /\ result'[k] = result[k] /\ current = k
              \/ flight'[k] = "settled" /\ result'[k] = 0 /\ current # k
           /\ UNCHANGED <<current, issued, rotations, age, cookie, signedIn, req, faults, calm>>
<1> USE SessionTypes DEF ShapeInv
<1>1. 0 \in 0..MaxTokens
  OBVIOUS
<1> QED
  BY <1>1 DEF Verify, Settle, backend

\* A pair is exchanged for another, which is stored.
LEMMA Rotated ==
    ASSUME ShapeInv, NEW k \in Tokens, Rotate(k)
    PROVE  /\ flight' \in [Tokens -> {"none", "sent", "verified", "settled"}]
           /\ result' \in [Tokens -> 0..MaxTokens]
           /\ \A l \in Tokens : l # k => flight'[l] = flight[l] /\ result'[l] = result[l]
           /\ flight[k] = "verified" /\ flight'[k] = "settled"
           /\ \/ result'[k] = issued' /\ faults' = faults
              \/ result'[k] = 0 /\ faults' = faults + 1 /\ faults < MaxFaults
           /\ issued' \in Tokens /\ current' = issued'
           /\ (issued' = issued + 1 \/ (~calm /\ issued' = issued))
           /\ issued' \in 1..MaxTokens /\ issued <= issued'
           /\ rotations' \in [Tokens -> Nat]
           /\ age' \in [Tokens -> {"fresh", "expiring", "dead"}] /\ age'[issued'] = "fresh"
           /\ \A l \in Tokens : l # issued' => age'[l] = age[l]
           /\ UNCHANGED <<cookie, signedIn, req, calm>>
<1> USE SessionTypes DEF ShapeInv
<1>1. flight[k] = "verified" /\ UNCHANGED <<cookie, signedIn, req, calm>>
  BY DEF Rotate
<1>2. PICK n \in Tokens :
        /\ Issue(n) /\ rotations' = [rotations EXCEPT ![k] = @ + 1, ![n] = 0]
        /\ \/ Settle(k, n) /\ UNCHANGED faults
           \/ faults < MaxFaults /\ faults' = faults + 1 /\ Settle(k, 0)
  BY DEF Rotate
<1>3. PICK to \in 0..MaxTokens :
        /\ Settle(k, to)
        /\ \/ to = n /\ faults' = faults
           \/ to = 0 /\ faults' = faults + 1 /\ faults < MaxFaults
  <2>1. 0 \in 0..MaxTokens /\ n \in 0..MaxTokens
    OBVIOUS
  <2> QED
    BY <1>2, <2>1
<1>4. /\ issued' = n /\ current' = n
      /\ (n = issued + 1 \/ (~calm /\ n = issued))
      /\ age' = [age EXCEPT ![n] = "fresh"]
  BY <1>2 DEF Issue
<1>5. rotations' \in [Tokens -> Nat]
  BY <1>2 DEF TypeOK
<1>6. /\ age' \in [Tokens -> {"fresh", "expiring", "dead"}] /\ age'[n] = "fresh"
      /\ \A l \in Tokens : l # n => age'[l] = age[l]
  BY <1>4
<1>7. /\ flight' = [flight EXCEPT ![k] = "settled"] /\ result' = [result EXCEPT ![k] = to]
  BY <1>3 DEF Settle
<1>8. /\ flight' \in [Tokens -> {"none", "sent", "verified", "settled"}]
      /\ result' \in [Tokens -> 0..MaxTokens]
      /\ \A l \in Tokens : l # k => flight'[l] = flight[l] /\ result'[l] = result[l]
      /\ flight'[k] = "settled" /\ result'[k] = to
  BY <1>7
<1>9. n \in 1..MaxTokens /\ issued <= n
  BY <1>4 DEF Tokens
<1> QED
  BY <1>1, <1>3, <1>4, <1>5, <1>6, <1>8, <1>9

\* A refresh fails.
LEMMA Failed ==
    ASSUME ShapeInv, NEW k \in Tokens, RefreshFails(k)
    PROVE  /\ flight' = [flight EXCEPT ![k] = "settled"] /\ result' = [result EXCEPT ![k] = 0]
           /\ flight[k] \in {"sent", "verified"}
           /\ faults' \in 0..MaxFaults /\ (MaxFaults # 0 => faults' # 0)
           /\ UNCHANGED <<current, issued, rotations, age, cookie, signedIn, req, calm>>
<1>1. faults \in 0..MaxFaults /\ MaxFaults \in Nat
  BY SessionAssumption DEF ShapeInv, TypeOK
<1> QED
  BY <1>1 DEF RefreshFails, Settle, backend

\* The steps of a refresh.
LEMMA RefreshShapeKept ==
    ASSUME ShapeInv, NEW k \in Tokens, Refresh(k)
    PROVE  ShapeInv'
<1> USE SessionTypes DEF ShapeInv
<1>1. CASE Verify(k)
  <2> USE Verified
  <2>1. TypeOK'
    BY <1>1 DEF TypeOK
  <2>2. \A l \in Tokens : l > issued => flight'[l] = "none" /\ result'[l] = 0
    BY <1>1 DEF OnlyIssued
  <2>3. \A l \in Tokens : result'[l] <= issued
    BY <1>1 DEF OnlyIssued
  <2>4. OnlyIssued' /\ RequestShape'
    BY <1>1, <2>2, <2>3 DEF OnlyIssued, RequestShape, InFlight
  <2> QED
    BY <2>1, <2>4
<1>2. CASE Rotate(k)
  <2> USE Rotated
  <2>1. /\ issued' \in 1..MaxTokens /\ current' \in 0..MaxTokens /\ faults' \in 0..MaxFaults
        /\ issued <= issued'
    <3>1. faults \in 0..MaxFaults /\ MaxFaults \in Nat
      BY SessionAssumption DEF TypeOK
    <3> QED
      BY <1>2, <3>1
  <2>2. TypeOK'
    BY <1>2, <2>1 DEF TypeOK
  <2>3. \A n \in 0..MaxTokens : n <= issued => n <= issued'
    BY <2>1
  <2>4. \A l \in Tokens : l > issued' => flight'[l] = "none" /\ result'[l] = 0
    <3>1. k <= issued
      BY <1>2 DEF OnlyIssued
    <3> QED
      BY <1>2, <2>1, <3>1 DEF OnlyIssued
  <2>5. \A l \in Tokens : result'[l] <= issued'
    BY <1>2, <2>1, <2>3 DEF OnlyIssued
  <2>6. /\ \A b \in Browsers : cookie'[b] <= issued'
        /\ \A s \in Requests : req'[s].token <= issued' /\ req'[s].sets <= issued'
    BY <1>2, <2>3 DEF OnlyIssued, RequestType
  <2>7. current' <= issued'
    BY <1>2, <2>1
  <2>8. OnlyIssued' /\ RequestShape'
    BY <1>2, <2>4, <2>5, <2>6, <2>7 DEF OnlyIssued, RequestShape, InFlight
  <2> QED
    BY <2>2, <2>8
<1>3. CASE RefreshFails(k)
  <2> USE Failed
  <2>1. TypeOK'
    BY <1>3 DEF TypeOK
  <2>2. \A l \in Tokens : l > issued => flight'[l] = "none" /\ result'[l] = 0
    BY <1>3 DEF OnlyIssued
  <2>3. \A l \in Tokens : result'[l] <= issued
    BY <1>3 DEF OnlyIssued
  <2>4. OnlyIssued' /\ RequestShape'
    BY <1>3, <2>2, <2>3 DEF OnlyIssued, RequestShape, InFlight
  <2> QED
    BY <2>1, <2>4
<1> QED
  BY <1>1, <1>2, <1>3 DEF Refresh

\* A promise is dropped, or a pair ages.
LEMMA TimeShape ==
    ASSUME ShapeInv, NEW k \in Tokens, DropPromise(k) \/ Age(k)
    PROVE  ShapeInv'
<1> USE SessionTypes DEF ShapeInv
<1>1. CASE DropPromise(k)
  <2>1. /\ flight' = [flight EXCEPT ![k] = "none"] /\ result' = [result EXCEPT ![k] = 0]
        /\ UNCHANGED <<current, issued, rotations, age, cookie, signedIn, req, faults, calm>>
    BY <1>1 DEF DropPromise, backend
  <2>2. TypeOK'
    BY <2>1 DEF TypeOK
  <2>3. \A l \in Tokens : /\ l > issued => flight'[l] = "none" /\ result'[l] = 0
                          /\ result'[l] <= issued
    BY <2>1 DEF OnlyIssued
  <2>4. OnlyIssued' /\ RequestShape'
    BY <2>1, <2>3 DEF OnlyIssued, RequestShape, InFlight
  <2> QED
    BY <2>2, <2>4
<1>2. CASE Age(k)
  <2>1. /\ age' \in [Tokens -> {"fresh", "expiring", "dead"}]
        /\ UNCHANGED <<current, issued, rotations, cookie, signedIn, req, flight, result,
                       faults, calm>>
    BY <1>2 DEF Age, backend
  <2>2. TypeOK'
    BY <2>1 DEF TypeOK
  <2>3. OnlyIssued' /\ RequestShape'
    BY <2>1 DEF OnlyIssued, RequestShape, InFlight
  <2> QED
    BY <2>2, <2>3
<1> QED
  BY <1>1, <1>2

\* At the start.
LEMMA ShapeInit == Init => ShapeInv
<1> SUFFICES ASSUME Init PROVE ShapeInv
  OBVIOUS
<1>1. NoRequest \in RequestType
  BY SessionAssumption DEF NoRequest, RequestType, Kinds
<1>2. TypeOK
  <2>1. /\ 0 \in 0..MaxTokens /\ 0 \in 0..MaxFaults /\ calm \in BOOLEAN
    BY SessionAssumption DEF Init
  <2> QED
    BY <1>1, <2>1 DEF Init, TypeOK, RequestType
<1>3. \A r \in Requests : /\ req[r].token = 0 /\ req[r].sets = 0 /\ req[r].clears = FALSE
                          /\ req[r].pc = "idle" /\ req[r].kind = "call"
  BY DEF Init, NoRequest
<1>4. OnlyIssued
  BY <1>3 DEF Init, OnlyIssued
<1>5. RequestShape
  BY <1>3 DEF RequestShape, InFlight
<1> QED
  BY <1>2, <1>4, <1>5 DEF ShapeInv

\* The steps, by what they do to the invariant.
LEMMA SessionSteps ==
    ASSUME [Next]_vars
    PROVE  \/ \E b \in Browsers : SignOut(b)
           \/ \E r \in Requests, b \in Browsers : Starts(r, b)
           \/ \E r \in Requests : Deliver(r) \/ Serves(r)
           \/ \E r \in Requests :
                \/ Forwarded(r) \/ RefreshRoute(r) \/ Unreachable(r) \/ Join(r)
                \/ Resume(r) \/ Replayed(r) \/ Refuses(r)
           \/ \E k \in Tokens : Refresh(k) \/ DropPromise(k) \/ Age(k)
           \/ UNCHANGED vars
<1>1. ASSUME NEW r \in Requests, Handle(r)
      PROVE  \/ Deliver(r) \/ Serves(r)
             \/ \/ Forwarded(r) \/ RefreshRoute(r) \/ Unreachable(r) \/ Join(r)
                \/ Resume(r) \/ Replayed(r) \/ Refuses(r)
  <2>1. \/ Deliver(r) \/ SigninServed(r)
        \/ Forwarded(r) \/ RefreshRoute(r) \/ Unreachable(r) \/ Join(r)
        \/ Resume(r) \/ Replayed(r)
    BY <1>1 DEF Handle
  <2>2. SigninServed(r) => Serves(r) \/ Refuses(r)
    BY DEF SigninServed, Serves, Refuses
  <2> QED
    BY <2>1, <2>2
<1>2. ASSUME NEW b \in Browsers, NEW r \in Requests,
             \/ CheckSession(r, b) \/ SignIn(r, b)
             \/ \E kind \in {"call", "stream"} : Start(r, b, kind)
      PROVE  Starts(r, b)
  BY <1>2 DEF Starts
<1>3. CASE Next
  <2>1. CASE \E b \in Browsers :
               \/ SignOut(b)
               \/ \E r \in Requests :
                    \/ CheckSession(r, b) \/ SignIn(r, b)
                    \/ \E kind \in {"call", "stream"} : Start(r, b, kind)
    BY <1>2, <2>1
  <2>2. CASE \E r \in Requests : Handle(r)
    <3>1. PICK r \in Requests : Handle(r)
      BY <2>2
    <3>2. CASE Deliver(r) \/ Serves(r)
      BY <3>2
    <3>3. CASE \/ Forwarded(r) \/ RefreshRoute(r) \/ Unreachable(r) \/ Join(r)
               \/ Resume(r) \/ Replayed(r) \/ Refuses(r)
      BY <3>3
    <3>4. \/ Deliver(r) \/ Serves(r)
          \/ \/ Forwarded(r) \/ RefreshRoute(r) \/ Unreachable(r) \/ Join(r)
             \/ Resume(r) \/ Replayed(r) \/ Refuses(r)
      BY <1>1, <3>1
    <3> QED
      BY <3>2, <3>3, <3>4, Zenon
  <2>3. CASE \E k \in Tokens : Refresh(k) \/ DropPromise(k) \/ Age(k)
    BY <2>3
  <2> QED
    BY <1>3, <2>1, <2>2, <2>3, Zenon DEF Next
<1> QED
  BY <1>3

\* Cookies, requests and refreshes name only pairs that were issued, always.
LEMMA ShapeStep ==
    ASSUME ShapeInv, [Next]_vars
    PROVE  ShapeInv'
<1>1. ASSUME NEW b \in Browsers, SignOut(b) PROVE ShapeInv'
  BY <1>1, SignOutShape
<1>2. ASSUME NEW r \in Requests, NEW b \in Browsers, Starts(r, b) PROVE ShapeInv'
  BY <1>2, StartShape
<1>3. ASSUME NEW r \in Requests, Deliver(r) \/ Serves(r) PROVE ShapeInv'
  BY <1>3, DeliverShape, ServeShape
<1>4. ASSUME NEW r \in Requests,
             \/ Forwarded(r) \/ RefreshRoute(r) \/ Unreachable(r) \/ Join(r)
             \/ Resume(r) \/ Replayed(r) \/ Refuses(r)
      PROVE  ShapeInv'
  <2>1. PICK new : Moves(r, new) /\ Gets(r, new) /\ Joins(r, new)
    BY <1>4, ProxyMoves
  <2> QED
    BY <2>1, MoveBasics
<1>5. ASSUME NEW k \in Tokens, Refresh(k) \/ DropPromise(k) \/ Age(k) PROVE ShapeInv'
  BY <1>5, RefreshShapeKept, TimeShape
<1>6. CASE UNCHANGED vars
  BY <1>6 DEF ShapeInv, TypeOK, OnlyIssued, RequestShape, InFlight, vars, backend
<1> QED
  BY <1>1, <1>2, <1>3, <1>4, <1>5, <1>6, SessionSteps

\* Cookies, requests and refreshes name only pairs that can have been issued
\* (TypeOK, and with OnlyIssued: that were issued), in every environment.
THEOREM SessionTypesHold == Spec => []TypeOK
<1>1. ShapeInv => TypeOK
  BY DEF ShapeInv
<1> QED
  BY <1>1, ShapeInit, ShapeStep, PTL DEF Spec

\* What a request that begins looks like.
LEMMA Started ==
    ASSUME ShapeInv, calm, NEW r \in Requests, NEW b \in Browsers, Starts(r, b)
    PROVE  /\ req' \in [Requests -> RequestType]
           /\ \A s \in Requests : s # r => req'[s] = req[s]
           /\ req[r].pc = "idle" /\ \A s \in Requests : ~SigningIn(s)
           /\ req'[r].by = b /\ req'[r].token = cookie[b] /\ req'[r].pc = "sent"
           /\ req'[r].out = "none" /\ req'[r].sets = 0 /\ ~req'[r].clears
           /\ req'[r].kind # "refresh"
           /\ req'[r].kind = "signin" => \A s \in Requests : req[s].pc = "idle"
           /\ req'[r].kind = "me" => \A s \in Requests :
                InFlight(s) /\ req[s].by = b => req[s].kind \notin {"me", "refresh"}
           /\ UNCHANGED <<current, issued, rotations, age, cookie, signedIn, flight, result,
                          faults, calm>>
<1> USE SessionTypes DEF ShapeInv
<1>1. PICK kind \in Kinds \ {"refresh"} :
        /\ Start(r, b, kind)
        /\ kind = "signin" => \A s \in Requests : req[s].pc = "idle"
        /\ kind = "me" => \A s \in Requests :
             InFlight(s) /\ req[s].by = b => req[s].kind \notin {"me", "refresh"}
  BY DEF Starts, CheckSession, SignIn, Kinds, InFlight
<1> DEFINE new == [kind |-> kind, by |-> b, token |-> cookie[b], pc |-> "sent",
                   out |-> "none", sets |-> 0, clears |-> FALSE]
<1>2. new \in RequestType
  BY DEF RequestType
<1>3. /\ req' \in [Requests -> RequestType] /\ req'[r] = new
      /\ \A s \in Requests : s # r => req'[s] = req[s]
  BY <1>1, <1>2 DEF Start, NoRequest, backend
<1>4. /\ req[r].pc = "idle" /\ \A s \in Requests : ~SigningIn(s)
      /\ UNCHANGED <<current, issued, rotations, age, cookie, signedIn, flight, result,
                     faults, calm>>
  BY <1>1 DEF Start, InFlight, backend
<1> QED
  BY <1>1, <1>2, <1>3, <1>4

\* A new request carries the cookie of its browser.
LEMMA StartCalm ==
    ASSUME ShapeInv, CalmInv, calm, OneCheck', NEW r \in Requests, NEW b \in Browsers,
           Starts(r, b)
    PROVE  CalmInv'
<1>1. /\ req' \in [Requests -> RequestType]
      /\ \A s \in Requests : s # r => req'[s] = req[s]
      /\ req[r].pc = "idle" /\ \A s \in Requests : ~SigningIn(s)
      /\ req'[r].by = b /\ req'[r].token = cookie[b] /\ req'[r].pc = "sent"
      /\ req'[r].out = "none" /\ req'[r].sets = 0 /\ ~req'[r].clears
      /\ req'[r].kind # "refresh"
      /\ req'[r].kind = "signin" => \A s \in Requests : req[s].pc = "idle"
      /\ UNCHANGED <<current, issued, rotations, age, cookie, signedIn, flight, result,
                     faults, calm>>
  BY Started
<1> USE SessionTypes DEF ShapeInv
<1>2. SigninShape /\ RefreshShape /\ (Reigns => Kept /\ RefreshIsFirst /\ ChecksLag)
  BY DEF CalmInv
<1>3. \A s \in Requests : SigningIn(s)' => s = r /\ req'[r].kind = "signin"
  BY <1>1 DEF SigningIn, InFlight
<1>4. SigninShape'
  BY <1>1, <1>3 DEF SigninShape, InFlight
<1>5. RefreshShape'
  <2>1. ASSUME NEW k \in Tokens, flight'[k] \in {"sent", "verified"}
        PROVE  \E s \in Requests : req'[s].pc = "waiting" /\ req'[s].token = k
    <3>1. PICK s \in Requests : req[s].pc = "waiting" /\ req[s].token = k
      BY <1>1, <1>2, <2>1 DEF RefreshShape
    <3> QED
      BY <1>1, <3>1
  <2> QED
    BY <1>1, <1>2, <2>1 DEF RefreshShape
<1>6. Reigns' <=> Reigns
  BY <1>1, <1>3 DEF Reigns, ServedSignin, SigningIn
<1>7. PICK own \in [Tokens -> Browsers \union {"nobody"}] : Owned(own)
  BY DEF CalmInv
<1>8. Owned(own)'
  <2>1. ASSUME NEW c \in Browsers, NEW k \in Tokens, Holds(c, k)'  PROVE own[k] = c
    <3>1. Holds(c, k)
      BY <1>1, <2>1 DEF Holds, InFlight
    <3> QED
      BY <1>7, <3>1 DEF Owned
  <2> QED
    BY <1>1, <1>6, <1>7, <2>1 DEF Owned
<1>9. ASSUME Reigns'  PROVE Kept' /\ RefreshIsFirst' /\ ChecksLag'
  <2>1. Kept /\ RefreshIsFirst /\ ChecksLag /\ signedIn' = signedIn
    BY <1>1, <1>2, <1>6, <1>9
  <2>2. \A s \in Requests : Mine(s)' <=> (IF s = r THEN b = signedIn ELSE Mine(s))
    BY <1>1 DEF Mine, InFlight
  <2>3. \A k : Leads(k)' <=> Leads(k)
    BY <1>1 DEF Leads
  <2>4. ~Mine(r)
    BY <1>1 DEF Mine, InFlight
  <2>5. signedIn \in Browsers
    BY <1>6, <1>9 DEF Reigns
  <2>6. cookie[signedIn] # current =>
          \E s \in Requests : /\ s # r /\ Mine(s) /\ req[s].token = cookie[signedIn]
                              /\ req[s].pc = "waiting" \/ req[s].sets = current
    BY <2>1, <2>4 DEF Kept
  <2>7. Kept'
    <3>1. Leads(cookie[signedIn])'
      BY <1>1, <2>1, <2>3, <2>5 DEF Kept
    <3>2. \A s \in Requests : Mine(s)' =>
            Leads(req'[s].token) /\ req'[s].sets \in {0, current} /\ ~req'[s].clears
      BY <1>1, <2>1, <2>2 DEF Kept
    <3>3. (\A s \in Requests : Mine(s) =>
             Leads(req[s].token) /\ req[s].sets \in {0, current} /\ ~req[s].clears)'
      <4> SUFFICES ASSUME NEW s \in Requests, Mine(s)'
                   PROVE  (Leads(req[s].token) /\ req[s].sets \in {0, current} /\ ~req[s].clears)'
        OBVIOUS
      <4>1. PICK k \in 0..MaxTokens : k = req'[s].token
        BY <1>1 DEF RequestType
      <4>2. Leads(k)'
        BY <2>3, <3>2, <4>1
      <4>3. (Leads(req[s].token))'
        BY <4>1, <4>2 DEF Leads
      <4> QED
        BY <1>1, <3>2, <4>3
    <3>4. cookie[signedIn] # current =>
            \E s \in Requests : /\ Mine(s)' /\ req'[s].token = cookie[signedIn]
                                /\ req'[s].pc = "waiting" \/ req'[s].sets = current
      BY <1>1, <2>2, <2>6
    <3>5. \A s \in Requests :
            Mine(s)' /\ (req'[s].token # current \/ req'[s].sets # 0) => age[current] = "fresh"
      <4>1. cookie[signedIn] # current => age[current] = "fresh"
        BY <2>1, <2>6 DEF Kept
      <4> QED
        BY <1>1, <2>1, <2>2, <4>1 DEF Kept
    <3>6. current # 0
      BY <2>1 DEF Kept
    <3> QED
      BY <1>1, <2>1, <3>1, <3>3, <3>4, <3>5, <3>6 DEF Kept
  <2>8. RefreshIsFirst'
    <3> SUFFICES ASSUME NEW s \in Requests, Mine(s)', req'[s].token = current,
                        \/ req'[s].pc \in {"joining", "waiting"}
                        \/ req'[s].pc = "sent" /\ req'[s].kind = "refresh",
                        NEW t \in Requests, Mine(t)'
                 PROVE  req'[t].token = current /\ req'[t].sets = 0
      BY <1>1 DEF RefreshIsFirst
    <3>1. s # r /\ Mine(s)
      BY <1>1, <2>2
    <3>2. \A u \in Requests : Mine(u) => req[u].token = current /\ req[u].sets = 0
      BY <1>1, <2>1, <3>1 DEF RefreshIsFirst
    <3>3. cookie[signedIn] = current
      BY <2>6, <3>2
    <3> QED
      BY <1>1, <2>2, <3>2, <3>3
  <2>9. ChecksLag'
    <3> SUFFICES ASSUME NEW s \in Requests, Mine(s)'
                 PROVE  /\ req'[s].kind = "me" /\ req'[s].token # current /\ req'[s].sets = 0 =>
                             age[req'[s].token] = "dead"
                        /\ /\ req'[s].kind # "refresh"
                           /\ req'[s].pc \in {"joining", "waiting"} \/ req'[s].sets # 0
                           => age[req'[s].token] = "dead"
      BY <1>1 DEF ChecksLag
    <3>1. CASE s # r
      BY <1>1, <2>1, <2>2, <3>1 DEF ChecksLag
    <3>2. CASE s = r
      <4>1. ASSUME req'[r].kind = "me", cookie[signedIn] # current
            PROVE  age[cookie[signedIn]] = "dead"
        <5>1. PICK w \in Requests : /\ w # r /\ Mine(w) /\ req[w].token = cookie[signedIn]
                                    /\ req[w].pc = "waiting" \/ req[w].sets = current
          BY <2>6, <4>1
        <5>2. req[w].kind \notin {"me", "refresh"}
          BY <1>1, <2>2, <3>2, <4>1, <5>1 DEF OneCheck, Mine, InFlight
        <5>3. current # 0
          BY <2>1 DEF Kept
        <5> QED
          BY <2>1, <5>1, <5>2, <5>3 DEF ChecksLag
      <4> QED
        BY <1>1, <2>2, <3>2, <4>1
    <3> QED
      BY <3>1, <3>2
  <2> QED
    BY <2>7, <2>8, <2>9
<1> QED
  BY <1>4, <1>5, <1>7, <1>8, <1>9 DEF CalmInv

\* A session that is ended is of no concern to the others.
LEMMA SignOutCalm ==
    ASSUME ShapeInv, CalmInv, NEW b \in Browsers, SignOut(b)
    PROVE  CalmInv'
<1> USE SessionTypes DEF ShapeInv
<1>1. /\ \A c \in Browsers : cookie'[c] = IF c = b THEN 0 ELSE cookie[c]
      /\ signedIn' = IF signedIn = b THEN "nobody" ELSE signedIn
      /\ UNCHANGED <<current, issued, rotations, age, req, flight, result, faults, calm>>
  BY DEF SignOut, backend
<1>2. SigninShape' /\ RefreshShape'
  BY <1>1 DEF CalmInv, SigninShape, RefreshShape, SigningIn, InFlight
<1>3. Reigns' => Reigns /\ signedIn' = signedIn /\ signedIn # b /\ signedIn \in Browsers
  BY <1>1 DEF Reigns, ServedSignin, SigningIn, InFlight
<1>4. PICK own \in [Tokens -> Browsers \union {"nobody"}] : Owned(own)
  BY DEF CalmInv
<1>5. Owned(own)'
  <2>1. ASSUME NEW c \in Browsers, NEW k \in Tokens, Holds(c, k)'  PROVE own[k] = c
    <3>1. Holds(c, k)
      BY <1>1, <2>1 DEF Holds, InFlight
    <3> QED
      BY <1>4, <3>1 DEF Owned
  <2> QED
    BY <1>1, <1>3, <1>4, <2>1 DEF Owned
<1>6. ASSUME Reigns'  PROVE Kept' /\ RefreshIsFirst' /\ ChecksLag'
  <2>1. Kept /\ RefreshIsFirst /\ ChecksLag /\ cookie'[signedIn] = cookie[signedIn]
    BY <1>1, <1>3, <1>6 DEF CalmInv
  <2> QED
    BY <1>1, <1>3, <1>6, <2>1 DEF Kept, RefreshIsFirst, ChecksLag, Mine, InFlight, Leads
<1> QED
  BY <1>2, <1>4, <1>5, <1>6 DEF CalmInv

\* The new pair of a sign-in is the browser's that signs in; until its answer
\* arrives nobody is signed in.
LEMMA ServeCalm ==
    ASSUME ShapeInv, CalmInv, calm, NEW r \in Requests, Serves(r)
    PROVE  CalmInv'
<1> USE SessionTypes DEF ShapeInv
<1>1. /\ req' \in [Requests -> RequestType]
      /\ \A s \in Requests : s # r => req'[s] = req[s]
      /\ req[r].pc = "sent" /\ req[r].kind = "signin"
      /\ req'[r].kind = "signin" /\ req'[r].by = req[r].by /\ req'[r].token = req[r].token
      /\ req'[r].pc = "answered" /\ req'[r].out = "ok" /\ req'[r].sets = issued'
      /\ ~req'[r].clears
      /\ issued' = issued + 1 /\ current' = issued' /\ issued' \in Tokens
      /\ UNCHANGED <<cookie, signedIn, flight, result, faults, calm>>
  BY Served
<1>2. PICK n \in Tokens : n = issued'
  BY <1>1 DEF Tokens
<1>3. \A s \in Requests : s # r => req[s].pc = "idle" /\ req'[s].pc = "idle"
  BY <1>1 DEF CalmInv, SigninShape, SigningIn, InFlight
<1>4. req[r].sets = 0 /\ req[r].by \in Browsers
  BY <1>1 DEF RequestShape, InFlight
<1>5. \A x \in 0..MaxTokens : x <= issued => x # n
  BY <1>1, <1>2
<1>6. SigninShape'
  <2>1. n # 0
    BY <1>2
  <2> QED
    BY <1>1, <1>2, <1>3, <2>1 DEF SigninShape, SigningIn, InFlight
<1>7. RefreshShape'
  <2>1. \A k \in Tokens : flight[k] \notin {"sent", "verified"}
    BY <1>1, <1>3 DEF CalmInv, RefreshShape
  <2>2. flight[n] = "none"
    BY <1>1, <1>2 DEF OnlyIssued
  <2> QED
    BY <1>1, <1>2, <2>1, <2>2 DEF RefreshShape
<1>8. ~Reigns'
  BY <1>1 DEF Reigns, ServedSignin, SigningIn, InFlight
<1>9. PICK own \in [Tokens -> Browsers \union {"nobody"}] : Owned(own)
  BY DEF CalmInv
<1>12. PICK by \in Browsers : by = req[r].by
  BY <1>4
<1> DEFINE new == [own EXCEPT ![n] = by]
<1>10. /\ new \in [Tokens -> Browsers \union {"nobody"}] /\ new[n] = by
       /\ \A k \in Tokens : k # n => new[k] = own[k]
  OBVIOUS
<1> HIDE DEF new
<1>11. Owned(new)'
  <2>1. ASSUME NEW b \in Browsers, NEW k \in Tokens, Holds(b, k)'  PROVE new[k] = b
    <3>1. CASE k = n
      <4>1. cookie[b] # n /\ req[r].token # n
        BY <1>1, <1>5 DEF OnlyIssued, RequestType
      <4>2. by = b
        BY <1>1, <1>3, <1>12, <2>1, <3>1, <4>1 DEF Holds, InFlight
      <4> QED
        BY <1>10, <3>1, <4>2
    <3>2. CASE k # n
      <4>1. Holds(b, k)
        BY <1>1, <1>2, <1>3, <2>1, <3>2 DEF Holds, InFlight
      <4> QED
        BY <1>9, <1>10, <3>2, <4>1 DEF Owned
    <3> QED
      BY <3>1, <3>2
  <2>2. ASSUME NEW k \in Tokens, result[k] # 0  PROVE new[result[k]] = new[k]
    <3>1. result[k] \in Tokens /\ result[k] <= issued /\ k <= issued
      BY <2>2 DEF OnlyIssued
    <3>2. result[k] # n /\ k # n
      BY <1>1, <1>2, <3>1
    <3> QED
      BY <1>9, <1>10, <2>2, <3>1, <3>2 DEF Owned
  <2> QED
    BY <1>1, <1>8, <2>1, <2>2 DEF Owned
<1> QED
  BY <1>6, <1>7, <1>8, <1>10, <1>11 DEF CalmInv

\* The refresh of a pair that is not stored resolves to null, and nobody who is
\* signed in waits for it.
LEMMA VerifyCalm ==
    ASSUME ShapeInv, CalmInv, NEW k \in Tokens, Verify(k)
    PROVE  CalmInv'
<1> USE SessionTypes DEF ShapeInv
<1>1. /\ \A l \in Tokens : l # k => flight'[l] = flight[l] /\ result'[l] = result[l]
      /\ flight[k] = "sent"
      /\ \/ flight'[k] = "verified" /\ result'[k] = result[k] /\ current = k
         \/ flight'[k] = "settled" /\ result'[k] = 0 /\ current # k
      /\ UNCHANGED <<current, issued, rotations, age, cookie, signedIn, req, faults, calm>>
  BY Verified
<1>2. SigninShape' /\ RefreshShape'
  BY <1>1 DEF CalmInv, SigninShape, RefreshShape, SigningIn, InFlight
<1>3. Reigns' <=> Reigns
  BY <1>1 DEF Reigns, ServedSignin, SigningIn, InFlight
<1>4. PICK own \in [Tokens -> Browsers \union {"nobody"}] : Owned(own)
  BY DEF CalmInv
<1>5. Owned(own)'
  <2>1. \A b, l : Holds(b, l)' <=> Holds(b, l)
    BY <1>1 DEF Holds, InFlight
  <2>2. \A l \in Tokens : result'[l] # 0 => result'[l] = result[l]
    BY <1>1
  <2> QED
    BY <1>1, <1>3, <1>4, <2>1, <2>2 DEF Owned
<1>6. ASSUME Reigns'  PROVE Kept' /\ RefreshIsFirst' /\ ChecksLag'
  <2>1. Kept /\ RefreshIsFirst /\ ChecksLag /\ signedIn \in Browsers
    BY <1>3, <1>6 DEF CalmInv, Reigns
  <2>2. \A l \in 0..MaxTokens : Leads(l) => Leads(l)'
    BY <1>1 DEF Leads
  <2>3. Kept'
    <3>1. cookie[signedIn] \in 0..MaxTokens
      BY <2>1
    <3>2. \A s \in Requests : req[s].token \in 0..MaxTokens
      BY DEF RequestType
    <3>3. (Leads(cookie[signedIn]))'
      <4>1. PICK l \in 0..MaxTokens : l = cookie[signedIn]
        BY <3>1
      <4> QED
        BY <1>1, <2>1, <2>2, <4>1 DEF Kept
    <3>4. \A s \in Requests : Mine(s) => (Leads(req[s].token))'
      <4> SUFFICES ASSUME NEW s \in Requests, Mine(s) PROVE (Leads(req[s].token))'
        OBVIOUS
      <4>1. PICK l \in 0..MaxTokens : l = req[s].token
        BY <3>2
      <4> QED
        BY <1>1, <2>1, <2>2, <4>1 DEF Kept
    <3> QED
      BY <1>1, <2>1, <3>3, <3>4 DEF Kept, Mine, InFlight
  <2>4. RefreshIsFirst' /\ ChecksLag'
    BY <1>1, <2>1 DEF RefreshIsFirst, ChecksLag, Mine, InFlight
  <2> QED
    BY <2>3, <2>4
<1> QED
  BY <1>2, <1>4, <1>5, <1>6 DEF CalmInv

\* A pair that is exchanged is the stored one, and every request of its browser
\* was made with it: whatever answer comes, the new pair or nothing is set.
LEMMA RotateCalm ==
    ASSUME ShapeInv, CalmInv, calm, OneCheck, NEW k \in Tokens, Rotate(k),
           faults = 0, faults' = 0
    PROVE  CalmInv'
<1> USE SessionTypes DEF ShapeInv
<1>1. /\ \A l \in Tokens : l # k => flight'[l] = flight[l] /\ result'[l] = result[l]
      /\ flight[k] = "verified" /\ flight'[k] = "settled"
      /\ result'[k] = issued'
      /\ issued' = issued + 1 /\ current' = issued' /\ issued' \in Tokens
      /\ age'[issued'] = "fresh" /\ \A l \in Tokens : l # issued' => age'[l] = age[l]
      /\ UNCHANGED <<cookie, signedIn, req, calm>>
  <2>1. faults' # faults + 1
    OBVIOUS
  <2> QED
    BY <2>1, Rotated
<1>2. PICK n \in Tokens : n = issued' /\ n # 0
  BY <1>1 DEF Tokens
<1>3. current = k /\ k # n /\ flight'[n] = "none"
  BY <1>1, <1>2 DEF CalmInv, RefreshShape, OnlyIssued
<1>4. \A x \in 0..MaxTokens : x <= issued => x # n
  BY <1>1, <1>2
<1>5. PICK w \in Requests : req[w].pc = "waiting" /\ req[w].token = k
  BY <1>1 DEF CalmInv, RefreshShape
<1>6. \A s \in Requests : ~SigningIn(s)
  BY <1>5 DEF CalmInv, SigninShape, SigningIn, InFlight
<1>7. SigninShape'
  BY <1>1, <1>6 DEF SigninShape, SigningIn, InFlight
<1>8. RefreshShape'
  <2>1. \A l \in Tokens : l # k => flight[l] # "verified"
    BY <1>3 DEF CalmInv, RefreshShape
  <2>2. \A l \in Tokens : flight'[l] # "verified" /\ (flight'[l] = "sent" => flight[l] = "sent")
    BY <1>1, <2>1
  <2> QED
    BY <1>1, <1>2, <1>3, <2>2 DEF CalmInv, RefreshShape
<1>9. Reigns' <=> Reigns
  BY <1>1 DEF Reigns, ServedSignin, SigningIn, InFlight
<1>10. PICK own \in [Tokens -> Browsers \union {"nobody"}] : Owned(own)
  BY DEF CalmInv
<1> DEFINE new == [own EXCEPT ![n] = own[k]]
<1>11. /\ new \in [Tokens -> Browsers \union {"nobody"}] /\ new[n] = own[k]
       /\ \A l \in Tokens : l # n => new[l] = own[l]
  OBVIOUS
<1> HIDE DEF new
<1>12. Owned(new)'
  <2>1. ASSUME NEW b \in Browsers, NEW l \in Tokens, Holds(b, l)'  PROVE new[l] = b
    <3>1. Holds(b, l)
      BY <1>1, <2>1 DEF Holds, InFlight
    <3>2. l # n
      BY <1>4, <3>1 DEF Holds, OnlyIssued, RequestType
    <3> QED
      BY <1>10, <1>11, <3>1, <3>2 DEF Owned
  <2>2. ASSUME NEW l \in Tokens, result'[l] # 0  PROVE new[result'[l]] = new[l]
    <3>1. CASE l = k
      BY <1>1, <1>2, <1>3, <1>11, <3>1
    <3>2. CASE l # k
      <4>1. /\ result'[l] = result[l] /\ result[l] \in Tokens /\ result[l] <= issued
            /\ l <= issued
        BY <1>1, <2>2, <3>2 DEF OnlyIssued
      <4>2. result[l] # n /\ l # n
        BY <1>4, <4>1
      <4> QED
        BY <1>10, <1>11, <2>2, <4>1, <4>2 DEF Owned
    <3> QED
      BY <3>1, <3>2
  <2>3. Reigns' => new[n] = signedIn
    BY <1>3, <1>9, <1>10, <1>11 DEF Owned
  <2> QED
    BY <1>1, <1>2, <2>1, <2>2, <2>3 DEF Owned
<1>13. ASSUME Reigns'  PROVE Kept' /\ RefreshIsFirst' /\ ChecksLag'
  <2>1. Kept /\ RefreshIsFirst /\ ChecksLag /\ signedIn \in Browsers
    BY <1>9, <1>13 DEF CalmInv, Reigns
  <2>2. Mine(w)
    <3>1. req[w].by \in Browsers /\ Holds(req[w].by, k)
      BY <1>5 DEF RequestShape, Holds, InFlight
    <3>2. own[k] = req[w].by /\ own[k] = signedIn
      BY <1>3, <1>9, <1>10, <1>13, <3>1 DEF Owned
    <3> QED
      BY <1>5, <3>2 DEF Mine, InFlight
  <2>3. \A s \in Requests : Mine(s) => req[s].token = k /\ req[s].sets = 0 /\ ~req[s].clears
    BY <1>3, <1>5, <2>1, <2>2 DEF RefreshIsFirst, Kept
  <2>4. cookie[signedIn] = k
    BY <1>3, <2>1, <2>3 DEF Kept
  <2>5. Leads(k)'
    BY <1>1 DEF Leads
  <2>6. Kept'
    <3>1. (Leads(cookie[signedIn]))'
      BY <1>1, <2>4, <2>5
    <3>2. \A s \in Requests : Mine(s) => (Leads(req[s].token))'
      BY <1>1, <2>3, <2>5
    <3> QED
      BY <1>1, <1>2, <1>5, <2>2, <2>3, <2>4, <3>1, <3>2 DEF Kept, Mine, InFlight
  <2>7. RefreshIsFirst'
    BY <1>1, <1>2, <1>3, <2>3 DEF RefreshIsFirst, Mine, InFlight
  <2>8. ASSUME NEW s \in Requests, Mine(s), req[s].kind = "me"  PROVE age[k] = "dead"
    <3>1. req[w].kind = "refresh" => s = w
      BY <1>5, <2>2, <2>8 DEF OneCheck, Mine, InFlight
    <3>2. req[w].kind # "refresh"
      BY <2>8, <3>1
    <3> QED
      BY <1>5, <2>1, <2>2, <3>2 DEF ChecksLag
  <2>9. ChecksLag'
    BY <1>1, <1>2, <1>3, <2>1, <2>3, <2>8 DEF ChecksLag, Mine, InFlight
  <2> QED
    BY <2>6, <2>7, <2>9
<1> QED
  BY <1>7, <1>8, <1>11, <1>12, <1>13 DEF CalmInv

\* Nobody holds a pair whose promise is dropped.
LEMMA DropCalm ==
    ASSUME ShapeInv, CalmInv, calm, NEW k \in Tokens, DropPromise(k)
    PROVE  CalmInv'
<1> USE SessionTypes DEF ShapeInv
<1>1. /\ \A l \in Tokens : l # k => flight'[l] = flight[l] /\ result'[l] = result[l]
      /\ flight[k] = "settled" /\ flight'[k] = "none" /\ result'[k] = 0
      /\ \A s \in Requests : req[s].token = k => ~InFlight(s)
      /\ UNCHANGED <<current, issued, rotations, age, cookie, signedIn, req, faults, calm>>
  BY DEF DropPromise, backend
<1>2. SigninShape' /\ RefreshShape'
  BY <1>1 DEF CalmInv, SigninShape, RefreshShape, SigningIn, InFlight
<1>3. Reigns' <=> Reigns
  BY <1>1 DEF Reigns, ServedSignin, SigningIn, InFlight
<1>4. PICK own \in [Tokens -> Browsers \union {"nobody"}] : Owned(own)
  BY DEF CalmInv
<1>5. Owned(own)'
  <2>1. \A b, l : Holds(b, l)' <=> Holds(b, l)
    BY <1>1 DEF Holds, InFlight
  <2>2. \A l \in Tokens : result'[l] # 0 => result'[l] = result[l]
    BY <1>1
  <2> QED
    BY <1>1, <1>3, <1>4, <2>1, <2>2 DEF Owned
<1>6. ASSUME Reigns'  PROVE Kept' /\ RefreshIsFirst' /\ ChecksLag'
  <2>1. Kept /\ RefreshIsFirst /\ ChecksLag /\ signedIn \in Browsers
    BY <1>3, <1>6 DEF CalmInv, Reigns
  <2>2. \A l \in 0..MaxTokens : Leads(l) /\ l # k => Leads(l)'
    BY <1>1 DEF Leads
  <2>3. \A s \in Requests : Mine(s) => req[s].token # k
    BY <1>1 DEF Mine
  <2>4. cookie[signedIn] # k
    <3>1. current # k
      BY <1>1, <2>1 DEF CalmInv, RefreshShape, Kept
    <3> QED
      BY <2>1, <2>3, <3>1 DEF Kept
  <2>5. Kept'
    <3>1. cookie[signedIn] \in 0..MaxTokens
      BY <2>1
    <3>2. \A s \in Requests : req[s].token \in 0..MaxTokens
      BY DEF RequestType
    <3>3. (Leads(cookie[signedIn]))'
      <4>1. PICK l \in 0..MaxTokens : l = cookie[signedIn]
        BY <3>1
      <4> QED
        BY <1>1, <2>1, <2>2, <2>4, <4>1 DEF Kept
    <3>4. \A s \in Requests : Mine(s) => (Leads(req[s].token))'
      <4> SUFFICES ASSUME NEW s \in Requests, Mine(s) PROVE (Leads(req[s].token))'
        OBVIOUS
      <4>1. PICK l \in 0..MaxTokens : l = req[s].token
        BY <3>2
      <4> QED
        BY <1>1, <2>1, <2>2, <2>3, <4>1 DEF Kept
    <3> QED
      BY <1>1, <2>1, <3>3, <3>4 DEF Kept, Mine, InFlight
  <2>6. RefreshIsFirst' /\ ChecksLag'
    BY <1>1, <2>1 DEF RefreshIsFirst, ChecksLag, Mine, InFlight
  <2> QED
    BY <2>5, <2>6
<1> QED
  BY <1>2, <1>4, <1>5, <1>6 DEF CalmInv

\* Pairs age while nothing is under way.
LEMMA AgeCalm ==
    ASSUME ShapeInv, CalmInv, calm, NEW k \in Tokens, Age(k)
    PROVE  CalmInv'
<1> USE SessionTypes DEF ShapeInv
<1>1. /\ \A s \in Requests : ~InFlight(s)
      /\ UNCHANGED <<current, issued, rotations, cookie, signedIn, req, flight, result,
                     faults, calm>>
  BY DEF Age, backend
<1>2. SigninShape' /\ RefreshShape'
  BY <1>1 DEF CalmInv, SigninShape, RefreshShape, SigningIn, InFlight
<1>3. Reigns' <=> Reigns
  BY <1>1 DEF Reigns, ServedSignin, SigningIn, InFlight
<1>4. PICK own \in [Tokens -> Browsers \union {"nobody"}] : Owned(own)
  BY DEF CalmInv
<1>5. Owned(own)'
  <2>1. \A b, l : Holds(b, l)' <=> Holds(b, l)
    BY <1>1 DEF Holds, InFlight
  <2> QED
    BY <1>1, <1>3, <1>4, <2>1 DEF Owned
<1>6. ASSUME Reigns'  PROVE Kept' /\ RefreshIsFirst' /\ ChecksLag'
  <2>1. Kept
    BY <1>3, <1>6 DEF CalmInv
  <2> QED
    BY <1>1, <2>1 DEF Kept, RefreshIsFirst, ChecksLag, Mine, InFlight, Leads
<1> QED
  BY <1>2, <1>4, <1>5, <1>6 DEF CalmInv

\* An answer arrives: a sign-in makes its browser the one that is signed in; any
\* other answer leaves the cookie as it was or sets the stored pair.
LEMMA DeliverCalm ==
    ASSUME ShapeInv, CalmInv, NEW r \in Requests, Deliver(r)
    PROVE  CalmInv'
<1> USE SessionTypes DEF ShapeInv
<1>1. /\ req' \in [Requests -> RequestType]
      /\ \A s \in Requests : s # r => req'[s] = req[s]
      /\ cookie' \in [Browsers -> 0..MaxTokens]
      /\ \A b \in Browsers \ {req[r].by} : cookie'[b] = cookie[b]
      /\ req[r].by \in Browsers
      /\ cookie'[req[r].by] = IF req[r].clears THEN 0
                              ELSE IF req[r].sets # 0 THEN req[r].sets
                              ELSE cookie[req[r].by]
      /\ req'[r].sets = 0 /\ ~req'[r].clears
      /\ \/ req'[r].pc = "idle" /\ req'[r].kind = "call" /\ req'[r].token = 0
         \/ /\ req'[r].pc = "sent" /\ req'[r].kind = "refresh"
            /\ req'[r].by = req[r].by /\ req'[r].token = cookie'[req[r].by]
            /\ req[r].kind = "me"
            /\ age[IF req[r].sets # 0 THEN req[r].sets ELSE req[r].token] = "expiring"
      /\ signedIn' = IF req[r].kind = "signin" /\ req[r].out = "ok"
                     THEN req[r].by ELSE signedIn
      /\ req[r].pc = "answered"
      /\ UNCHANGED <<current, issued, rotations, age, flight, result, faults, calm>>
  BY Delivered
<1>2. SigninShape /\ RefreshShape /\ (Reigns => Kept /\ RefreshIsFirst /\ ChecksLag)
  BY DEF CalmInv
<1>3. PICK by \in Browsers : by = req[r].by
  BY <1>1
<1>4. ~SigningIn(r)'
  BY <1>1 DEF SigningIn, InFlight
<1>5. SigninShape'
  BY <1>1, <1>2, <1>4 DEF SigninShape, SigningIn, InFlight
<1>6. RefreshShape'
  <2>1. ASSUME NEW k \in Tokens, flight'[k] \in {"sent", "verified"}
        PROVE  \E s \in Requests : req'[s].pc = "waiting" /\ req'[s].token = k
    <3>1. PICK s \in Requests : req[s].pc = "waiting" /\ req[s].token = k
      BY <1>1, <1>2, <2>1 DEF RefreshShape
    <3> QED
      BY <1>1, <3>1
  <2> QED
    BY <1>1, <1>2, <2>1 DEF RefreshShape
<1>7. PICK own \in [Tokens -> Browsers \union {"nobody"}] : Owned(own)
  BY DEF CalmInv
<1>8. ASSUME NEW b \in Browsers, NEW k \in Tokens, Holds(b, k)'  PROVE own[k] = b
  <2>1. k # 0
    OBVIOUS
  <2>2. Holds(b, k)
    <3>1. CASE cookie'[b] = k
      BY <1>1, <2>1, <3>1 DEF Holds, InFlight
    <3>2. CASE cookie'[b] # k
      <4>1. PICK s \in Requests : /\ req'[s].pc # "idle" /\ req'[s].by = b
                                  /\ k \in {req'[s].token, req'[s].sets}
        BY <1>8, <3>2 DEF Holds, InFlight
      <4>2. s # r
        BY <1>1, <2>1, <3>2, <4>1
      <4> QED
        BY <1>1, <4>1, <4>2 DEF Holds, InFlight
    <3> QED
      BY <3>1, <3>2
  <2> QED
    BY <1>7, <2>2 DEF Owned
<1>9. CASE req[r].kind = "signin"
  <2>1. /\ \A s \in Requests : s # r => req[s].pc = "idle"
        /\ req'[r].pc = "idle" /\ ~req[r].clears
        /\ \/ req[r].out # "ok" /\ req[r].sets = 0
           \/ req[r].out = "ok" /\ req[r].sets = current /\ current # 0
    BY <1>1, <1>2, <1>9 DEF SigninShape, SigningIn, InFlight
  <2>2. \A s \in Requests : req'[s].pc = "idle"
    BY <1>1, <2>1
  <2>3. CASE req[r].out = "ok"
    <3>1. cookie'[by] = current /\ signedIn' = by /\ current # 0
      BY <1>1, <1>3, <1>9, <2>1, <2>3
    <3>2. own[current] = by
      <4>1. Holds(by, current)
        BY <1>1, <1>3, <2>1, <2>3 DEF Holds, InFlight
      <4>2. current \in Tokens
        BY <3>1
      <4> QED
        BY <1>7, <4>1, <4>2 DEF Owned
    <3>3. Owned(own)'
      BY <1>1, <1>7, <1>8, <3>1, <3>2 DEF Owned
    <3>4. Kept' /\ RefreshIsFirst' /\ ChecksLag'
      BY <1>1, <2>2, <3>1 DEF Kept, RefreshIsFirst, ChecksLag, Mine, InFlight, Leads
    <3> QED
      BY <1>5, <1>6, <1>7, <3>3, <3>4 DEF CalmInv
  <2>4. CASE req[r].out # "ok"
    <3>1. signedIn' = signedIn /\ cookie' [by] = cookie[by]
      BY <1>1, <1>3, <2>1, <2>4
    <3>2. \A b \in Browsers : cookie'[b] = cookie[b]
      BY <1>1, <1>3, <3>1
    <3>3. Reigns' => Reigns /\ signedIn \in Browsers
      BY <2>1, <2>4, <3>1 DEF Reigns, ServedSignin, SigningIn, InFlight
    <3>4. Owned(own)'
      BY <1>1, <1>7, <1>8, <3>1, <3>3 DEF Owned
    <3>5. ASSUME Reigns'  PROVE Kept' /\ RefreshIsFirst' /\ ChecksLag'
      <4>1. Kept /\ signedIn \in Browsers
        BY <1>2, <3>3, <3>5
      <4>2. cookie[signedIn] = current
        BY <1>1, <2>1, <2>4, <4>1 DEF Kept, Mine, InFlight
      <4>3. cookie'[signedIn] = current /\ current # 0
        BY <3>2, <4>1, <4>2 DEF Kept
      <4> QED
        BY <1>1, <2>2, <3>1, <4>3 DEF Kept, RefreshIsFirst, ChecksLag, Mine, InFlight, Leads
    <3> QED
      BY <1>5, <1>6, <1>7, <3>4, <3>5 DEF CalmInv
  <2> QED
    BY <2>3, <2>4
<1>10. CASE req[r].kind # "signin"
  <2>1. signedIn' = signedIn
    BY <1>1, <1>10
  <2>2. (Reigns' <=> Reigns) /\ \A s \in Requests : ~SigningIn(s)
    <3>1. \A s \in Requests : ~SigningIn(s) /\ ~SigningIn(s)'
      BY <1>1, <1>2, <1>4, <1>10 DEF SigninShape, SigningIn, InFlight
    <3>2. ~ServedSignin /\ ~ServedSignin'
      BY <3>1 DEF ServedSignin
    <3> QED
      BY <2>1, <3>1, <3>2 DEF Reigns
  <2>3. Owned(own)'
    BY <1>1, <1>7, <1>8, <2>1, <2>2 DEF Owned
  <2>4. ASSUME Reigns'  PROVE Kept' /\ RefreshIsFirst' /\ ChecksLag'
    <3>1. Kept /\ RefreshIsFirst /\ ChecksLag /\ signedIn \in Browsers
      BY <1>2, <2>2, <2>4 DEF Reigns
    <3>2. \A k : Leads(k)' <=> Leads(k)
      BY <1>1 DEF Leads
    <3>3. current # 0
      BY <3>1 DEF Kept
    <3>4. CASE by # signedIn
      <4>1. cookie'[signedIn] = cookie[signedIn]
        BY <1>1, <1>3, <3>1, <3>4
      <4>2. ~Mine(r) /\ ~Mine(r)'
        BY <1>1, <1>3, <2>1, <3>4 DEF Mine, InFlight
      <4>3. \A s \in Requests : Mine(s)' <=> Mine(s)
        BY <1>1, <2>1, <4>2 DEF Mine, InFlight
      <4>4. \A s \in Requests : Mine(s) => req'[s] = req[s]
        BY <1>1, <4>2
      <4>5. Kept'
        <5>1. (Leads(cookie[signedIn]))'
          <6>1. PICK l : l = cookie[signedIn]
            OBVIOUS
          <6> QED
            BY <2>1, <3>1, <3>2, <4>1, <6>1 DEF Kept
        <5>2. \A s \in Requests : Mine(s) => (Leads(req[s].token))'
          <6> SUFFICES ASSUME NEW s \in Requests, Mine(s) PROVE (Leads(req[s].token))'
            OBVIOUS
          <6>1. PICK l : l = req[s].token
            OBVIOUS
          <6> QED
            BY <3>1, <3>2, <4>4, <6>1 DEF Kept
        <5> QED
          BY <1>1, <2>1, <3>1, <4>1, <4>3, <4>4, <5>1, <5>2 DEF Kept
      <4>6. RefreshIsFirst' /\ ChecksLag'
        BY <1>1, <3>1, <4>3, <4>4 DEF RefreshIsFirst, ChecksLag
      <4> QED
        BY <4>5, <4>6
    <3>5. CASE by = signedIn
      <4>1. Mine(r)
        BY <1>1, <1>3, <3>5 DEF Mine, InFlight
      <4>2. /\ Leads(req[r].token) /\ req[r].sets \in {0, current} /\ ~req[r].clears
            /\ req[r].sets # 0 => age[current] = "fresh"
        BY <3>1, <4>1 DEF Kept
      <4>3. cookie'[signedIn] = IF req[r].sets # 0 THEN current ELSE cookie[signedIn]
        BY <1>1, <1>3, <3>5, <4>2
      <4>4. Leads(cookie'[signedIn])
        BY <3>1, <4>3 DEF Kept, Leads
      <4>5. cookie'[signedIn] # current =>
              \E s \in Requests : /\ s # r /\ Mine(s) /\ req[s].token = cookie'[signedIn]
                                  /\ req[s].pc = "waiting" \/ req[s].sets = current
        BY <1>1, <3>1, <3>3, <4>3 DEF Kept
      <4>6. \A s \in Requests : s # r => (Mine(s)' <=> Mine(s)) /\ req'[s] = req[s]
        BY <1>1, <2>1 DEF Mine, InFlight
      \* A check goes on to refresh only the stored pair, and then alone.
      <4>7. ASSUME req'[r].pc # "idle"
            PROVE  /\ req'[r].token = current /\ cookie'[signedIn] = current
                   /\ \A s \in Requests : Mine(s) => req[s].token = current /\ req[s].sets = 0
        <5>1. /\ req[r].kind = "me" /\ req'[r].token = cookie'[signedIn]
              /\ age[IF req[r].sets # 0 THEN req[r].sets ELSE req[r].token] = "expiring"
          BY <1>1, <1>3, <3>5, <4>7
        <5>2. req[r].sets = 0 /\ age[req[r].token] = "expiring"
          BY <4>2, <5>1
        <5>3. req[r].token = current
          BY <3>1, <4>1, <5>1, <5>2 DEF ChecksLag
        <5>4. age[current] # "fresh"
          BY <5>2, <5>3
        <5>5. \A s \in Requests : Mine(s) => req[s].token = current /\ req[s].sets = 0
          BY <3>1, <5>4 DEF Kept
        <5>6. cookie'[signedIn] = current
          BY <4>5, <5>5
        <5> QED
          BY <5>1, <5>5, <5>6
      <4>8. Mine(r)' => req'[r].pc # "idle"
        BY DEF Mine, InFlight
      <4>9. Kept'
        <5>1. (Leads(cookie[signedIn]))'
          <6>1. PICK l : l = cookie'[signedIn]
            OBVIOUS
          <6> QED
            BY <2>1, <3>2, <4>4, <6>1
        <5>2. \A s \in Requests : Mine(s)' =>
                (Leads(req[s].token))' /\ req'[s].sets \in {0, current} /\ ~req'[s].clears
          <6> SUFFICES ASSUME NEW s \in Requests, Mine(s)'
                       PROVE  (Leads(req[s].token))' /\ req'[s].sets \in {0, current} /\ ~req'[s].clears
            OBVIOUS
          <6>1. Leads(req'[s].token) /\ req'[s].sets \in {0, current} /\ ~req'[s].clears
            <7>1. CASE s # r
              BY <3>1, <4>6, <7>1 DEF Kept
            <7>2. CASE s = r
              BY <1>1, <4>7, <4>8, <7>2 DEF Leads
            <7> QED
              BY <7>1, <7>2
          <6>2. PICK l : l = req'[s].token
            OBVIOUS
          <6>3. (Leads(req[s].token))'
            BY <3>2, <6>1, <6>2
          <6> QED
            BY <6>1, <6>3
        <5>3. cookie'[signedIn] # current =>
                \E s \in Requests : /\ Mine(s)' /\ req'[s].token = cookie'[signedIn]
                                    /\ req'[s].pc = "waiting" \/ req'[s].sets = current
          BY <4>5, <4>6
        <5>4. \A s \in Requests :
                Mine(s)' /\ (req'[s].token # current \/ req'[s].sets # 0) => age[current] = "fresh"
          BY <1>1, <3>1, <4>6, <4>7, <4>8 DEF Kept
        <5> QED
          BY <1>1, <2>1, <3>3, <5>1, <5>2, <5>3, <5>4 DEF Kept
      <4>10. RefreshIsFirst'
        <5> SUFFICES ASSUME NEW s \in Requests, Mine(s)', req'[s].token = current,
                            \/ req'[s].pc \in {"joining", "waiting"}
                            \/ req'[s].pc = "sent" /\ req'[s].kind = "refresh",
                            NEW t \in Requests, Mine(t)'
                     PROVE  req'[t].token = current /\ req'[t].sets = 0
          BY <1>1 DEF RefreshIsFirst
        <5>1. \A u \in Requests : Mine(u) => req[u].token = current /\ req[u].sets = 0
          <6>1. CASE s = r
            BY <4>7, <4>8, <6>1
          <6>2. CASE s # r
            BY <3>1, <4>6, <6>2 DEF RefreshIsFirst
          <6> QED
            BY <6>1, <6>2
        <5> QED
          BY <1>1, <4>6, <4>7, <4>8, <5>1
      <4>11. ChecksLag'
        <5> SUFFICES ASSUME NEW s \in Requests, Mine(s)'
                     PROVE  /\ req'[s].kind = "me" /\ req'[s].token # current /\ req'[s].sets = 0 =>
                                 age[req'[s].token] = "dead"
                            /\ /\ req'[s].kind # "refresh"
                               /\ req'[s].pc \in {"joining", "waiting"} \/ req'[s].sets # 0
                               => age[req'[s].token] = "dead"
          BY <1>1 DEF ChecksLag
        <5>1. CASE s # r
          BY <3>1, <4>6, <5>1 DEF ChecksLag
        <5>2. CASE s = r
          BY <1>1, <4>8, <5>2
        <5> QED
          BY <5>1, <5>2
      <4> QED
        BY <4>9, <4>10, <4>11
    <3> QED
      BY <3>4, <3>5
  <2> QED
    BY <1>5, <1>6, <1>7, <2>3, <2>4 DEF CalmInv
<1> QED
  BY <1>9, <1>10

\* At the start nobody is signed in and nothing was issued.
LEMMA SessionInit == Init => SessionInv
<1> SUFFICES ASSUME Init PROVE OneCheck /\ CalmInv
  BY ShapeInit DEF SessionInv
<1>1. /\ current = 0 /\ signedIn = "nobody" /\ cookie = [b \in Browsers |-> 0]
      /\ flight = [k \in Tokens |-> "none"] /\ result = [k \in Tokens |-> 0]
      /\ \A r \in Requests : req[r].pc = "idle"
  BY DEF Init, NoRequest
<1>2. SigninShape /\ RefreshShape /\ ~Reigns
  BY <1>1 DEF SigninShape, RefreshShape, Reigns, SigningIn, InFlight
<1>3. \A k \in Tokens : k # 0
  BY SessionAssumption DEF Tokens
<1>4. PICK own \in [Tokens -> Browsers \union {"nobody"}] : own = [k \in Tokens |-> "nobody"]
  OBVIOUS
<1>5. Owned(own)
  BY <1>1, <1>2, <1>3 DEF Owned, Holds, InFlight
<1>6. OneCheck
  BY <1>1 DEF OneCheck, InFlight
<1> QED
  BY <1>2, <1>4, <1>5, <1>6 DEF CalmInv

\* In a calm environment a browser has one session check at a time.
LEMMA OneCheckStep ==
    ASSUME ShapeInv, calm => OneCheck, [Next]_vars
    PROVE  calm' => OneCheck'
<1> SUFFICES ASSUME calm' PROVE OneCheck'
  OBVIOUS
<1> USE SessionTypes DEF ShapeInv
<1>0. calm /\ OneCheck
  BY DEF Next, Handle, Refresh, SignOut, CheckSession, SignIn, Start, Deliver, Forwarded,
     RefreshRoute, SigninServed, Unreachable, Join, Resume, Replayed, Verify, Rotate,
     RefreshFails, DropPromise, Age, vars
<1>1. ASSUME NEW r \in Requests, \A s \in Requests : s # r => req'[s] = req[s],
             InFlight(r)' /\ req'[r].kind \in {"me", "refresh"} =>
               InFlight(r) /\ req'[r].by = req[r].by /\ req[r].kind \in {"me", "refresh"}
      PROVE  OneCheck'
  BY <1>0, <1>1 DEF OneCheck, InFlight
<1>2. ASSUME NEW r \in Requests, NEW b \in Browsers, Starts(r, b)  PROVE OneCheck'
  BY <1>0, <1>2, Started DEF OneCheck, InFlight
<1>3. ASSUME NEW r \in Requests, Deliver(r) \/ Serves(r)  PROVE OneCheck'
  BY <1>1, <1>3, Delivered, Served DEF InFlight
<1>4. ASSUME NEW r \in Requests,
             \/ Forwarded(r) \/ RefreshRoute(r) \/ Unreachable(r) \/ Join(r)
             \/ Resume(r) \/ Replayed(r) \/ Refuses(r)
      PROVE  OneCheck'
  <2>1. PICK new : Moves(r, new)
    BY <1>4, ProxyMoves
  <2> QED
    BY <1>1, <2>1 DEF Moves
<1>5. CASE UNCHANGED req
  BY <1>0, <1>5 DEF OneCheck, InFlight
<1>6. (\E b \in Browsers : SignOut(b)) => UNCHANGED req
  BY DEF SignOut
<1>7. (\E k \in Tokens : Refresh(k) \/ DropPromise(k) \/ Age(k)) => UNCHANGED req
  BY DEF Refresh, Verify, Rotate, RefreshFails, DropPromise, Age
<1> QED
  BY <1>2, <1>3, <1>4, <1>5, <1>6, <1>7, SessionSteps DEF vars

\* The invariant is inductive.
LEMMA SessionStep ==
    ASSUME SessionInv, MaxFaults # 0, [Next]_vars
    PROVE  SessionInv'
<1>1. /\ ShapeInv /\ ShapeInv' /\ (calm /\ faults = 0 => CalmInv)
      /\ (calm => OneCheck) /\ (calm' => OneCheck')
  BY ShapeStep, OneCheckStep DEF SessionInv
<1>2. ASSUME NEW r \in Requests,
             \/ Forwarded(r) \/ RefreshRoute(r) \/ Unreachable(r) \/ Join(r)
             \/ Resume(r) \/ Replayed(r) \/ Refuses(r)
      PROVE  SessionInv'
  <2>1. PICK new : Moves(r, new) /\ Gets(r, new) /\ Joins(r, new)
    BY <1>1, <1>2, ProxyMoves
  <2> QED
    BY <1>1, <2>1, MoveKeeps
<1>3. ASSUME NEW b \in Browsers, SignOut(b) PROVE SessionInv'
  <2>1. calm' = calm /\ faults' = faults
    BY <1>3 DEF SignOut
  <2> QED
    BY <1>1, <1>3, <2>1, SignOutCalm DEF SessionInv
<1>4. ASSUME NEW r \in Requests, NEW b \in Browsers, Starts(r, b) PROVE SessionInv'
  <2>1. calm' = calm /\ faults' = faults
    BY <1>4 DEF Starts, CheckSession, SignIn, Start
  <2> QED
    BY <1>1, <1>4, <2>1, StartCalm DEF SessionInv
<1>5. ASSUME NEW r \in Requests, Deliver(r) PROVE SessionInv'
  <2>1. calm' = calm /\ faults' = faults
    BY <1>5 DEF Deliver
  <2> QED
    BY <1>1, <1>5, <2>1, DeliverCalm DEF SessionInv
<1>6. ASSUME NEW r \in Requests, Serves(r) PROVE SessionInv'
  <2>1. calm' = calm /\ faults' = faults
    BY <1>6 DEF Serves
  <2> QED
    BY <1>1, <1>6, <2>1, ServeCalm DEF SessionInv
<1>7. ASSUME NEW k \in Tokens, Verify(k) PROVE SessionInv'
  <2>1. calm' = calm /\ faults' = faults
    BY <1>7 DEF Verify
  <2> QED
    BY <1>1, <1>7, <2>1, VerifyCalm DEF SessionInv
<1>8. ASSUME NEW k \in Tokens, Rotate(k) PROVE SessionInv'
  <2>1. calm' = calm /\ faults \in Nat /\ (faults' = faults \/ faults' = faults + 1)
    BY <1>1, <1>8, Rotated, SessionAssumption DEF ShapeInv, TypeOK
  <2>2. faults' = 0 => faults = 0
    BY <2>1
  <2> QED
    BY <1>1, <1>8, <2>1, <2>2, RotateCalm DEF SessionInv
<1>9. ASSUME NEW k \in Tokens, RefreshFails(k) PROVE SessionInv'
  <2>1. faults' # 0
    BY <1>1, <1>9, Failed
  <2> QED
    BY <1>1, <2>1 DEF SessionInv
<1>10. ASSUME NEW k \in Tokens, DropPromise(k) PROVE SessionInv'
  <2>1. calm' = calm /\ faults' = faults
    BY <1>10 DEF DropPromise
  <2> QED
    BY <1>1, <1>10, <2>1, DropCalm DEF SessionInv
<1>11. ASSUME NEW k \in Tokens, Age(k) PROVE SessionInv'
  <2>1. calm' = calm /\ faults' = faults
    BY <1>11 DEF Age
  <2> QED
    BY <1>1, <1>11, <2>1, AgeCalm DEF SessionInv
<1>12. CASE UNCHANGED vars
  <2>1. /\ UNCHANGED <<current, rotations, issued, age, cookie, signedIn, req, flight,
                       result, faults, calm>>
    BY <1>12 DEF vars, backend
  <2>2. (\E own \in [Tokens -> Browsers \union {"nobody"}] : Owned(own)) =>
        (\E own \in [Tokens -> Browsers \union {"nobody"}] : Owned(own)')
    BY <2>1 DEF Owned, Holds, InFlight, Reigns, ServedSignin, SigningIn
  <2>3. CalmInv => CalmInv'
    BY <2>1, <2>2 DEF CalmInv, SigninShape, RefreshShape, SigningIn, InFlight, Reigns,
       ServedSignin, Kept, RefreshIsFirst, ChecksLag, Mine, Leads
  <2> QED
    BY <1>1, <2>1, <2>3 DEF SessionInv
<1> QED
  <2>1. ASSUME NEW k \in Tokens, Refresh(k) PROVE SessionInv'
    BY <1>7, <1>8, <1>9, <2>1 DEF Refresh
  <2> QED
    BY <1>2, <1>3, <1>4, <1>5, <1>6, <1>10, <1>11, <1>12, <2>1, SessionSteps

\* A browser that signed in keeps its session through refreshes, replays and late
\* answers (SessionKept), where nothing fails and the environment is calm: no
\* request outlives the pause in which a pair ages, pairs are made in different
\* seconds and a browser has one session check under way at a time.
THEOREM CalmSessionIsKept ==
    ASSUME MaxFaults # 0
    PROVE  Spec => []SessionKept
<1>1. SessionInv => SessionKept
  <2> SUFFICES ASSUME SessionInv, NEW b \in Browsers, calm, faults = 0, signedIn = b,
                      \A r \in Requests : ~InFlight(r)
               PROVE  cookie[b] = current
    BY DEF SessionKept
  <2>1. Reigns
    BY SessionAssumption DEF Reigns, ServedSignin, SigningIn
  <2> QED
    BY <2>1 DEF SessionInv, CalmInv, Kept, Mine
<1>2. SessionInv /\ [Next]_vars => SessionInv'
  BY SessionStep
<1> QED
  BY <1>1, <1>2, SessionInit, PTL DEF Spec

=============================================================================
