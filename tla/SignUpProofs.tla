----------------------------- MODULE SignUpProofs -----------------------------
(***************************************************************************)
(* What SignUp and the API process in it promise, for any number of tabs,  *)
(* of loads of the callback and of other requests.                         *)
(***************************************************************************)
EXTENDS SignUp, TLAPS

-----------------------------------------------------------------------------
(***************************************************************************)
(* The API process.  Whatever surrounds it, it takes the steps of ApiNext. *)
(***************************************************************************)
\* Only a tool outlives its request, and it is past the middleware.
AbandonedAreTools ==
  \A r \in abandoned : kind[r] = "mcp" /\ step[r] \in {"checkout", "work"} \union Reply

\* The connection is with the request that uses it.
Held == \A r \in Request : conn = r <=> step[r] \in Using

ApiInv == ApiTypeOK /\ Held /\ AbandonedAreTools

LEMMA ApiInvInit == ApiInit => ApiInv
  BY FreeAssumption
     DEF ApiInit, ApiInv, ApiTypeOK, Held, AbandonedAreTools, Active, Waiting, Using, Reply

\* A request that gives back what it has and stops using it.
LEMMA ReleaseKeeps ==
  ASSUME ApiInv, NEW r \in Request, NEW s \in (Active \union Reply) \ Using,
         r \in abandoned => s \in Reply,
         Goto(r, s), Release(r), UNCHANGED <<phase, kind, abandoned>>
  PROVE  ApiInv'
<1>1. ApiTypeOK'
  BY DEF ApiInv, ApiTypeOK, Goto, Release
<1>2. Held'
  BY FreeAssumption DEF ApiInv, ApiTypeOK, Held, Goto, Release
<1>3. AbandonedAreTools'
  BY DEF ApiInv, ApiTypeOK, AbandonedAreTools, Goto
<1> QED
  BY <1>1, <1>2, <1>3 DEF ApiInv

\* A request that has not come to its handler goes on without the connection.
LEMMA GoingOnKeeps ==
  ASSUME ApiInv, NEW r \in Request, step[r] \in {"none", "token"},
         NEW s \in (Active \union Reply) \ Using,
         Goto(r, s), UNCHANGED <<phase, kind, conn, abandoned>>
  PROVE  ApiInv'
<1>1. ApiTypeOK'
  BY DEF ApiInv, ApiTypeOK, Goto
<1>2. Held'
  BY DEF ApiInv, ApiTypeOK, Held, Goto, Using
<1>3. AbandonedAreTools'
  BY DEF ApiInv, ApiTypeOK, AbandonedAreTools, Goto, Reply
<1> QED
  BY <1>1, <1>2, <1>3 DEF ApiInv

LEMMA FinishKeeps ==
  ASSUME ApiInv, NEW r \in Request, NEW reply \in Reply, Finish(r, reply)
  PROVE  ApiInv'
<1>1. reply \in (Active \union Reply) \ Using
  BY DEF Reply, Using
<1> QED
  BY <1>1, ReleaseKeeps DEF Finish

LEMMA CheckoutKeeps ==
  ASSUME ApiInv, NEW r \in Request, Checkout(r)
  PROVE  ApiInv'
<1>1. ApiTypeOK'
  BY DEF ApiInv, ApiTypeOK, Checkout, Goto, Active, Using
<1>2. Held'
  BY FreeAssumption DEF ApiInv, ApiTypeOK, Held, Checkout, Goto, Using, Waiting
<1>3. AbandonedAreTools'
  BY DEF ApiInv, ApiTypeOK, AbandonedAreTools, Checkout, Goto, Waiting, Reply
<1> QED
  BY <1>1, <1>2, <1>3 DEF ApiInv

\* The 408 ends the request, or leaves the tool alone.
LEMMA RequestTimeoutKeeps ==
  ASSUME ApiInv, NEW r \in Request, RequestTimeout(r)
  PROVE  ApiInv'
<1>1. CASE Finish(r, "failed")
  BY <1>1, FinishKeeps DEF Reply
<1>2. CASE InTool(r) /\ abandoned' = abandoned \union {r} /\ UNCHANGED <<phase, step, kind, conn>>
  BY <1>2 DEF InTool, ApiInv, ApiTypeOK, Held, AbandonedAreTools
<1> QED
  BY <1>1, <1>2 DEF RequestTimeout

\* Whatever is left of a tool ends with the process.
LEMMA StopKeeps ==
  ASSUME ApiInv, Stop
  PROVE  ApiInv'
<1>1. ApiTypeOK'
  BY DEF Stop, ApiInv, ApiTypeOK, Reply
<1>2. Held'
  BY FreeAssumption DEF Stop, ApiInv, ApiTypeOK, Held, Active, Using
<1>3. AbandonedAreTools'
  BY DEF Stop, ApiInv, ApiTypeOK, AbandonedAreTools, Reply
<1> QED
  BY <1>1, <1>2, <1>3 DEF ApiInv

LEMMA ServeKeeps ==
  ASSUME ApiInv, NEW r \in Request, Serve(r)
  PROVE  ApiInv'
<1>1. CASE ValidToken(r)
  <2>1. PICK s \in {"auth_checkout", "checkout"} : Goto(r, s)
    BY <1>1 DEF ValidToken
  <2> QED
    BY <1>1, <2>1, GoingOnKeeps DEF ValidToken, Active, Waiting, Using
<1>2. CASE InvalidToken(r)
  BY <1>2, FinishKeeps DEF InvalidToken, Reply
<1>3. CASE Checkout(r)
  BY <1>3, CheckoutKeeps
<1>4. CASE CheckoutTimesOut(r)
  BY <1>4, FinishKeeps DEF CheckoutTimesOut, Reply
<1>5. CASE UserResolved(r)
  <2>1. r \notin abandoned
    BY <1>5 DEF UserResolved, ApiInv, AbandonedAreTools, Reply
  <2> QED
    BY <1>5, <2>1, ReleaseKeeps DEF UserResolved, Active, Waiting, Using
<1>6. CASE UserRefused(r)
  BY <1>6, FinishKeeps DEF UserRefused, Reply
<1>7. CASE \E reply \in Reply : Forward(r, reply)
  BY <1>7, FinishKeeps DEF Forward
<1>8. CASE RequestTimeout(r)
  BY <1>8, RequestTimeoutKeeps
<1> QED
  BY <1>1, <1>2, <1>3, <1>4, <1>5, <1>6, <1>7, <1>8 DEF Serve

LEMMA ApiStepKeeps ==
  ASSUME ApiInv, [ApiNext]_apiVars
  PROVE  ApiInv'
<1>1. CASE UNCHANGED apiVars
  BY <1>1 DEF apiVars, ApiInv, ApiTypeOK, Held, AbandonedAreTools
<1>2. ASSUME NEW r \in Request, Arrive(r)
      PROVE  ApiInv'
  <2>1. PICK s \in {"token", "checkout", "forward"} : Goto(r, s)
    BY <1>2 DEF Arrive, ApiInv, ApiTypeOK, Kind, BehindAuth, FirstStep
  <2> QED
    BY <1>2, <2>1, GoingOnKeeps DEF Arrive, Active, Waiting, Using
<1>3. ASSUME NEW r \in Request, Serve(r)
      PROVE  ApiInv'
  BY <1>3, ServeKeeps
<1>4. ASSUME NEW r \in Request, NEW reply \in Reply, Work(r, reply)
      PROVE  ApiInv'
  BY <1>4, FinishKeeps DEF Work
<1>5. CASE Signal
  BY <1>5 DEF Signal, ApiInv, ApiTypeOK, Held, AbandonedAreTools
<1> QED
  BY <1>1, <1>2, <1>3, <1>4, <1>5, StopKeeps DEF ApiNext

LEMMA NextIsApiStep ==
  ASSUME [Next]_vars
  PROVE  [ApiNext]_apiVars
<1>1. CASE Api
  BY <1>1, LoadAssumption DEF Api, AddToWaitlist, ApiNext
<1>2. CASE Browser
  BY <1>2 DEF Browser, Expire, Start, Decide, Open
<1>3. ASSUME NEW l \in Load, Callback(l)
      PROVE  [ApiNext]_apiVars
  BY <1>3, LoadAssumption
     DEF Callback, Exchange, ExchangeFails, RefusalUnread, SendToApi, ApiNext,
         ApiCallFails, ApiReplies, LambdaTimeout, Land
<1>4. CASE UNCHANGED vars
  BY <1>4 DEF vars
<1> QED
  BY <1>1, <1>2, <1>3, <1>4 DEF Next

\* The inductive invariant of the process, beside any browser and any BFF: who
\* uses the connection has it, and what is left of an answered request is a
\* tool of /mcp.
THEOREM ProcessStaysConsistent == Spec => []ApiInv
<1>1. Init => ApiInv
  BY ApiInvInit DEF Init
<1>2. ApiInv /\ [Next]_vars => ApiInv'
  BY NextIsApiStep, ApiStepKeeps
<1> QED
  BY <1>1, <1>2, PTL DEF Spec

\* OnlyUsersHoldTheConnection: no request waits for a connection that it has,
\* and after its answer only a tool of /mcp that is at work keeps one.
THEOREM ConnectionWithItsUser == Spec => []OnlyUsersHoldTheConnection
<1>1. ApiInv => OnlyUsersHoldTheConnection
  BY DEF ApiInv, ApiTypeOK, Held, AbandonedAreTools, OnlyUsersHoldTheConnection, Answered,
     Using, Reply
<1> QED
  BY <1>1, ProcessStaysConsistent, PTL

-----------------------------------------------------------------------------
(***************************************************************************)
(* The sign-ups.                                                           *)
(***************************************************************************)
\* What the stage of load l says of its tab, its outcome and its request.
LoadInv(l) ==
  /\ stage[l] = "none" => tab[l] = NoTab
  /\ stage[l] # "none" => tab[l] \in Tab /\ url[tab[l]] \in Query
  /\ stage[l] \in {"none", "exchange", "send"} => step[l] = "none"
  /\ stage[l] \in Handling \union {"none"} => outcome[l] = "none"
  /\ kind[l] = "waitlist" /\ step[l] # "forward"

\* Load l has redeemed the code of its tab, and sends or has sent the
\* application.
Redeemer(l) == stage[l] = "send" \/ step[l] # "none"

Redeemed == \A l \in Load : Redeemer(l) => tab[l] \in spent
Once ==
  \A l, m \in Load :
    l # m /\ tab[l] = tab[m] /\ tab[l] # NoTab => ~(Redeemer(l) /\ Redeemer(m))

\* A 201 is only sent for a row that is there.
Acknowledged == \A l \in Load : step[l] = "ok" => tab[l] \in listed

\* The cookie is that of the only sign-up that nothing has disturbed.
CookieInv == \A t \in Started : cookie # t => t \in disturbed

Loads == \A l \in Load : LoadInv(l)

Inv ==
  /\ TypeOK
  /\ Loads
  /\ Redeemed
  /\ Once
  /\ Acknowledged
  /\ CookieInv
  /\ SuccessMeansListed
  /\ OnlyDisturbedFlowsAreInvalid

LEMMA InvInit == Init => Inv
<1> SUFFICES ASSUME Init PROVE Inv
  OBVIOUS
<1>1. TypeOK
  BY ApiInvInit, LoadAssumption DEF Init, ApiInv, TypeOK, Stage
<1>2. Loads /\ Redeemed /\ Acknowledged
  BY LoadAssumption DEF Init, ApiInit, Loads, LoadInv, Redeemed, Redeemer, Acknowledged
<1>3. Once /\ CookieInv /\ SuccessMeansListed /\ OnlyDisturbedFlowsAreInvalid
  BY DEF Init, Once, CookieInv, Started, SuccessMeansListed, OnlyDisturbedFlowsAreInvalid
<1> QED
  BY <1>1, <1>2, <1>3 DEF Inv

-----------------------------------------------------------------------------
(***************************************************************************)
(* Steps of the browser and of AuthKit.                                    *)
(***************************************************************************)
\* No load changes, and the URL of no tab that has one.
LEMMA BrowserStepKeeps ==
  ASSUME Inv, TypeOK', CookieInv', disturbed \subseteq disturbed',
         \A t \in Tab : url[t] \in Query => url'[t] = url[t],
         UNCHANGED <<apiVars, loadVars, spent, listed>>
  PROVE  Inv'
<1>1. Loads'
  BY DEF Inv, Loads, LoadInv, apiVars, loadVars, Handling
<1>2. (Redeemed /\ Once /\ Acknowledged)'
  BY DEF Inv, Redeemed, Once, Acknowledged, Redeemer, apiVars, loadVars
<1>3. SuccessMeansListed'
  BY DEF Inv, SuccessMeansListed, loadVars
<1>4. OnlyDisturbedFlowsAreInvalid'
  BY DEF Inv, OnlyDisturbedFlowsAreInvalid, Loads, LoadInv, Handling, loadVars
<1> QED
  BY <1>1, <1>2, <1>3, <1>4 DEF Inv

LEMMA StartKeeps ==
  ASSUME Inv, NEW t \in Tab, Start(t)
  PROVE  Inv'
<1>1. TypeOK'
  BY DEF Start, Inv, TypeOK, ApiTypeOK, apiVars, loadVars, Started
<1>2. CookieInv'
  BY DEF Start, Inv, TypeOK, CookieInv, Started
<1>3. \A u \in Tab : url[u] \in Query => url'[u] = url[u]
  BY DEF Start, Inv, TypeOK, Query
<1> QED
  BY <1>1, <1>2, <1>3, BrowserStepKeeps DEF Start

LEMMA DecideKeeps ==
  ASSUME Inv, NEW t \in Tab, NEW q \in Query, Decide(t, q)
  PROVE  Inv'
<1>1. TypeOK'
  BY DEF Decide, Inv, TypeOK, ApiTypeOK, apiVars, loadVars
<1>2. CookieInv'
  BY DEF Decide, Inv, TypeOK, CookieInv, Started, Query
<1>3. \A u \in Tab : url[u] \in Query => url'[u] = url[u]
  BY DEF Decide, Inv, TypeOK, Query
<1> QED
  BY <1>1, <1>2, <1>3, BrowserStepKeeps DEF Decide

LEMMA ExpireKeeps ==
  ASSUME Inv, Expire
  PROVE  Inv'
<1>1. TypeOK'
  BY DEF Expire, Inv, TypeOK, ApiTypeOK, apiVars, loadVars, Started
<1>2. CookieInv'
  BY DEF Expire, Inv, TypeOK, CookieInv, Started
<1> QED
  BY <1>1, <1>2, BrowserStepKeeps DEF Expire

-----------------------------------------------------------------------------
(***************************************************************************)
(* Steps of one load of the callback.                                      *)
(***************************************************************************)
LEMMA OpenKeeps ==
  ASSUME Inv, NEW l \in Load, NEW t \in Tab, Open(l, t)
  PROVE  Inv'
<1>1. /\ stage[l] = "none" /\ step[l] = "none" /\ outcome[l] = "none"
      /\ url[t] \in Query /\ t \in Started
  BY DEF Open, Inv, Loads, LoadInv, Query, Started
<1>2. \/ /\ url[t] = "malformed" \/ cookie # t
         /\ RedirectTo(l, "state_invalid")
      \/ RedirectTo(l, "oauth_failed")
      \/ At(l, "exchange") /\ UNCHANGED outcome
  <2>1. CASE url[t] = "malformed" \/ cookie # t
    BY <2>1 DEF Open, FirstStage
  <2>2. CASE url[t] = "error" /\ cookie = t
    BY <2>2 DEF Open, FirstStage
  <2>3. CASE url[t] = "code" /\ cookie = t
    BY <2>3 DEF Open, FirstStage
  <2> QED
    BY <1>1, <2>1, <2>2, <2>3 DEF Query
<1>3. tab' = [tab EXCEPT ![l] = t]
  BY DEF Open
<1>4. stage'[l] \in {"redirect", "exchange"}
  BY <1>2 DEF RedirectTo, At, Inv, TypeOK
<1>5. UNCHANGED <<apiVars, flowVars, spent, listed>>
  BY DEF Open
<1>6. TypeOK'
  BY <1>2, <1>3, <1>5 DEF Inv, TypeOK, ApiTypeOK, apiVars, flowVars, RedirectTo,
     At, Stage, Handling, Outcome
<1>7. Loads'
  BY <1>1, <1>2, <1>3, <1>5 DEF Inv, TypeOK, Loads, LoadInv, RedirectTo, At, apiVars,
     flowVars, Handling
<1>8. (Redeemed /\ Once /\ Acknowledged)'
  BY <1>1, <1>2, <1>3, <1>5
     DEF Inv, TypeOK, Redeemed, Once, Acknowledged, Redeemer, RedirectTo, At, apiVars
<1>9. CookieInv'
  BY <1>5 DEF Inv, CookieInv, Started, flowVars
<1>10. SuccessMeansListed'
  BY <1>1, <1>2, <1>3, <1>5
     DEF Inv, TypeOK, SuccessMeansListed, RedirectTo
<1>11. OnlyDisturbedFlowsAreInvalid'
  BY <1>1, <1>2, <1>3, <1>5
     DEF Inv, TypeOK, OnlyDisturbedFlowsAreInvalid, CookieInv, RedirectTo, flowVars
<1> QED
  BY <1>6, <1>7, <1>8, <1>9, <1>10, <1>11 DEF Inv

\* A load that ends in an outcome other than "state_invalid", and in success
\* only if it is listed; it has not sent anything but what it had sent.
LEMMA RedirectKeeps ==
  ASSUME Inv, NEW l \in Load, stage[l] \in Handling,
         NEW o \in Outcome \ {"state_invalid"}, RedirectTo(l, o),
         o = "success" => tab[l] \in listed,
         spent \subseteq spent', spent' \subseteq Tab,
         UNCHANGED <<apiVars, flowVars, tab, listed>>
  PROVE  Inv'
<1>1. TypeOK'
  BY DEF Inv, TypeOK, ApiTypeOK, apiVars, flowVars, RedirectTo, At, Stage
<1>2. Loads'
  BY DEF Inv, TypeOK, Loads, LoadInv, RedirectTo, At, apiVars, flowVars, Handling
<1>3. Redeemed' /\ Acknowledged'
  BY DEF Inv, TypeOK, Redeemed, Acknowledged, Redeemer, RedirectTo, At, apiVars
<1>4. Once'
  BY DEF Inv, TypeOK, Once, Redeemer, RedirectTo, At, apiVars
<1>5. CookieInv'
  BY DEF Inv, CookieInv, Started, flowVars
<1>6. SuccessMeansListed' /\ OnlyDisturbedFlowsAreInvalid'
  BY DEF Inv, TypeOK, SuccessMeansListed, OnlyDisturbedFlowsAreInvalid, RedirectTo, flowVars
<1> QED
  BY <1>1, <1>2, <1>3, <1>4, <1>5, <1>6 DEF Inv

\* A load that ends in the error page, or on the landing page.
LEMMA LeaveKeeps ==
  ASSUME Inv, NEW l \in Load, stage[l] \in Handling \union {"redirect"},
         NEW s \in {"landed", "error_page"}, At(l, s),
         TypeOK', CookieInv', disturbed \subseteq disturbed',
         UNCHANGED <<apiVars, url, tab, outcome, spent, listed>>
  PROVE  Inv'
<1>1. Loads'
  BY DEF Inv, TypeOK, Loads, LoadInv, At, apiVars, Handling
<1>2. Redeemed' /\ Acknowledged'
  BY DEF Inv, TypeOK, Redeemed, Acknowledged, Redeemer, At, apiVars
<1>3. Once'
  BY DEF Inv, TypeOK, Once, Redeemer, At, apiVars
<1>4. SuccessMeansListed' /\ OnlyDisturbedFlowsAreInvalid'
  BY DEF Inv, SuccessMeansListed, OnlyDisturbedFlowsAreInvalid
<1> QED
  BY <1>1, <1>2, <1>3, <1>4 DEF Inv

LEMMA ExchangeKeeps ==
  ASSUME Inv, NEW l \in Load, Exchange(l)
  PROVE  Inv'
<1>1. /\ stage[l] = "exchange" /\ step[l] = "none" /\ outcome[l] = "none"
      /\ tab[l] \in Tab /\ tab[l] \notin spent
  BY DEF Exchange, Inv, Loads, LoadInv, Handling
<1>2. TypeOK'
  BY <1>1 DEF Exchange, At, Inv, TypeOK, ApiTypeOK, apiVars, flowVars, Stage, Handling
<1>3. Loads'
  BY <1>1 DEF Exchange, At, Inv, TypeOK, Loads, LoadInv, Handling, apiVars, flowVars
<1>4. Redeemed' /\ Acknowledged'
  BY <1>1 DEF Exchange, At, Inv, TypeOK, Redeemed, Acknowledged, Redeemer, apiVars
<1>5. Once'
  BY <1>1 DEF Exchange, At, Inv, TypeOK, Redeemed, Once, Redeemer, apiVars
<1>6. CookieInv'
  BY DEF Exchange, Inv, CookieInv, Started, flowVars
<1>7. SuccessMeansListed' /\ OnlyDisturbedFlowsAreInvalid'
  BY DEF Exchange, Inv, SuccessMeansListed, OnlyDisturbedFlowsAreInvalid, flowVars
<1> QED
  BY <1>2, <1>3, <1>4, <1>5, <1>6, <1>7 DEF Inv

LEMMA SendToApiKeeps ==
  ASSUME Inv, NEW l \in Load, SendToApi(l)
  PROVE  Inv'
<1>1. /\ stage[l] = "send" /\ step[l] = "none" /\ outcome[l] = "none"
      /\ tab[l] \in Tab /\ kind[l] = "waitlist" /\ l \in Request
  BY LoadAssumption DEF SendToApi, Inv, Loads, LoadInv, Handling
<1>2. Goto(l, "token") /\ UNCHANGED <<phase, kind, conn, abandoned>>
  BY <1>1 DEF SendToApi, Arrive, FirstStep
<1>3. TypeOK'
  BY <1>1, <1>2 DEF SendToApi, Goto, At, Inv, TypeOK, ApiTypeOK, flowVars, Stage, Handling,
     Active
<1>4. Loads'
  BY <1>1, <1>2 DEF SendToApi, Goto, At, Inv, TypeOK, ApiTypeOK, Loads, LoadInv,
     Handling, flowVars
<1>5. Redeemed' /\ Acknowledged'
  BY <1>1, <1>2 DEF SendToApi, Goto, At, Inv, TypeOK, ApiTypeOK, Redeemed, Acknowledged,
     Redeemer
<1>6. Once'
  BY <1>1, <1>2 DEF SendToApi, Goto, At, Inv, TypeOK, ApiTypeOK, Once, Redeemer
<1>7. CookieInv'
  BY DEF SendToApi, Inv, CookieInv, Started, flowVars
<1>8. SuccessMeansListed' /\ OnlyDisturbedFlowsAreInvalid'
  BY DEF SendToApi, Inv, SuccessMeansListed, OnlyDisturbedFlowsAreInvalid, flowVars
<1> QED
  BY <1>3, <1>4, <1>5, <1>6, <1>7, <1>8 DEF Inv

LEMMA LandKeeps ==
  ASSUME Inv, NEW l \in Load, Land(l)
  PROVE  Inv'
<1>1. TypeOK'
  BY DEF Land, At, Inv, TypeOK, ApiTypeOK, apiVars, Stage, Started
<1>2. CookieInv'
  BY DEF Land, Inv, TypeOK, CookieInv, Started
<1> QED
  BY <1>1, <1>2, LeaveKeeps DEF Land

LEMMA CallbackKeeps ==
  ASSUME Inv, NEW l \in Load, Callback(l)
  PROVE  Inv'
<1>1. CASE ExchangeFails(l)
  <2>1. stage[l] \in Handling /\ tab[l] \in Tab
    BY <1>1 DEF ExchangeFails, Inv, Loads, LoadInv, Handling
  <2> QED
    BY <1>1, <2>1, RedirectKeeps DEF ExchangeFails, Outcome, Inv, TypeOK
<1>2. CASE ApiCallFails(l)
  BY <1>2, RedirectKeeps DEF ApiCallFails, Outcome, Handling, Inv, TypeOK
<1>3. CASE ApiReplies(l)
  <2>1. /\ ApiReason[step[l]] \in Outcome \ {"state_invalid"}
        /\ ApiReason[step[l]] = "success" => step[l] = "ok"
    BY <1>3 DEF ApiReplies, ApiReason, Reply, Outcome
  <2> QED
    BY <1>3, <2>1, RedirectKeeps DEF ApiReplies, Handling, Inv, TypeOK, Acknowledged
<1>4. CASE RefusalUnread(l) \/ LambdaTimeout(l)
  <2>1. stage[l] \in Handling /\ At(l, "error_page")
    BY <1>4 DEF RefusalUnread, LambdaTimeout, Handling
  <2>2. UNCHANGED <<apiVars, flowVars, tab, outcome, spent, listed>>
    BY <1>4 DEF RefusalUnread, LambdaTimeout
  <2>3. TypeOK' /\ CookieInv'
    BY <2>1, <2>2 DEF At, Inv, TypeOK, ApiTypeOK, apiVars, flowVars, Stage, CookieInv, Started
  <2> QED
    BY <2>1, <2>2, <2>3, LeaveKeeps DEF flowVars
<1> QED
  BY <1>1, <1>2, <1>3, <1>4, ExchangeKeeps, SendToApiKeeps, LandKeeps DEF Callback

-----------------------------------------------------------------------------
(***************************************************************************)
(* Steps of the API process.                                               *)
(***************************************************************************)
\* A request that a load has made goes on, without a 201 unless it is due.
LEMMA ProcessKeeps ==
  ASSUME Inv, ApiTypeOK',
         \A l \in Load :
           \/ step'[l] = step[l]
           \/ /\ step[l] # "none" /\ step'[l] \notin {"none", "forward"}
              /\ step'[l] = "ok" => tab[l] \in listed',
         kind' = kind, listed \subseteq listed', listed' \subseteq Tab,
         UNCHANGED <<flowVars, loadVars, spent>>
  PROVE  Inv'
<1>1. TypeOK'
  BY DEF Inv, TypeOK, flowVars, loadVars
<1>2. Loads'
  BY DEF Inv, Loads, LoadInv, flowVars, loadVars, Handling
<1>3. (Redeemed /\ Once /\ Acknowledged)'
  BY DEF Inv, Redeemed, Once, Acknowledged, Redeemer, loadVars
<1>4. (CookieInv /\ SuccessMeansListed /\ OnlyDisturbedFlowsAreInvalid)'
  BY DEF Inv, CookieInv, Started, SuccessMeansListed, OnlyDisturbedFlowsAreInvalid,
     flowVars, loadVars
<1> QED
  BY <1>1, <1>2, <1>3, <1>4 DEF Inv

\* Serving a load never yields a 201: only AddToWaitlist does.
LEMMA ServedLoad ==
  ASSUME Inv, NEW r \in Request, Serve(r), NEW l \in Load
  PROVE  /\ \/ step'[l] = step[l]
            \/ /\ step[l] # "none"
               /\ step'[l] \notin {"none", "forward", "ok"}
         /\ kind' = kind
<1>1. ApiTypeOK /\ l \in Request /\ kind[l] = "waitlist" /\ step[l] # "forward"
  BY LoadAssumption DEF Inv, TypeOK, Loads, LoadInv
<1>2. CASE ValidToken(r) \/ InvalidToken(r)
  BY <1>1, <1>2 DEF ValidToken, InvalidToken, Finish, Goto, ApiTypeOK
<1>3. CASE Checkout(r) \/ CheckoutTimesOut(r)
  BY <1>1, <1>3 DEF Checkout, CheckoutTimesOut, Finish, Goto, ApiTypeOK, Waiting
<1>4. CASE UserResolved(r) \/ UserRefused(r)
  BY <1>1, <1>4 DEF UserResolved, UserRefused, Finish, Goto, ApiTypeOK
<1>5. CASE \E reply \in Reply : Forward(r, reply)
  BY <1>1, <1>5 DEF Forward, Finish, Goto, ApiTypeOK
<1>6. CASE RequestTimeout(r)
  BY <1>1, <1>6 DEF RequestTimeout, Finish, Goto, ApiTypeOK, Active, Waiting, Using
<1> QED
  BY <1>2, <1>3, <1>4, <1>5, <1>6 DEF Serve

LEMMA ApiKeeps ==
  ASSUME Inv, ApiTypeOK', Api
  PROVE  Inv'
<1>1. ASSUME NEW r \in Request, Serve(r), UNCHANGED <<flowVars, loadVars, spent, listed>>
      PROVE  Inv'
  <2>1. kind' = kind
    BY <1>1 DEF Serve, ValidToken, InvalidToken, Checkout, CheckoutTimesOut, UserResolved,
       UserRefused, Forward, RequestTimeout, Finish
  <2>2. listed \subseteq listed' /\ listed' \subseteq Tab
    BY <1>1 DEF Inv, TypeOK
  <2> QED
    BY <1>1, <2>1, <2>2, ServedLoad, ProcessKeeps
<1>2. ASSUME NEW r \in Request \ Load, UNCHANGED <<flowVars, loadVars, spent, listed>>,
             Arrive(r) \/ \E reply \in Reply : Work(r, reply)
      PROVE  Inv'
  <2>1. kind' = kind /\ \A l \in Load : step'[l] = step[l]
    BY <1>2, LoadAssumption DEF Arrive, Work, Finish, Goto, Inv, TypeOK, ApiTypeOK
  <2>2. listed \subseteq listed' /\ listed' \subseteq Tab
    BY <1>2 DEF Inv, TypeOK
  <2> QED
    BY <1>2, <2>1, <2>2, ProcessKeeps
<1>3. ASSUME Signal \/ Stop, UNCHANGED <<flowVars, loadVars, spent, listed>>
      PROVE  Inv'
  <2>1. /\ kind' = kind
        /\ \A l \in Load : step'[l] = step[l] \/ (step[l] \in Active /\ step'[l] = "failed")
    <3>1. CASE Signal
      BY <3>1 DEF Signal
    <3>2. CASE Stop
      BY <3>2, LoadAssumption DEF Stop
    <3> QED
      BY <1>3, <3>1, <3>2
  <2>2. listed \subseteq listed' /\ listed' \subseteq Tab
    BY <1>3 DEF Inv, TypeOK
  <2> QED
    BY <1>3, <2>1, <2>2, ProcessKeeps DEF Active, Waiting, Using
<1>4. ASSUME NEW l \in Load, NEW reply \in Reply, AddToWaitlist(l, reply)
      PROVE  Inv'
  <2>1. /\ step[l] = "work" /\ kind' = kind
        /\ step' = [step EXCEPT ![l] = reply]
        /\ UNCHANGED <<flowVars, loadVars, spent>>
    BY <1>4 DEF AddToWaitlist, Work, Finish, Goto
  <2>2. tab[l] \in Tab
    BY <2>1 DEF Inv, Loads, LoadInv, TypeOK, Stage, Handling
  <2>3. listed \subseteq listed' /\ listed' \subseteq Tab
    BY <1>4, <2>2 DEF AddToWaitlist, Inv, TypeOK
  <2>4. \A m \in Load :
          \/ step'[m] = step[m]
          \/ /\ step[m] # "none" /\ step'[m] \notin {"none", "forward"}
             /\ step'[m] = "ok" => tab[m] \in listed'
    BY <1>4, <2>1, LoadAssumption DEF AddToWaitlist, Reply, Inv, TypeOK, ApiTypeOK
  <2> QED
    BY <2>1, <2>3, <2>4, ProcessKeeps
<1> QED
  BY <1>1, <1>2, <1>3, <1>4 DEF Api

-----------------------------------------------------------------------------
LEMMA NextKeeps ==
  ASSUME Inv, ApiTypeOK', [Next]_vars
  PROVE  Inv'
<1>1. CASE Api
  BY <1>1, ApiKeeps
<1>2. CASE Browser
  BY <1>2, StartKeeps, DecideKeeps, ExpireKeeps, OpenKeeps DEF Browser
<1>3. ASSUME NEW l \in Load, Callback(l)
      PROVE  Inv'
  BY <1>3, CallbackKeeps
<1>4. CASE UNCHANGED vars
  <2>1. \A l \in Load : step'[l] = step[l]
    BY <1>4 DEF vars, apiVars
  <2> QED
    BY <1>4, <2>1, ProcessKeeps DEF vars, apiVars, Inv, TypeOK
<1> QED
  BY <1>1, <1>2, <1>3, <1>4 DEF Next

\* The inductive invariant of the sign-ups: what each load has done follows
\* from its stage, only one load of a tab has redeemed its code, and a tab
\* that is started and has not the cookie has been disturbed.
THEOREM SignUpsStayConsistent == Spec => []Inv
<1>1. Init => Inv
  BY InvInit
<1>2. Inv /\ ApiInv' /\ [Next]_vars => Inv'
  BY NextKeeps DEF ApiInv
<1> QED
  BY <1>1, <1>2, ProcessStaysConsistent, PTL DEF Spec

\* The types of the browser, AuthKit, the BFF and the API process.
THEOREM TypeCorrect == Spec => []TypeOK
<1>1. Inv => TypeOK
  BY DEF Inv
<1> QED
  BY <1>1, SignUpsStayConsistent, PTL

\* SuccessMeansListed: who is sent to ?waitlist=success is on the waitlist.
THEOREM SuccessIsTrue == Spec => []SuccessMeansListed
<1>1. Inv => SuccessMeansListed
  BY DEF Inv
<1> QED
  BY <1>1, SignUpsStayConsistent, PTL

\* OnlyDisturbedFlowsAreInvalid: a sign-up that nothing has got at is not
\* refused for its state.
THEOREM UndisturbedFlowsPass == Spec => []OnlyDisturbedFlowsAreInvalid
<1>1. Inv => OnlyDisturbedFlowsAreInvalid
  BY DEF Inv
<1> QED
  BY <1>1, SignUpsStayConsistent, PTL

\* OneCallPerSignUp: however often the callback is loaded, the code of a tab
\* leads to one call of the API at most.
THEOREM CodesAreGoodOnce == Spec => []OneCallPerSignUp
<1>1. Inv => OneCallPerSignUp
  BY DEF Inv, Once, Redeemer, OneCallPerSignUp
<1> QED
  BY <1>1, SignUpsStayConsistent, PTL
=============================================================================
