-------------------------------- MODULE SignUp --------------------------------
(***************************************************************************)
(* Joining the waitlist from the landing page: /auth/start and             *)
(* /auth/callback of the web BFF, the browser with its tabs and its one    *)
(* state cookie, AuthKit, and POST /v1/waitlist of an API process          *)
(* (ApiProcess) that serves other requests as well.  A tab is one sign-up: *)
(* it has its own state token, its own authorization code and its own      *)
(* applicant.                                                              *)
(***************************************************************************)
EXTENDS ApiProcess

CONSTANTS
  Tab,          \* tabs in which the user signs up
  Load,         \* loads of the callback URL; a load is named after its request
  NoTab         \* no tab: the cookie is not there, or the load is not made

ASSUME LoadAssumption == Load \subseteq Request
ASSUME NoTabAssumption == NoTab \notin Tab

VARIABLES
  cookie,       \* the tab whose state token the browser's cookie has
  url,          \* url[t]: where tab t is: "landing", "consent", or the query
                \* with which AuthKit has sent it to the callback
  spent,        \* tabs whose authorization code AuthKit has redeemed
  tab,          \* tab[l]: the tab that load l belongs to
  stage,        \* stage[l]: what the callback handler of l does next, or
                \* where the browser is then
  outcome,      \* outcome[l]: where the redirect of l leads
  listed,       \* applicants with a row in api.waitlist
  disturbed     \* history: tabs that another flow, a reload or time got at

flowVars == <<cookie, url, disturbed>>
loadVars == <<tab, stage, outcome>>
vars == <<apiVars, flowVars, loadVars, spent, listed>>

Query == {"code", "error", "malformed"}
\* oauth_failed stands for oauth_denied as well, the reason that is given when
\* the error of the provider is access_denied.
Outcome == {"success", "oauth_failed", "state_invalid", "server_error"}
Handling == {"exchange", "send", "await"}
Stage == Handling \union {"none", "redirect", "landed", "error_page"}

-----------------------------------------------------------------------------
Init ==
  /\ ApiInit
  /\ \A l \in Load : kind[l] = "waitlist"
  /\ cookie = NoTab
  /\ url = [t \in Tab |-> "landing"]
  /\ spent = {}
  /\ tab = [l \in Load |-> NoTab]
  /\ stage = [l \in Load |-> "none"]
  /\ outcome = [l \in Load |-> "none"]
  /\ listed = {}
  /\ disturbed = {}

Started == {t \in Tab : url[t] # "landing"}

At(l, s) == stage' = [stage EXCEPT ![l] = s]
RedirectTo(l, o) == At(l, "redirect") /\ outcome' = [outcome EXCEPT ![l] = o]

-----------------------------------------------------------------------------
(***************************************************************************)
(* The browser and AuthKit.                                                *)
(***************************************************************************)
\* Mutant: a state cookie that is there is used again.
Start_KeepsCookie(t) ==
  /\ url[t] = "landing"
  /\ url' = [url EXCEPT ![t] = "consent"]
  /\ cookie' = IF cookie = NoTab THEN t ELSE cookie
  /\ disturbed' = disturbed \union Started
  /\ UNCHANGED <<apiVars, loadVars, spent, listed>>

\* GET /auth/start: a new state token, and the cookie of the browser is now
\* the one of this tab.
Start(t) ==
  /\ url[t] = "landing"
  /\ url' = [url EXCEPT ![t] = "consent"]
  /\ cookie' = t
  /\ disturbed' = disturbed \union Started
  /\ UNCHANGED <<apiVars, loadVars, spent, listed>>

\* The user signs in, or denies, or AuthKit fails.
Decide(t, q) ==
  /\ url[t] = "consent"
  /\ url' = [url EXCEPT ![t] = q]
  /\ UNCHANGED <<apiVars, loadVars, cookie, spent, listed, disturbed>>

\* The cookie and the token in it live for ten minutes.
Expire ==
  /\ cookie # NoTab
  /\ cookie' = NoTab
  /\ disturbed' = disturbed \union Started
  /\ UNCHANGED <<apiVars, loadVars, url, spent, listed>>

-----------------------------------------------------------------------------
(***************************************************************************)
(* GET /auth/callback                                                      *)
(***************************************************************************)
\* Mutant: takes the strategy of local tests, which needs no code.
FirstStage_Bypass(l, t) ==
  CASE url[t] = "malformed" \/ cookie # t -> RedirectTo(l, "state_invalid")
    [] url[t] = "error" /\ cookie = t -> RedirectTo(l, "oauth_failed")
    [] url[t] = "code" /\ cookie = t -> At(l, "send") /\ UNCHANGED outcome

\* The checks up to the first await of another service: cookie and query,
\* state, the error of the provider.
FirstStage(l, t) ==
  CASE url[t] = "malformed" \/ cookie # t -> RedirectTo(l, "state_invalid")
    [] url[t] = "error" /\ cookie = t -> RedirectTo(l, "oauth_failed")
    [] url[t] = "code" /\ cookie = t -> At(l, "exchange") /\ UNCHANGED outcome

\* The tab follows the redirect of AuthKit, or loads the same URL again.
Open(l, t) ==
  /\ stage[l] = "none"
  /\ url[t] \in Query
  /\ tab' = [tab EXCEPT ![l] = t]
  /\ FirstStage(l, t)
  /\ UNCHANGED <<apiVars, flowVars, spent, listed>>

\* exchangeCode: AuthKit redeems a code once.
Exchange(l) ==
  /\ stage[l] = "exchange"
  /\ tab[l] \notin spent
  /\ spent' = spent \union {tab[l]}
  /\ At(l, "send")
  /\ UNCHANGED <<apiVars, flowVars, tab, outcome, listed>>

\* AuthKit refuses, or the call fails after or before it is redeemed, or the
\* response does not have the documented shape.
ExchangeFails(l) ==
  /\ stage[l] = "exchange"
  /\ RedirectTo(l, "oauth_failed")
  /\ spent' \in {spent, spent \union {tab[l]}}
  /\ UNCHANGED <<apiVars, flowVars, tab, listed>>

\* describeNon2xx reads the body of a refusal outside of any try.
RefusalUnread(l) ==
  /\ stage[l] = "exchange"
  /\ At(l, "error_page")
  /\ UNCHANGED <<apiVars, flowVars, tab, outcome, spent, listed>>

SendToApi(l) ==
  /\ stage[l] = "send"
  /\ Arrive(l)
  /\ At(l, "await")
  /\ UNCHANGED <<flowVars, tab, outcome, spent, listed>>

\* callApi: no connection, a broken one, or ten seconds without a response.
\* The API goes on with the request all the same.
ApiCallFails(l) ==
  /\ stage[l] \in {"send", "await"}
  /\ RedirectTo(l, "server_error")
  /\ UNCHANGED <<apiVars, flowVars, tab, spent, listed>>

\* Mutant: hands on the reason of the API client as it is.
ApiReason_Raw == [ok |-> "success", refused |-> "auth_rejected",
                  failed |-> "server_error"]

ApiReason == [ok |-> "success", refused |-> "oauth_failed",
              failed |-> "server_error"]

ApiReplies(l) ==
  /\ stage[l] = "await"
  /\ step[l] \in Reply
  /\ RedirectTo(l, ApiReason[step[l]])
  /\ UNCHANGED <<apiVars, flowVars, tab, spent, listed>>

\* Mutant: the function has no time limit.
LambdaTimeout_Absent(l) ==
  /\ stage[l] \in Handling /\ FALSE
  /\ At(l, "error_page")
  /\ UNCHANGED <<apiVars, flowVars, tab, outcome, spent, listed>>

\* The platform ends the function, and what the browser gets has no cookie.
LambdaTimeout(l) ==
  /\ stage[l] \in Handling
  /\ At(l, "error_page")
  /\ UNCHANGED <<apiVars, flowVars, tab, outcome, spent, listed>>

\* The browser gets the redirect, which clears the cookie, whosever it is by
\* now.
Land(l) ==
  /\ stage[l] = "redirect"
  /\ At(l, "landed")
  /\ cookie' = NoTab
  /\ disturbed' = disturbed \union Started
  /\ UNCHANGED <<apiVars, url, tab, outcome, spent, listed>>

-----------------------------------------------------------------------------
(***************************************************************************)
(* The API process.                                                        *)
(***************************************************************************)
\* Mutant: an insert that failed is taken for one that found its row there.
AddToWaitlist_Unchecked(l, reply) ==
  /\ Work(l, reply)
  /\ listed' \in {listed, listed \union {tab[l]}}
  /\ UNCHANGED <<flowVars, loadVars, spent>>

\* add_to_waitlist: 201 once the row is there; the row may be there although
\* the response to the insert was lost.
AddToWaitlist(l, reply) ==
  /\ Work(l, reply)
  /\ listed' \in {listed, listed \union {tab[l]}}
  /\ reply = "ok" => tab[l] \in listed'
  /\ UNCHANGED <<flowVars, loadVars, spent>>

Api ==
  \/ /\ \/ \E r \in Request : Serve(r)
        \/ \E r \in Request \ Load :
             Arrive(r) \/ \E reply \in Reply : Work(r, reply)
        \/ Signal
        \/ Stop
     /\ UNCHANGED <<flowVars, loadVars, spent, listed>>
  \/ \E l \in Load, reply \in Reply : AddToWaitlist(l, reply)

Callback(l) ==
  \/ Exchange(l)
  \/ ExchangeFails(l)
  \/ RefusalUnread(l)
  \/ SendToApi(l)
  \/ ApiCallFails(l)
  \/ ApiReplies(l)
  \/ LambdaTimeout(l)
  \/ Land(l)

Browser ==
  \/ Expire
  \/ \E t \in Tab :
       \/ Start(t)
       \/ \E q \in Query : Decide(t, q)
       \/ \E l \in Load : Open(l, t)

Next == Api \/ Browser \/ \E l \in Load : Callback(l)

\* Of the BFF only the time limit of its function is assumed, and that its
\* redirects arrive.
Fairness ==
  /\ ApiFairness
  /\ \A l \in Load : WF_vars(LambdaTimeout(l)) /\ WF_vars(Land(l))

Spec == Init /\ [][Next]_vars /\ Fairness

-----------------------------------------------------------------------------
\* The types of the browser, AuthKit, the BFF and the API process.
TypeOK ==
  /\ ApiTypeOK
  /\ cookie \in Tab \union {NoTab}
  /\ url \in [Tab -> Query \union {"landing", "consent"}]
  /\ spent \in SUBSET Tab
  /\ tab \in [Load -> Tab \union {NoTab}]
  /\ stage \in [Load -> Stage]
  /\ outcome \in [Load -> Outcome \union {"none"}]
  /\ listed \in SUBSET Tab
  /\ disturbed \in SUBSET Tab

\* Who is sent to ?waitlist=success is on the waitlist, whatever the API
\* process was doing and whichever of its calls timed out.
SuccessMeansListed ==
  \A l \in Load : outcome[l] = "success" => tab[l] \in listed

\* A sign-up is only refused as state_invalid when its query is malformed or
\* when, since it was started, another sign-up was started, a callback of any
\* tab came back or the cookie expired: one sign-up after the other, even
\* after one that ended in an error page and left its cookie, works.
OnlyDisturbedFlowsAreInvalid ==
  \A l \in Load :
    outcome[l] = "state_invalid" /\ url[tab[l]] # "malformed"
      => tab[l] \in disturbed

\* A code leads to one call of the API at most: reloading the callback, also
\* before its first load has cleared the cookie, does not join twice, because
\* the call needs a code that AuthKit redeems once.
OneCallPerSignUp ==
  \A l, m \in Load :
    l # m /\ tab[l] = tab[m] /\ tab[l] # NoTab
      => ~(step[l] # "none" /\ step[m] # "none")

\* Every load of the callback ends on the landing page or on an error page,
\* although exchangeCode has no timeout of its own and the API may be busy,
\* draining or gone.
CallbackEnds ==
  \A l \in Load :
    stage[l] \in Handling \union {"redirect"}
      ~> stage[l] \in {"landed", "error_page"}
=============================================================================
