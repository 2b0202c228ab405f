------------------------------ MODULE ApiProcess ------------------------------
(***************************************************************************)
(* One API process as its requests share it: the order in which each kind  *)
(* of route validates its token and takes the only connection of the pool, *)
(* the timeouts, and the graceful shutdown.  What a handler does with the  *)
(* connection is one step here; Voting, Provisioning and Questions have    *)
(* its statements.  A request is one that needs the database, or the OAuth *)
(* proxy.                                                                  *)
(***************************************************************************)
CONSTANTS
  Request,      \* requests; each is made once
  Free          \* the connection is in the pool

ASSUME FreeAssumption == Free \notin Request

VARIABLES
  phase,        \* "running", "draining" after the signal, "stopped"
  step,         \* step[r]: what r does or waits for, or its reply
  kind,         \* kind[r]: the kind of route r asks for
  conn,         \* who has the connection, or Free
  abandoned     \* requests that had their 408 while their MCP tool went on

apiVars == <<phase, step, kind, conn, abandoned>>

\* /v1/* and /mcp behind jwt_auth_layer; /v1/waitlist; /health; /oauth2/*.
BehindAuth == {"protected", "mcp"}
Kind == BehindAuth \union {"waitlist", "health", "proxy"}
FirstStep == [protected |-> "token", mcp |-> "token", waitlist |-> "token",
              health |-> "checkout", proxy |-> "forward"]
Waiting == {"auth_checkout", "checkout"}
Using == {"resolve", "work"}
Active == Waiting \union Using \union {"token", "forward"}
Reply == {"ok", "refused", "failed"}

-----------------------------------------------------------------------------
ApiInit ==
  /\ phase = "running"
  /\ step = [r \in Request |-> "none"]
  /\ kind \in [Request -> Kind]
  /\ conn = Free
  /\ abandoned = {}

\* rmcp's stateless service runs the tool in a task of its own, and /mcp only
\* waits for its result.
InTool(r) == kind[r] = "mcp" /\ step[r] \in {"checkout", "work"}

Answered(r) == step[r] \in Reply \/ r \in abandoned

Goto(r, s) == step' = [step EXCEPT ![r] = s]

\* The end of a handler or of a tool, or a handler that is dropped, gives back
\* what r has.  A connection that was in the middle of something is discarded
\* and replaced.
Release(r) == conn' = IF conn = r THEN Free ELSE conn
Finish(r, reply) ==
  Goto(r, reply) /\ Release(r) /\ UNCHANGED <<phase, kind, abandoned>>

\* The listener accepts until the signal.
Arrive(r) ==
  /\ phase = "running"
  /\ step[r] = "none"
  /\ Goto(r, FirstStep[kind[r]])
  /\ UNCHANGED <<phase, kind, conn, abandoned>>

\* validate_jwt may fetch the keys from WorkOS first.
ValidToken(r) ==
  /\ step[r] = "token"
  /\ Goto(r, IF kind[r] \in BehindAuth THEN "auth_checkout" ELSE "checkout")
  /\ UNCHANGED <<phase, kind, conn, abandoned>>

InvalidToken(r) == step[r] = "token" /\ Finish(r, "refused")

\* pool.get, of the middleware and of the handler.
Checkout(r) ==
  /\ step[r] \in Waiting
  /\ conn = Free
  /\ conn' = r
  /\ Goto(r, IF step[r] = "auth_checkout" THEN "resolve" ELSE "work")
  /\ UNCHANGED <<phase, kind, abandoned>>

CheckoutTimesOut(r) ==
  /\ step[r] \in Waiting
  /\ conn # Free
  /\ Finish(r, "failed")

\* Mutant: the middleware keeps its connection until the handler returns.
UserResolved_Kept(r) ==
  /\ step[r] = "resolve"
  /\ Goto(r, "checkout")
  /\ UNCHANGED <<phase, kind, conn, abandoned>>

\* resolve_user in its transaction, in which it may ask WorkOS and GitHub;
\* then drop(conn), before the handler asks for it again.
UserResolved(r) ==
  /\ step[r] = "resolve"
  /\ Goto(r, "checkout")
  /\ Release(r)
  /\ UNCHANGED <<phase, kind, abandoned>>

UserRefused(r) ==
  /\ step[r] = "resolve"
  /\ \E reply \in {"refused", "failed"} : Finish(r, reply)

\* The handler with its connection: statements, and for some routes a call
\* of the embedding service or of WorkOS.
Work(r, reply) ==
  /\ step[r] = "work"
  /\ kind[r] = "health" => reply = "ok"
  /\ Finish(r, reply)

\* The OAuth proxy passes on what AuthKit says, or 502.
Forward(r, reply) == step[r] = "forward" /\ Finish(r, reply)

\* Mutant: no TimeoutLayer.
RequestTimeout_Absent(r) == step[r] \in Active /\ FALSE /\ Finish(r, "failed")

\* TimeoutLayer answers 408 and drops the handler, wherever it is; of /mcp that
\* is only who waits for the tool, once there is one.
RequestTimeout(r) ==
  /\ step[r] \in Active
  /\ ~Answered(r)
  /\ \/ ~InTool(r) /\ Finish(r, "failed")
     \/ /\ InTool(r)
        /\ abandoned' = abandoned \union {r}
        /\ UNCHANGED <<phase, step, kind, conn>>

Signal ==
  /\ phase = "running"
  /\ phase' = "draining"
  /\ UNCHANGED <<step, kind, conn, abandoned>>

\* axum::serve returns once the signal has come and every request is answered,
\* and the end of the process is the end of the tools that are left.
Stop ==
  /\ phase = "draining"
  /\ \A r \in Request : step[r] \in Active => Answered(r)
  /\ phase' = "stopped"
  /\ step' = [r \in Request |-> IF step[r] \in Active THEN "failed" ELSE step[r]]
  /\ conn' = Free
  /\ UNCHANGED <<kind, abandoned>>

\* Every step of a request but its arrival and the end of its work.
Serve(r) ==
  \/ ValidToken(r)
  \/ InvalidToken(r)
  \/ Checkout(r)
  \/ CheckoutTimesOut(r)
  \/ UserResolved(r)
  \/ UserRefused(r)
  \/ \E reply \in Reply : Forward(r, reply)
  \/ RequestTimeout(r)

ApiNext ==
  \/ \E r \in Request :
       Arrive(r) \/ Serve(r) \/ \E reply \in Reply : Work(r, reply)
  \/ Signal
  \/ Stop

\* The timers fire and the server notices that it is done; nothing is
\* assumed of WorkOS, AuthKit, the embedding service or the database.
ApiFairness == (\A r \in Request : WF_apiVars(RequestTimeout(r))) /\ WF_apiVars(Stop)

-----------------------------------------------------------------------------
\* The types of the process.
ApiTypeOK ==
  /\ phase \in {"running", "draining", "stopped"}
  /\ step \in [Request -> Active \union Reply \union {"none"}]
  /\ kind \in [Request -> Kind]
  /\ conn \in Request \union {Free}
  /\ abandoned \in SUBSET Request

\* The connection is with the request that uses it and with nobody else: no
\* request waits for a connection that it has itself (the drop(conn) of
\* jwt_auth_layer, without which every request behind it would run into the
\* checkout timeout), and none is kept by a request between its two checkouts
\* or by one that has been answered, unless that is an MCP tool that is still
\* at work after its 408.
OnlyUsersHoldTheConnection ==
  \A r \in Request :
    /\ conn = r <=> step[r] \in Using
    /\ conn = r /\ Answered(r) => kind[r] = "mcp" /\ step[r] = "work"

\* A graceful shutdown comes to its end although the services that requests
\* wait for may never answer: the request timeout bounds every wait.
DrainEnds == phase = "draining" ~> phase = "stopped"
=============================================================================
