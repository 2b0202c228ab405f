------------------------------- MODULE MCSignUp -------------------------------
(***************************************************************************)
(* A small instance of SignUp: two tabs, the loads of two callbacks and    *)
(* one request of another kind beside theirs: one of /mcp, which takes     *)
(* every step that a protected one takes and outlives its timeout, or one  *)
(* of the proxy.                                                           *)
(***************************************************************************)
EXTENDS SignUp

CONSTANTS t1, t2, l1, l2, other

MCTab == {t1, t2}
MCLoad == {l1, l2}
MCRequest == MCLoad \union {other}

\* The tabs are interchangeable: t1 is the one that is started first.
MCInit ==
  /\ ApiInit
  /\ \A l \in Load : kind[l] = "waitlist"
  /\ kind[other] \in {"mcp", "proxy"}
  /\ url = [t \in Tab |-> IF t = t1 THEN "consent" ELSE "landing"]
  /\ cookie = t1
  /\ spent = {}
  /\ tab = [l \in Load |-> NoTab]
  /\ stage = [l \in Load |-> "none"]
  /\ outcome = [l \in Load |-> "none"]
  /\ listed = {}
  /\ disturbed = {}

MCSpec == MCInit /\ [][Next]_vars /\ Fairness
=============================================================================
