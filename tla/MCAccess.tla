------------------------------ MODULE MCAccess ------------------------------
(* Who may do what, and what the console is told, side by side: apid's copy  *)
(* of the access settings, the administrator's password, sessions and        *)
(* tokens, the pairing of a provisioning session, the bundles of the console *)
(* and apid's view of micad's tasks.  `part` says which of them a behaviour  *)
(* is about, and the others keep an initial state.                           *)
EXTENDS AccessCache, AdminAccess, ProvisioningSession, UiBundles, TaskMirror

CONSTANTS
  r1, w1, w2,       \* requests that read and write through the cache
  q1, q2, k1, k2,   \* requests to the administrator's routes, and tokens
  t1, c1, m1        \* a task, the call that made it, a request that reads it

VARIABLE part

(* A bundle for the first version of the interface and one for both, on      *)
(* images that serve one of them.                                            *)
MCPackages ==
  [p |-> [apis |-> {"v1"}, sound |-> TRUE], q |-> [apis |-> {"v1", "v2"}, sound |-> TRUE]]
MCImages == {{"v1"}, {"v2"}}

-----------------------------------------------------------------------------
AccessInit ==
  /\ part \in {"cache", "admin", "session", "bundles", "tasks"}
  /\ Init /\ AdmInit /\ SesInit /\ UiInit /\ MirrorInit
  /\ part # "admin" => access = NoTreeRead
  /\ part # "session" => sesPassword = 0
  /\ part # "bundles" => uiServed = {"v1"}

AccessNext ==
  \/ part = "cache" /\ Next /\ UNCHANGED <<admVars, sesVars, uiVars, mirrorVars, part>>
  \/ part = "admin" /\ AdmNext /\ UNCHANGED <<vars, sesVars, uiVars, mirrorVars, part>>
  \/ part = "session" /\ SesNext /\ UNCHANGED <<vars, admVars, uiVars, mirrorVars, part>>
  \/ part = "bundles" /\ UiNext /\ UNCHANGED <<vars, admVars, sesVars, mirrorVars, part>>
  \/ part = "tasks" /\ MirrorNext /\ UNCHANGED <<vars, admVars, sesVars, uiVars, part>>

AccessSpec ==
  AccessInit /\ [][AccessNext]_<<vars, admVars, sesVars, uiVars, mirrorVars, part>>
=============================================================================
