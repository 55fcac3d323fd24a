------------------------------- MODULE Access -------------------------------
(***************************************************************************)
(* Who may call an operation of the API: presentation/auth.py turns a      *)
(* bearer token into a subject with roles and an object,                   *)
(* presentation/rbac.py asks the roles for the operation,                  *)
(* infrastructure/access_control.py compares objects.                      *)
(*                                                                         *)
(* A token is a record of what the code looks at: whether it has a dot, is *)
(* written in the legacy grammar, passes PyJWT's checks under the          *)
(* configured key, issuer and audience, and the claims it carries.         *)
(***************************************************************************)
EXTENDS Naturals, FiniteSets

CONSTANTS
  Setting,  \* [flag, env, algorithm, issuer, audience, key] of the service
  NoObject  \* a token without an object claim

Role == {"INSPECTOR", "SUPERVISOR", "ADMIN"}
Deciders == {"INSPECTOR", "SUPERVISOR"}

\* rbac.REQUIRED_ROLES: what only an inspector or a supervisor may call; every
\* other operation is open to the three roles.
DecisionOperation ==
  {"uploadDocuments", "loadDemoKit", "reviewFinding", "confirmCandidates",
   "startVerification", "completeVerification", "finalizeProtocol", "selectRevision"}
RolesFor(op) == IF op \in DecisionOperation THEN Deciders ELSE Role

-----------------------------------------------------------------------------
Refused == [subject |-> "", roles |-> {}, object |-> NoObject]
Context(t) == [subject |-> t.subject, roles |-> t.roles, object |-> t.object]

\* The legacy grammar is for a flagged service whose environment says dev or demo;
\* assert_insecure_auth_allowed refuses to start a service flagged otherwise.
InsecureAuthPermitted == Setting.flag /\ Setting.env \in {"dev", "demo"}
MayStart == Setting.flag => InsecureAuthPermitted

JwtConfigured ==
  /\ Setting.algorithm \in {"RS256", "ES256"}
  /\ Setting.issuer /\ Setting.audience /\ Setting.key

JwtContext(t) ==
  IF /\ JwtConfigured /\ t.algorithm = Setting.algorithm /\ t.verified
     /\ t.subject # "" /\ t.roles # {} /\ "" \notin t.roles /\ t.object # ""
  THEN Context(t) ELSE Refused

LegacyContext(t) == IF t.grammatical THEN Context(t) ELSE Refused

ParseBearer(t) ==
  IF ~t.present THEN Refused
  ELSE IF t.dotted THEN JwtContext(t)
  ELSE IF InsecureAuthPermitted THEN LegacyContext(t) ELSE Refused

-----------------------------------------------------------------------------
\* rbac.authorize: 401 without a subject or a role, 403 without one that fits.
Authorize(op, c) ==
  IF c.roles = {} THEN 401
  ELSE IF RolesFor(op) \cap c.roles = {} THEN 403 ELSE 200

MayAccess(requested, c) == c.object # NoObject /\ requested = c.object
=============================================================================
