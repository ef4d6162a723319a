-------------------------- MODULE BrowserSessions --------------------------
(***************************************************************************)
(* The dashboard's cookie sessions (auth/auth.go, the login, logout and    *)
(* CSRF handlers of httpapi/auth_handlers.go and the queries of            *)
(* dbsqlc/auth.sql.go).  One browser sends several requests at once; each  *)
(* query of a request is a step of its own, and answers reach the browser  *)
(* late, in any order or not at all.                                       *)
(***************************************************************************)
EXTENDS Naturals, FiniteSets

CONSTANTS
  BsSessions,    \* rows of the table sessions
  BsRequests,    \* requests the browser may have under way
  BsMaxToken     \* bound: tokens the server draws

BsAssumption == BsMaxToken \in Nat \ {0}

VARIABLES
  bsRow,      \* [BsSessions -> row]; tokens stand for their hashes
  bsJar,      \* the browser's session and CSRF cookies (0: none)
  bsReq,      \* [BsRequests -> request]
  bsDrawn,    \* tokens drawn so far
  bsEnded,    \* sessions a logout has found and revoked
  bsRevived   \* a revoked session was served or given a cookie afterwards

bsVars == <<bsRow, bsJar, bsReq, bsDrawn, bsEnded, bsRevived>>

NoBrowserSession == [state |-> "none", hash |-> 0, csrf |-> 0, due |-> FALSE]

NoBrowserRequest ==
  [op |-> "none", step |-> "idle", cookie |-> 0, csrf |-> 0, session |-> "none",
   due |-> FALSE, gives |-> 0, givesCsrf |-> 0]

BsInit ==
  /\ bsRow = [s \in BsSessions |-> NoBrowserSession]
  /\ bsJar = [cookie |-> 0, csrf |-> 0]
  /\ bsReq = [r \in BsRequests |-> NoBrowserRequest]
  /\ bsDrawn = 0
  /\ bsEnded = {}
  /\ bsRevived = FALSE

BsAt(r, op, step) == bsReq[r].op = op /\ bsReq[r].step = step

BsAnswers(r, op, cookie, csrf) ==
  bsReq' = [bsReq EXCEPT ![r] = [NoBrowserRequest EXCEPT
              !.op = op, !.step = "answered", !.gives = cookie, !.givesCsrf = csrf,
              !.session = bsReq[r].session]]

BsRevives(s) == bsRevived' = (bsRevived \/ s \in bsEnded)

BsDraw(n) == bsDrawn + n <= BsMaxToken /\ bsDrawn' = bsDrawn + n

---------------------------------------------------------------------------
\* Queries.

\* The row a cookie names, if it is neither revoked nor expired.
AuthenticateBrowserSession(c) ==
  {s \in BsSessions : bsRow[s].state = "live" /\ bsRow[s].hash = c}

BrowserSessionCSRFExists(c, csrf) ==
  \E s \in BsSessions : bsRow[s].state = "live" /\ bsRow[s].hash = c /\ bsRow[s].csrf = csrf

CreateBrowserSession(s, token, csrf) ==
  /\ bsRow[s].state = "none"
  /\ bsRow' = [bsRow EXCEPT ![s] = [state |-> "live", hash |-> token, csrf |-> csrf, due |-> FALSE]]

RotateBrowserSession(s, token, csrf) ==
  /\ bsRow[s].state = "live"
  /\ bsRow' = [bsRow EXCEPT ![s].hash = token, ![s].csrf = csrf, ![s].due = FALSE]

RefreshBrowserSessionCSRF(s, csrf) ==
  /\ bsRow[s].state = "live"
  /\ bsRow' = [bsRow EXCEPT ![s].csrf = csrf]

\* Finds the row by the hash of the cookie the logout carries.
RevokeBrowserSession(c) ==
  LET found == AuthenticateBrowserSession(c) IN
  /\ bsRow' = [s \in BsSessions |->
                 IF s \in found THEN [bsRow[s] EXCEPT !.state = "revoked", !.due = FALSE] ELSE bsRow[s]]
  /\ bsEnded' = bsEnded \cup found

---------------------------------------------------------------------------
\* The browser.

BsSend(r, op) ==
  /\ bsReq[r].step = "idle"
  /\ bsReq' = [bsReq EXCEPT ![r] = [NoBrowserRequest EXCEPT !.op = op, !.step = "sent",
                 !.cookie = bsJar.cookie, !.csrf = bsJar.csrf]]
  /\ UNCHANGED <<bsRow, bsJar, bsDrawn, bsEnded, bsRevived>>

BsSends == \E r \in BsRequests, op \in {"login", "get", "csrf", "logout"} :
             /\ op = "login" => bsJar.cookie = 0
             /\ op # "login" => bsJar.cookie # 0
             /\ BsSend(r, op)

\* SetSessionCookies, SetCSRFCookie and ClearSessionCookies, as the browser
\* applies them when the answer arrives.
SetSessionCookies(r) ==
  /\ bsReq[r].step = "answered"
  /\ bsJar' = IF bsReq[r].op = "logout" THEN [cookie |-> 0, csrf |-> 0]
              ELSE [cookie |-> IF bsReq[r].gives # 0 THEN bsReq[r].gives ELSE bsJar.cookie,
                    csrf |-> IF bsReq[r].givesCsrf # 0 THEN bsReq[r].givesCsrf ELSE bsJar.csrf]
  /\ bsReq' = [bsReq EXCEPT ![r] = NoBrowserRequest]
  /\ UNCHANGED <<bsRow, bsDrawn, bsEnded, bsRevived>>

\* A request or its answer is lost.
LosesRequest(r) ==
  /\ bsReq[r].step # "idle"
  /\ bsReq' = [bsReq EXCEPT ![r] = NoBrowserRequest]
  /\ UNCHANGED <<bsRow, bsJar, bsDrawn, bsEnded, bsRevived>>

LosesCSRFCookie ==
  /\ bsJar.csrf # 0
  /\ bsJar' = [bsJar EXCEPT !.csrf = 0]
  /\ UNCHANGED <<bsRow, bsReq, bsDrawn, bsEnded, bsRevived>>

---------------------------------------------------------------------------
\* The server.

\* The callback draws both tokens and stores the session in one transaction
\* with the user.
VerifyCallback(r) ==
  /\ BsAt(r, "login", "sent")
  /\ BsDraw(2)
  /\ \E s \in BsSessions : CreateBrowserSession(s, bsDrawn + 1, bsDrawn + 2)
  /\ BsAnswers(r, "login", bsDrawn + 1, bsDrawn + 2)
  /\ UNCHANGED <<bsJar, bsEnded, bsRevived>>

\* requireAuth: a request whose cookie names no session is refused, and the
\* others carry the row they were authenticated with.
requireAuth(r) ==
  /\ bsReq[r].step = "sent" /\ bsReq[r].op # "login"
  /\ LET found == AuthenticateBrowserSession(bsReq[r].cookie) IN
     IF found = {}
     THEN /\ bsReq' = [bsReq EXCEPT ![r] = NoBrowserRequest]
          /\ UNCHANGED bsRevived
     ELSE LET s == CHOOSE x \in found : TRUE IN
          /\ bsReq' = [bsReq EXCEPT ![r].step = "authenticated", ![r].session = s, ![r].due = bsRow[s].due]
          /\ BsRevives(s)
  /\ UNCHANGED <<bsRow, bsJar, bsDrawn, bsEnded>>

\* Only a read outside /v1/auth/csrf rotates, and only in the last week.
RotateSession(r) ==
  /\ BsAt(r, "get", "authenticated") /\ bsReq[r].due
  /\ BsDraw(2)
  /\ RotateBrowserSession(bsReq[r].session, bsDrawn + 1, bsDrawn + 2)
  /\ BsAnswers(r, "get", bsDrawn + 1, bsDrawn + 2)
  /\ BsRevives(bsReq[r].session)
  /\ UNCHANGED <<bsJar, bsEnded>>

\* The handler behind requireAuth answers.
BsServes(r) ==
  /\ BsAt(r, "get", "authenticated") /\ ~bsReq[r].due
  /\ BsAnswers(r, "get", 0, 0)
  /\ UNCHANGED <<bsRow, bsJar, bsDrawn, bsEnded, bsRevived>>

RefreshCSRF(r) ==
  /\ BsAt(r, "csrf", "authenticated")
  /\ IF bsReq[r].csrf # 0
     THEN BsAnswers(r, "csrf", 0, 0) /\ UNCHANGED <<bsRow, bsDrawn, bsRevived>>
     ELSE /\ BsDraw(1)
          /\ RefreshBrowserSessionCSRF(bsReq[r].session, bsDrawn + 1)
          /\ BsAnswers(r, "csrf", 0, bsDrawn + 1)
          /\ BsRevives(bsReq[r].session)
  /\ UNCHANGED <<bsJar, bsEnded>>

ValidateCSRF(r) ==
  /\ BsAt(r, "logout", "authenticated")
  /\ bsReq' = IF BrowserSessionCSRFExists(bsReq[r].cookie, bsReq[r].csrf)
              THEN [bsReq EXCEPT ![r].step = "valid"] ELSE [bsReq EXCEPT ![r] = NoBrowserRequest]
  /\ UNCHANGED <<bsRow, bsJar, bsDrawn, bsEnded, bsRevived>>

Logout(r) ==
  /\ BsAt(r, "logout", "valid")
  /\ RevokeBrowserSession(bsReq[r].cookie)
  /\ BsAnswers(r, "logout", 0, 0)
  /\ UNCHANGED <<bsJar, bsDrawn, bsRevived>>

\* Time: the session enters the last week of its thirty days.
ShouldRotate(s) ==
  /\ bsRow[s].state = "live" /\ ~bsRow[s].due
  /\ bsRow' = [bsRow EXCEPT ![s].due = TRUE]
  /\ UNCHANGED <<bsJar, bsReq, bsDrawn, bsEnded, bsRevived>>

BsNext ==
  \/ BsSends
  \/ LosesCSRFCookie
  \/ \E r \in BsRequests :
       \/ SetSessionCookies(r) \/ LosesRequest(r)
       \/ VerifyCallback(r) \/ requireAuth(r) \/ RotateSession(r) \/ BsServes(r)
       \/ RefreshCSRF(r) \/ ValidateCSRF(r) \/ Logout(r)
  \/ \E s \in BsSessions : ShouldRotate(s)

BsSpec == BsInit /\ [][BsNext]_bsVars

---------------------------------------------------------------------------
\* The state has its shape.
BsTypeOK ==
  /\ \A s \in BsSessions : bsRow[s].state \in {"none", "live", "revoked"} /\ bsRow[s].hash \in 0..BsMaxToken
  /\ bsJar.cookie \in 0..BsMaxToken /\ bsJar.csrf \in 0..BsMaxToken
  /\ \A r \in BsRequests : bsReq[r].step \in {"idle", "sent", "authenticated", "valid", "answered"}
  /\ bsDrawn \in 0..BsMaxToken

\* A logout that found its session is final: no request, whether sent before
\* or after it, is authenticated by that session or given new cookies of it,
\* although a request may pass requireAuth before the logout and rotate the
\* session or refresh its CSRF token after it (auth.go RotateSession).
RevokedSessionStaysOut == ~bsRevived

============================================================================
