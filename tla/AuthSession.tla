---------------------------- MODULE AuthSession ----------------------------
(***************************************************************************)
(* One browser tab, its HttpOnly refresh cookie, and the server that       *)
(* rotates refresh tokens (services/auth_service.py, api/auth.py; in the   *)
(* frontend stores/auth.js, api/client.js, api/authRefreshCoordinator.js). *)
(*                                                                         *)
(* A token pair is one number: the access token and the refresh token with *)
(* which it was issued.  A request takes the cookie along when it is sent, *)
(* and Set-Cookie acts when its answer arrives; answers overtake each      *)
(* other.  A request is "sent", for a refresh "taken" (GETDEL done),       *)
(* "answered", and gone once delivered.                                    *)
(***************************************************************************)
EXTENDS Integers, Sequences, FiniteSets

CONSTANTS Users,
          MaxTokens, MaxClicks, MaxDrops, MaxBumps, \* bounds, and one
          MaxUsed,   \* of clicks, drops and bumps together
          Navigate  \* may a restore start while a login or logout is under way?

ASSUME AuthAssumption == /\ {MaxTokens, MaxClicks, MaxDrops, MaxBumps, MaxUsed} \subseteq Nat
                         /\ Navigate \in BOOLEAN

VARIABLES tok,     \* the tokens issued so far: user, sv (session_version), chain
          live,    \* refresh tokens that Redis knows
          version, \* version[u]: User.session_version
          cookie,  \* the refresh token in the browser, or 0
          tab,     \* access, user, gen (sessionGeneration), left (logged out since)
          net,     \* requests in flight
          used     \* how much of each bound has been used

authVars == <<tok, live, version, cookie, tab, net, used>>

NoUser == "nobody"
Tokens == 1..Len(tok)
LoggedOut == [access |-> 0, user |-> NoUser, gen |-> 0, left |-> FALSE]

AuthInit == /\ tok = <<>> /\ live = {} /\ version = [u \in Users |-> 0]
            /\ cookie = 0 /\ tab = LoggedOut /\ net = {}
            /\ used = [clicks |-> 0, drops |-> 0, bumps |-> 0]

Use(what, max) == /\ used[what] < max
                  /\ used.clicks + used.drops + used.bumps < MaxUsed
                  /\ used' = [used EXCEPT ![what] = @ + 1]

(* Requests that the page still listens to; the coordinator's set.         *)
HeardFrom(kinds) == {r \in net : r.kind \in kinds /\ ~r.orphan}
AuthTransitions == HeardFrom({"refresh", "restore", "logout"})

Request(kind, user, access, jar) ==
  [kind |-> kind, stage |-> "sent", user |-> user, access |-> access, jar |-> jar,
   gen |-> IF kind \in {"refresh", "restore"} THEN tab.gen ELSE 0, sv |-> 0, token |-> 0, orphan |-> FALSE]

-----------------------------------------------------------------------------
(* The page.                                                               *)

(* login waits for the transitions under way before it is sent.            *)
Login(u) ==
  /\ tab.access = 0 /\ AuthTransitions = {} /\ HeardFrom({"login"}) = {}
  /\ Len(tok) < MaxTokens
  /\ net' = net \cup {Request("login", u, 0, 0)}
  /\ UNCHANGED <<tok, live, version, cookie, tab, used>>

(* An API call was answered 401: the interceptor refreshes, once at a time.*)
Refresh ==
  /\ tab.access # 0 /\ HeardFrom({"refresh"}) = {} /\ Len(tok) < MaxTokens
  /\ net' = net \cup {Request("refresh", NoUser, 0, cookie)}
  /\ UNCHANGED <<tok, live, version, cookie, tab, used>>

(* tryRestoreSession, after a reload of the page.                          *)
Restore ==
  /\ tab.access = 0 /\ HeardFrom({"restore"}) = {} /\ Len(tok) < MaxTokens
  /\ Navigate \/ HeardFrom({"login", "logout"}) = {}
  /\ net' = net \cup {Request("restore", NoUser, 0, cookie)}
  /\ UNCHANGED <<tok, live, version, cookie, tab, used>>

LogoutRequest(access, jar) == Request("logout", NoUser, access, jar)
Forgotten == [LoggedOut EXCEPT !.gen = tab.gen + 1, !.left = TRUE]

Logout ==
  /\ tab.access # 0 \/ HeardFrom({"restore"}) # {}
  /\ Use("clicks", MaxClicks)
  /\ net' = net \cup {LogoutRequest(tab.access, cookie)}
  /\ tab' = Forgotten
  /\ UNCHANGED <<tok, live, version, cookie>>

(* The page forgets its memory; what is under way reaches the server, its  *)
(* answer nobody.  Nobody reloads in the moment a logout takes.            *)
Reload ==
  /\ HeardFrom({"logout"}) = {} /\ Use("clicks", MaxClicks)
  /\ tab' = [LoggedOut EXCEPT !.left = tab.left]
  /\ net' = {[r EXCEPT !.orphan = TRUE, !.gen = 0] : r \in {q \in net : q.stage # "answered"}}
  /\ UNCHANGED <<tok, live, version, cookie>>

-----------------------------------------------------------------------------
(* The server.                                                             *)

(* An answer that nobody waits for is gone at once.                        *)
Moved(r, new) == net' = (net \ {r}) \cup IF new.orphan /\ new.stage = "answered" THEN {} ELSE {new}
Answer(r, token) == [r EXCEPT !.stage = "answered", !.token = token, !.access = 0, !.jar = 0,
                              !.sv = 0]

Issue(r, user, sv, chain) ==
  LET t == Len(tok) + 1 IN
  /\ tok' = Append(tok, [user |-> user, sv |-> sv, chain |-> IF chain = 0 THEN t ELSE chain])
  /\ live' = live \cup {t}
  /\ Moved(r, Answer(r, t))

ServeLogin(r) ==
  /\ r.kind = "login" /\ r.stage = "sent"
  /\ Issue(r, r.user, version[r.user], 0)
  /\ UNCHANGED <<version, cookie, tab, used>>

(* refresh_token_pair: GETDEL, then the user's row.  Token 0 is a 401.     *)
TakeRefresh(r) ==
  /\ r.kind \in {"refresh", "restore"} /\ r.stage = "sent"
  /\ live' = live \ {r.jar}
  /\ IF r.jar \in live /\ tok[r.jar].sv = version[tok[r.jar].user]
     THEN Moved(r, [r EXCEPT !.stage = "taken", !.sv = tok[r.jar].sv, !.user = tok[r.jar].user])
     ELSE Moved(r, Answer(r, 0))
  /\ UNCHANGED <<tok, version, cookie, tab, used>>

(* Mutant: the new pair takes the version of the row as it is now.         *)
IssueRefreshRenewed(r) ==
  /\ r.stage = "taken"
  /\ Issue(r, r.user, version[r.user], tok[r.jar].chain)
  /\ UNCHANGED <<version, cookie, tab, used>>

IssueRefresh(r) ==
  /\ r.stage = "taken"
  /\ Issue(r, r.user, r.sv, tok[r.jar].chain)
  /\ UNCHANGED <<version, cookie, tab, used>>

(* revoke_tokens: a cookie of another user than the access token's is left *)
(* alone; token 1 says that the answer deletes the cookie.                 *)
ServeLogout(r) ==
  /\ r.kind = "logout" /\ r.stage = "sent"
  /\ IF r.access # 0 /\ r.jar # 0 /\ tok[r.access].user # tok[r.jar].user
     THEN Moved(r, Answer(r, 0)) /\ UNCHANGED live
     ELSE Moved(r, Answer(r, 1)) /\ live' = live \ {r.jar}
  /\ UNCHANGED <<tok, version, cookie, tab, used>>

(* update_password, update_status: every session of the user is void.      *)
Bump(u) ==
  /\ Use("bumps", MaxBumps)
  /\ version' = [version EXCEPT ![u] = @ + 1]
  /\ UNCHANGED <<tok, live, cookie, tab, net>>

(* The server fails, after GETDEL perhaps, or the page's timeout passes    *)
(* and the server goes on: no 401, so that the page keeps what it has.     *)
Drop(r) ==
  /\ r.kind \in {"refresh", "restore"} /\ ~r.orphan /\ Use("drops", MaxDrops)
  /\ net' = net \ {r} \/ Moved(r, [r EXCEPT !.orphan = TRUE, !.gen = 0])
  /\ UNCHANGED <<tok, live, version, cookie, tab>>

-----------------------------------------------------------------------------
(* Answers.                                                                *)

Here(r) == r.stage = "answered" /\ ~r.orphan

LoginDone(r) ==
  /\ Here(r) /\ r.kind = "login"
  /\ cookie' = r.token /\ net' = net \ {r}
  /\ tab' = [access |-> r.token, user |-> r.user, gen |-> tab.gen + 1, left |-> FALSE]
  /\ UNCHANGED <<tok, live, version, used>>

(* Mutant: a late answer is taken for a session that has ended.            *)
RefreshDoneAnyhow(r) ==
  /\ Here(r) /\ r.kind = "refresh" /\ r.token # 0
  /\ cookie' = r.token /\ net' = net \ {r}
  /\ tab' = [tab EXCEPT !.access = r.token]
  /\ UNCHANGED <<tok, live, version, used>>

(* The session is still the one that asked.                                *)
RefreshDone(r) ==
  /\ Here(r) /\ r.kind = "refresh" /\ r.token # 0
  /\ tab.gen = r.gen /\ tab.access # 0
  /\ cookie' = r.token /\ net' = net \ {r}
  /\ tab' = [tab EXCEPT !.access = r.token]
  /\ UNCHANGED <<tok, live, version, used>>

RestoreDone(r) ==
  /\ Here(r) /\ r.kind = "restore" /\ r.token # 0 /\ tab.gen = r.gen
  /\ cookie' = r.token /\ net' = net \ {r}
  /\ tab' = [tab EXCEPT !.access = r.token, !.user = r.user]
  /\ UNCHANGED <<tok, live, version, used>>

(* The session has changed meanwhile: the answer is thrown away, and its   *)
(* cookie handed back, unless the interceptor sees a new session.          *)
LateAnswer(r) ==
  /\ Here(r) /\ r.token # 0
  /\ \/ r.kind = "refresh" /\ (tab.gen # r.gen \/ tab.access = 0)
     \/ r.kind = "restore" /\ tab.gen # r.gen
  /\ cookie' = r.token
  /\ net' = (net \ {r}) \cup
            IF r.kind = "refresh" /\ tab.gen # r.gen /\ tab.access # 0 THEN {}
            ELSE {LogoutRequest(r.token, r.token)}
  /\ UNCHANGED <<tok, live, version, tab, used>>

(* 401: the interceptor logs out the session that asked.                   *)
SessionRefused(r) ==
  /\ Here(r) /\ r.kind \in {"refresh", "restore"} /\ r.token = 0
  /\ IF r.kind = "refresh" /\ tab.gen = r.gen /\ tab.access # 0
     THEN /\ tab' = Forgotten
          /\ net' = (net \ {r}) \cup {LogoutRequest(tab.access, cookie)}
     ELSE net' = net \ {r} /\ UNCHANGED tab
  /\ UNCHANGED <<tok, live, version, cookie, used>>

LogoutDone(r) ==
  /\ Here(r) /\ r.kind = "logout"
  /\ cookie' = IF r.token = 1 THEN 0 ELSE cookie
  /\ net' = net \ {r}
  /\ UNCHANGED <<tok, live, version, tab, used>>

Serve(r) == ServeLogin(r) \/ TakeRefresh(r) \/ IssueRefresh(r) \/ ServeLogout(r)
Deliver(r) == \/ LoginDone(r) \/ RefreshDone(r) \/ RestoreDone(r) \/ LateAnswer(r)
              \/ SessionRefused(r) \/ LogoutDone(r)

AuthNext == \/ Refresh \/ Restore \/ Logout \/ Reload
            \/ \E u \in Users : Login(u) \/ Bump(u)
            \/ \E r \in net : Serve(r) \/ Deliver(r) \/ Drop(r)

-----------------------------------------------------------------------------
(* A refresh token is stored for a user that exists, and whatever the page *)
(* holds has been issued.                                                  *)
AuthTypeOK ==
  /\ \A t \in Tokens : tok[t].user \in Users /\ tok[t].sv \in Nat /\ tok[t].chain \in 1..t
  /\ live \subseteq Tokens /\ {cookie, tab.access} \subseteq Tokens \cup {0}
  /\ tab.user \in Users \cup {NoUser}

(* After a logout nothing brings the session back without a login: no late *)
(* refresh, no reload; and once all is quiet the cookie is void.           *)
LoggedOutStays == tab.left => tab.access = 0 /\ (net = {} => cookie \notin live)

(* The access token in memory, the name on the page and the cookie belong  *)
(* to one user, though people share a computer.                            *)
OneUser == tab.access # 0 => /\ tok[tab.access].user = tab.user
                             /\ cookie \in live => tok[cookie].user = tab.user

(* A login is not undone by the answers of the session before it: the      *)
(* cookie is the one that came with the access token, and it is good.      *)
(* A lost answer is the exception.                                         *)
LoginKept == tab.access # 0 /\ net = {} /\ used.drops = 0 => cookie = tab.access /\ cookie \in live

(* Of all tokens that stem from one login at most one can be used.         *)
SingleUse == \A t, s \in live : tok[t].chain = tok[s].chain => t = s

(* A changed password ends the sessions begun under the old one, those     *)
(* that are being refreshed at that moment included.                       *)
RevokedForGood == \A t \in live : tok[t].sv = version[tok[t].user] =>
                                   tok[tok[t].chain].sv = tok[t].sv

(* The browser is in one session at a time: one user's, the one logged in  *)
(* last, and none after a logout; however late answers arrive.             *)
SessionsApart == LoggedOutStays /\ OneUser /\ LoginKept

(* A refresh token is good once, and for nobody after a changed password.  *)
TokensVoid == AuthTypeOK /\ SingleUse /\ RevokedForGood

(* Both, in any order of requests, answers and losses.                     *)
SessionsSound == SessionsApart /\ TokensVoid
=============================================================================
