------------------------------ MODULE Sessions ------------------------------
(***************************************************************************)
(* The session of one user: tokens are issued, rotated and revoked by      *)
(* services/auth_service.py behind api/v1/auth.py, looked at by            *)
(* api/deps.py, and kept by lib/auth-api.ts, the access token in the       *)
(* memory of a tab and the refresh token in the localStorage of all tabs.  *)
(* A pair of tokens is one number; 0 is no token.  A refresh is read and   *)
(* committed in two steps, and lives on the server when its tab has gone.  *)
(***************************************************************************)
EXTENDS Naturals, FiniteSets

CONSTANTS
  Tabs,
  Fetches,   \* authorizedFetch calls
  MaxPairs,  \* bound: pairs of tokens issued
  MaxTroubles \* bound: reloads, lost or failed requests, changes to the account

ASSUME SessionAssumption == MaxPairs \in Nat /\ MaxTroubles \in Nat

VARIABLES
  issued,    \* the last pair
  fresh,     \* pairs whose access token has not expired
  valid,     \* committed rows of refresh_tokens that are not revoked
  chain,     \* the pair of the login a pair descends from
  enabled,   \* users.is_active
  stored,    \* localStorage: ca_refresh
  access,    \* per tab: accessToken
  refresh,   \* per tab: the request behind refreshPromise
  orphan,    \* a refresh whose tab no longer waits for it
  fetches,   \* authorizedFetch calls
  leaving,   \* POST /auth/logout under way: its token, and whether it met a refresh
  over,      \* logins that were logged out of, no refresh being lost or under way
  troubles,  \* troubles so far
  disturbed  \* what else has touched the session of this login

book == <<issued, fresh, valid, chain, enabled>>
sessionVars == <<issued, fresh, valid, chain, enabled, stored, access, refresh, orphan, fetches, leaving, over, troubles, disturbed>>

NoRefresh == [at |-> "none", token |-> 0]
NoFetch == [at |-> "idle", tab |-> 0, token |-> 0, again |-> FALSE]

Disturbances == {"refresh", "leave", "account"}
NoLogout == [at |-> "none", token |-> 0, login |-> 0, met |-> FALSE]

Refreshing == \E t \in Tabs : refresh[t] # NoRefresh
Meets == Refreshing \/ orphan # NoRefresh

SessionInit ==
  /\ issued = 0 /\ fresh = {} /\ valid = {} /\ chain = [p \in 1..MaxPairs |-> 0] /\ enabled = TRUE
  /\ stored = 0 /\ access = [t \in Tabs |-> 0]
  /\ refresh = [t \in Tabs |-> NoRefresh] /\ orphan = NoRefresh
  /\ fetches = [c \in Fetches |-> NoFetch]
  /\ leaving = NoLogout /\ over = {} /\ troubles = 0 /\ disturbed = {}

Trouble == troubles < MaxTroubles /\ troubles' = troubles + 1

\* _issue_token_pair.
Issue(root) ==
  /\ issued < MaxPairs
  /\ issued' = issued + 1
  /\ fresh' = fresh \cup {issued + 1}
  /\ chain' = [chain EXCEPT ![issued + 1] = IF root = 0 THEN issued + 1 ELSE root]

-----------------------------------------------------------------------------
(* The tab. *)

\* The login form: the session of before is gone, an old refresh may not be.
Login(t) ==
  /\ stored = 0 /\ refresh[t] = NoRefresh /\ enabled /\ leaving = NoLogout
  /\ Issue(0) /\ valid' = valid \cup {issued'}
  /\ stored' = issued' /\ access' = [access EXCEPT ![t] = issued']
  /\ disturbed' = IF Meets THEN {"refresh"} ELSE {}
  /\ UNCHANGED <<enabled, refresh, orphan, fetches, leaving, over, troubles>>

\* A mutated form of Joined: every caller starts a refresh of its own, and the page keeps
\* the last promise.
JoinedNever(t) == FALSE
\* getAccessToken: concurrent callers wait for the same refresh.
Joined(t) == refresh[t] # NoRefresh

\* A caller without an access token: it joins the refresh, starts one, or has no session.
\* Another tab's refresh with the same token is a disturbance.
Ask(c, t, again) ==
  IF Joined(t)
  THEN /\ fetches' = [fetches EXCEPT ![c] = [at |-> "waiting", tab |-> t, token |-> 0, again |-> again]]
       /\ UNCHANGED <<refresh, orphan, disturbed>>
  ELSE IF stored = 0
  THEN /\ fetches' = [fetches EXCEPT ![c] = NoFetch]
       /\ UNCHANGED <<refresh, orphan, disturbed>>
  ELSE /\ fetches' = [fetches EXCEPT ![c] = [at |-> "waiting", tab |-> t, token |-> 0, again |-> again]]
       /\ refresh' = [refresh EXCEPT ![t] = [at |-> "sent", token |-> stored]]
       /\ orphan' = IF refresh[t] # NoRefresh THEN refresh[t] ELSE orphan
       /\ disturbed' = disturbed \cup {d \in {"refresh"} : orphan # NoRefresh \/ \E u \in Tabs \ {t} : refresh[u] # NoRefresh}

\* authorizedFetch.
Fetch(c, t) ==
  /\ fetches[c] = NoFetch
  /\ IF access[t] # 0
     THEN /\ fetches' = [fetches EXCEPT ![c] = [at |-> "sent", tab |-> t, token |-> access[t], again |-> FALSE]]
          /\ UNCHANGED <<refresh, orphan, disturbed>>
     ELSE Ask(c, t, FALSE)
  /\ UNCHANGED <<book, stored, access, leaving, over, troubles>>

\* A 401 drops whatever access token the tab has by now, and asks for another, once.
Refused(c) ==
  LET t == fetches[c].tab IN
  /\ fetches[c].at = "refused"
  /\ access' = IF fetches[c].again THEN access ELSE [access EXCEPT ![t] = 0]
  /\ IF fetches[c].again
     THEN fetches' = [fetches EXCEPT ![c] = NoFetch] /\ UNCHANGED <<refresh, orphan, disturbed>>
     ELSE Ask(c, t, TRUE)
  /\ UNCHANGED <<book, stored, leaving, over, troubles>>

Waiting(t) == {c \in Fetches : fetches[c].at = "waiting" /\ fetches[c].tab = t}

\* The refresh is over: its callers send their requests, or have no session.
Resume(t, token) ==
  /\ refresh' = [refresh EXCEPT ![t] = NoRefresh]
  /\ fetches' = [c \in Fetches |->
       IF c \notin Waiting(t) THEN fetches[c]
       ELSE IF token = 0 THEN NoFetch ELSE [fetches[c] EXCEPT !.at = "sent", !.token = token]]
  /\ access' = [access EXCEPT ![t] = token]
  /\ stored' = token

\* setSession on a pair, clearSession on anything else.
RefreshAnswered(t) ==
  /\ refresh[t].at \in {"granted", "refused"}
  /\ Resume(t, IF refresh[t].at = "granted" THEN refresh[t].token ELSE 0)
  /\ UNCHANGED <<book, orphan, leaving, over, disturbed, troubles>>

\* No network, or no answer in time; the server may go on.
RefreshLost(t) ==
  /\ Trouble
  /\ refresh[t] # NoRefresh
  /\ Resume(t, 0)
  /\ orphan' \in {orphan} \cup {r \in {refresh[t]} : orphan = NoRefresh /\ r.at \in {"sent", "read"}}
  /\ disturbed' = disturbed \cup {"refresh"}
  /\ UNCHANGED <<book, leaving, over>>

\* A reload forgets the access token and whatever the page was waiting for.
Reload(t) ==
  /\ Trouble
  /\ refresh[t].at \in {"sent", "read"} => orphan = NoRefresh
  /\ orphan' = IF refresh[t].at \in {"sent", "read"} THEN refresh[t] ELSE orphan
  /\ disturbed' = disturbed \cup {d \in {"refresh"} : refresh[t] # NoRefresh}
  /\ access' = [access EXCEPT ![t] = 0]
  /\ refresh' = [refresh EXCEPT ![t] = NoRefresh]
  /\ fetches' = [c \in Fetches |-> IF fetches[c].tab = t THEN NoFetch ELSE fetches[c]]
  /\ UNCHANGED <<book, stored, leaving, over>>

\* A mutated form of LogoutToken: the session is cleared before its token is read.
LogoutTokenCleared == 0
LogoutToken == stored

Logout(t) ==
  /\ stored # 0 /\ leaving = NoLogout
  /\ leaving' = [at |-> "posted", token |-> LogoutToken, login |-> chain[stored], met |-> Meets \/ "refresh" \in disturbed]
  /\ stored' = 0 /\ access' = [access EXCEPT ![t] = 0]
  /\ disturbed' = disturbed \cup {"leave"}
  /\ UNCHANGED <<book, refresh, orphan, fetches, over, troubles>>

\* restoreSession clears the session when /auth/me fails for any reason.
RestoreFails(c) ==
  /\ Trouble
  /\ fetches[c].at = "sent"
  /\ fetches' = [fetches EXCEPT ![c] = NoFetch]
  /\ access' = [access EXCEPT ![fetches[c].tab] = 0] /\ stored' = 0
  /\ disturbed' = disturbed \cup {"leave"}
  /\ UNCHANGED <<book, refresh, orphan, leaving, over>>

-----------------------------------------------------------------------------
(* The server. *)

\* get_current_user; the blacklist stays empty, logout sends no access token.
Serve(c) ==
  /\ fetches[c].at = "sent"
  /\ fetches' = [fetches EXCEPT ![c] =
       IF @.token \in fresh /\ enabled THEN NoFetch ELSE [@ EXCEPT !.at = "refused"]]
  /\ UNCHANGED <<book, stored, access, refresh, orphan, leaving, over, disturbed, troubles>>

\* refresh_access_token reads the row and the user ...
Reads(r) == [r EXCEPT !.at = IF r.token \in valid /\ enabled THEN "read" ELSE "refused"]
ReadRefresh(t) ==
  /\ refresh[t].at = "sent"
  /\ refresh' = [refresh EXCEPT ![t] = Reads(refresh[t])]
  /\ UNCHANGED <<book, stored, access, orphan, fetches, leaving, over, disturbed, troubles>>
ReadOrphan ==
  /\ orphan.at = "sent"
  /\ orphan' = IF Reads(orphan).at = "read" THEN Reads(orphan) ELSE NoRefresh
  /\ UNCHANGED <<book, stored, access, refresh, fetches, leaving, over, disturbed, troubles>>

\* ... revokes the row, whatever became of it since, and commits a new pair.
Rotate(token) == Issue(chain[token]) /\ valid' = (valid \ {token}) \cup {issued'}
CommitRefresh(t) ==
  /\ refresh[t].at = "read"
  /\ Rotate(refresh[t].token)
  /\ refresh' = [refresh EXCEPT ![t] = [at |-> "granted", token |-> issued']]
  /\ UNCHANGED <<enabled, stored, access, orphan, fetches, leaving, over, disturbed, troubles>>
CommitOrphan ==
  /\ orphan.at = "read"
  /\ Rotate(orphan.token)
  /\ orphan' = NoRefresh
  /\ UNCHANGED <<enabled, stored, access, refresh, fetches, leaving, over, disturbed, troubles>>

\* logout_user revokes the token it is sent; the request may also be lost.
CommitLogout ==
  /\ leaving.at = "posted"
  /\ valid' = valid \ {leaving.token}
  /\ over' = IF leaving.met THEN over ELSE over \cup {leaving.login}
  /\ leaving' = NoLogout
  /\ UNCHANGED <<issued, fresh, chain, enabled, stored, access, refresh, orphan, fetches, disturbed, troubles>>
LoseLogout ==
  /\ Trouble
  /\ leaving.at = "posted" /\ leaving' = NoLogout
  /\ UNCHANGED <<book, stored, access, refresh, orphan, fetches, over, disturbed>>

Expire ==
  /\ \E p \in fresh : fresh' = fresh \ {p}
  /\ UNCHANGED <<issued, valid, chain, enabled, stored, access, refresh, orphan, fetches, leaving, over, disturbed, troubles>>

\* set_user_active of services/admin_service.py revokes nothing ...
SetActive ==
  /\ Trouble
  /\ enabled' = ~enabled /\ disturbed' = disturbed \cup {"account"}
  /\ UNCHANGED <<issued, fresh, valid, chain, stored, access, refresh, orphan, fetches, leaving, over>>
\* ... reset_password, and update_user with a password, revoke every token there is.
ResetPassword ==
  /\ Trouble
  /\ valid' = {} /\ disturbed' = disturbed \cup {"account"}
  /\ UNCHANGED <<issued, fresh, chain, enabled, stored, access, refresh, orphan, fetches, leaving, over>>

SessionNext ==
  \/ \E t \in Tabs : \/ Login(t) \/ Logout(t) \/ Reload(t)
                     \/ RefreshAnswered(t) \/ RefreshLost(t) \/ ReadRefresh(t) \/ CommitRefresh(t)
                     \/ \E c \in Fetches : Fetch(c, t)
  \/ \E c \in Fetches : Refused(c) \/ RestoreFails(c) \/ Serve(c)
  \/ ReadOrphan \/ CommitOrphan \/ CommitLogout \/ LoseLogout
  \/ Expire \/ SetActive \/ ResetPassword

SessionSpec == SessionInit /\ [][SessionNext]_sessionVars

-----------------------------------------------------------------------------
(* Properties. *)

\* Nobody has to sign in again because an access token expired, however many requests
\* of a page meet the expiry and in whichever order they are refused: unless a refresh
\* was lost, a tab was reloaded or another tab refreshed during it, or the user logged
\* out, was disabled or got a new password, the browser holds a token the server takes.
NobodyIsThrownOut ==
  disturbed = {} /\ issued # 0 =>
    \/ stored \in valid
    \/ \E t \in Tabs : refresh[t].at = "granted" /\ refresh[t].token \in valid /\ stored # 0

\* A logout ends the login: once it has reached the server nothing issued since that
\* login, through any number of rotations, is valid; unless a refresh of the login was
\* under way, was lost or lost its page, whose pair nobody holds and no logout revokes.
LogoutEnds == \A p \in valid : chain[p] \notin over
=============================================================================
