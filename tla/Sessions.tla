------------------------------ MODULE Sessions ------------------------------
(***************************************************************************)
(* Logging in and staying logged in: the admin password, the limit on      *)
(* failed logins of one client address, the refresh sessions the server    *)
(* keeps in memory, and the two cookies of one browser whose tabs send     *)
(* requests at the same time.  There is no clock: a session, an access     *)
(* token or a failed attempt may grow old at any moment.                   *)
(***************************************************************************)
EXTENDS Naturals

CONSTANTS
    Jtis,        \* identifiers generateJTI draws; each is drawn once
    Requests,    \* requests in progress at the same time
    Passwords,
    Limit,       \* failed attempts a minute after which login refuses (5)
    None

ASSUME SessAssumption == None \notin Jtis /\ None \notin Passwords /\ Limit \in Nat

VARIABLES
    sess,        \* refreshStore.sessions: "live", "expired" but still there
    root,        \* history: the login a session goes back to
    hash,        \* the setting admin_password_hash, by the password it is of
    attempts,    \* loginAttempts of the address, not older than a minute
    refresh,     \* the browser's refresh_token cookie
    access,      \* has it an access_token cookie that has not expired?
    req          \* the requests being served

sessVars == <<sess, root, hash, attempts, refresh, access, req>>

\* A request at a step, with the refresh token it is about.
At(p, j) == [at |-> p, tok |-> j]
Idle == At("idle", None)
Held(j) == sess[j] \in {"live", "expired"}
Unused == {j \in Jtis : sess[j] = "unused"}

\* generateJTI.  Bound: one is drawn only while there is an unused one; after
\* that only the path without randomness is left.
Fresh == CHOOSE j \in Jtis : sess[j] = "unused"

SessTypeOK ==
    /\ sess \in [Jtis -> {"unused", "live", "expired", "gone"}]
    /\ root \in [Jtis -> Jtis \cup {None}]
    /\ hash \in Passwords \cup {None}
    /\ attempts \in Nat
    /\ refresh \in Jtis \cup {None}
    /\ access \in BOOLEAN
    /\ req \in [Requests ->
           [at : {"idle", "compare", "record", "reset", "hash", "issue", "rotate",
                  "sign", "reply", "change"},
            tok : Jtis \cup {None}]]

SessInit ==
    /\ sess = [j \in Jtis |-> "unused"]
    /\ root = [j \in Jtis |-> None]
    /\ hash = None
    /\ attempts = 0
    /\ refresh = None
    /\ access = FALSE
    /\ req = [r \in Requests |-> Idle]

Goto(r, p) == req' = [req EXCEPT ![r] = At(p, req[r].tok)]
Finish(r) == req' = [req EXCEPT ![r] = Idle]
Become(J, s) == sess' = [j \in Jtis |-> IF j \in J THEN s ELSE sess[j]]

-----------------------------------------------------------------------------
(* POST /auth/login *)

\* The limiter's first look; a blocked request changes nothing.
LoginCheck(r) ==
    /\ req[r].at = "idle"
    /\ attempts < Limit
    /\ Goto(r, "compare")
    /\ UNCHANGED <<sess, root, hash, attempts, refresh, access>>

\* The hash is read and compared with the password pw of the request; before
\* the first password nothing is counted.
LoginCompare(r, pw) ==
    /\ req[r].at = "compare"
    /\ \/ hash = None /\ Finish(r)
       \/ hash \notin {None, pw} /\ Goto(r, "record")
       \/ hash = pw /\ Goto(r, "reset")
    /\ UNCHANGED <<sess, root, hash, attempts, refresh, access>>

LoginRecord(r) ==
    /\ req[r].at = "record"
    /\ attempts' = attempts + 1
    /\ Finish(r)
    /\ UNCHANGED <<sess, root, hash, refresh, access>>

LoginReset(r) ==
    /\ req[r].at = "reset"
    /\ attempts' = 0
    /\ Goto(r, "issue")
    /\ UNCHANGED <<sess, root, hash, refresh, access>>

-----------------------------------------------------------------------------
(* POST /auth/bootstrap *)

Bootstrap(r) ==
    /\ req[r].at = "idle"
    /\ hash = None
    /\ Goto(r, "hash")
    /\ UNCHANGED <<sess, root, hash, attempts, refresh, access>>

\* The hash is written, whatever is there by now.
BootstrapSet(r, pw) ==
    /\ req[r].at = "hash"
    /\ hash' = pw
    /\ Goto(r, "issue")
    /\ UNCHANGED <<sess, root, attempts, refresh, access>>

-----------------------------------------------------------------------------
(* Tokens *)

\* Store.CreateSession: a session of a login of its own.
Enter(j) == Become({j}, "live") /\ root' = [root EXCEPT ![j] = j]

\* issuePairForUser: CreateSession, or no randomness.
IssuePair(r) ==
    /\ req[r].at = "issue"
    /\ \/ /\ Unused # {} /\ Enter(Fresh)
          /\ req' = [req EXCEPT ![r] = At("sign", Fresh)]
       \/ Finish(r) /\ UNCHANGED <<sess, root>>
    /\ UNCHANGED <<hash, attempts, refresh, access>>

\* POST /auth/refresh takes the cookie the browser has when it is sent.
Refresh(r) ==
    /\ req[r].at = "idle"
    /\ refresh # None
    /\ req' = [req EXCEPT ![r] = At("rotate", refresh)]
    /\ UNCHANGED <<sess, root, hash, attempts, refresh, access>>

\* Mutation of Rotate: the old session is left to expire.
RotateKeeps(r) ==
    LET old == req[r].tok IN
    /\ req[r].at = "rotate" /\ sess[old] = "live" /\ Unused # {}
    /\ sess' = [sess EXCEPT ![Fresh] = "live"]
    /\ root' = [root EXCEPT ![Fresh] = root[old]]
    /\ req' = [req EXCEPT ![r] = At("sign", Fresh)]
    /\ UNCHANGED <<hash, attempts, refresh, access>>

\* Store.Rotate under its lock, the session not expired: the old one is
\* deleted and a new one entered, or none if there is no randomness.
Rotate(r) ==
    LET old == req[r].tok IN
    /\ req[r].at = "rotate" /\ sess[old] = "live"
    /\ \/ /\ Unused # {}
          /\ sess' = [sess EXCEPT ![old] = "gone", ![Fresh] = "live"]
          /\ root' = [root EXCEPT ![Fresh] = root[old]]
          /\ req' = [req EXCEPT ![r] = At("sign", Fresh)]
       \/ /\ Become({old}, "gone")
          /\ Finish(r)
          /\ UNCHANGED root
    /\ UNCHANGED <<hash, attempts, refresh, access>>

\* Mutation of RotateRefused: a session that is not found is made again.
RotateRefusedRevives(r) ==
    LET old == req[r].tok IN
    /\ req[r].at = "rotate" /\ sess[old] # "live" /\ Unused # {}
    /\ sess' = [sess EXCEPT ![old] = "gone", ![Fresh] = "live"]
    /\ root' = [root EXCEPT ![Fresh] = root[old]]
    /\ req' = [req EXCEPT ![r] = At("sign", Fresh)]
    /\ UNCHANGED <<hash, attempts, refresh, access>>

\* The token's own expiry is refused before the store is asked; an expired
\* session is deleted; one that is gone is not found.  All three are a 401,
\* which leaves the cookies alone.
RotateRefused(r) ==
    LET old == req[r].tok IN
    /\ req[r].at = "rotate" /\ sess[old] # "live"
    /\ sess' \in {sess, [sess EXCEPT ![old] = "gone"]}
    /\ Finish(r)
    /\ UNCHANGED <<root, hash, attempts, refresh, access>>

Sign(r) ==
    /\ req[r].at = "sign"
    /\ Goto(r, "reply")
    /\ UNCHANGED <<sess, root, hash, attempts, refresh, access>>

SignFails(r) ==
    /\ req[r].at = "sign"
    /\ Become({req[r].tok}, "gone")
    /\ Finish(r)
    /\ UNCHANGED <<root, hash, attempts, refresh, access>>

SetTokenCookies(j) == refresh' = j /\ access' = TRUE
ClearTokenCookies == refresh' = None /\ access' = FALSE

\* The answer of a login, a bootstrap or a refresh reaches the browser.
Reply(r) ==
    /\ req[r].at = "reply"
    /\ SetTokenCookies(req[r].tok)
    /\ Finish(r)
    /\ UNCHANGED <<sess, root, hash, attempts>>

ReplyLost(r) ==
    /\ req[r].at = "reply"
    /\ Finish(r)
    /\ UNCHANGED <<sess, root, hash, attempts, refresh, access>>

\* Mutation of Logout: the cookie is emptied, not deleted.
LogoutEmpties(r, rt) ==
    /\ req[r].at = "idle"
    /\ rt \in {None, refresh}
    /\ Become({rt} \cap Jtis, "gone")
    /\ refresh' = ""
    /\ access' = FALSE
    /\ UNCHANGED <<root, hash, attempts, req>>

\* RevokeRefreshToken: a missing token is no error.
RevokeRefreshToken(rt) == Become({rt} \cap Jtis, "gone")

\* POST /auth/logout.  The refresh cookie's Path is the refresh endpoint, so a
\* browser does not send it here (rt is None) and nothing is revoked; a client
\* that sends it has its session revoked.  The answer clears both cookies.
Logout(r, rt) ==
    /\ req[r].at = "idle"
    /\ rt \in {None, refresh}
    /\ RevokeRefreshToken(rt)
    /\ ClearTokenCookies
    /\ UNCHANGED <<root, hash, attempts, req>>

-----------------------------------------------------------------------------
(* PUT /settings/password, behind the access token *)

\* The JWT middleware: an access token that is there and has not expired.
Authorised == access

\* The old password was right when it was compared.
ChangePassword(r) ==
    /\ req[r].at = "idle" /\ Authorised
    /\ hash # None
    /\ Goto(r, "change")
    /\ UNCHANGED <<sess, root, hash, attempts, refresh, access>>

ChangePasswordSet(r, pw) ==
    /\ req[r].at = "change"
    /\ hash' = pw
    /\ Finish(r)
    /\ UNCHANGED <<sess, root, attempts, refresh, access>>

-----------------------------------------------------------------------------
(* Time and the process *)

SessionAges(j) ==
    /\ sess[j] = "live"
    /\ Become({j}, "expired")
    /\ UNCHANGED <<root, hash, attempts, refresh, access, req>>

AccessExpires ==
    /\ access
    /\ access' = FALSE
    /\ UNCHANGED <<sess, root, hash, attempts, refresh, req>>

CookieExpires ==
    /\ refresh # None /\ sess[refresh] \in {"expired", "gone"}
    /\ refresh' = None
    /\ UNCHANGED <<sess, root, hash, attempts, access, req>>

AttemptAges ==
    /\ attempts > 0
    /\ attempts' = attempts - 1
    /\ UNCHANGED <<sess, root, hash, refresh, access, req>>

\* cleanupLoop, every five minutes.
PurgeExpired ==
    /\ \E j \in Jtis : sess[j] = "expired"
    /\ Become({j \in Jtis : sess[j] = "expired"}, "gone")
    /\ UNCHANGED <<root, hash, attempts, refresh, access, req>>

\* The process restarts: sessions and attempts were in memory, the password is
\* in the database, the cookies are in the browser.
SessRestart ==
    /\ Become(Jtis \ Unused, "gone")
    /\ attempts' = 0
    /\ req' = [r \in Requests |-> Idle]
    /\ UNCHANGED <<root, hash, refresh, access>>

SessNext ==
    \/ \E r \in Requests :
        \/ LoginCheck(r) \/ LoginRecord(r) \/ LoginReset(r) \/ Bootstrap(r)
        \/ \E pw \in Passwords :
            LoginCompare(r, pw) \/ BootstrapSet(r, pw) \/ ChangePasswordSet(r, pw)
        \/ IssuePair(r)
        \/ Refresh(r) \/ Rotate(r) \/ RotateRefused(r)
        \/ Sign(r) \/ SignFails(r) \/ Reply(r) \/ ReplyLost(r)
        \/ \E rt \in Jtis \cup {None} : Logout(r, rt)
        \/ ChangePassword(r)
    \/ \E j \in Jtis : SessionAges(j)
    \/ AccessExpires \/ CookieExpires \/ AttemptAges
    \/ PurgeExpired \/ SessRestart

SessSpec == SessInit /\ [][SessNext]_sessVars

-----------------------------------------------------------------------------
(* Properties *)

\* Store.Rotate's comment: no window where both tokens are valid.  Whatever
\* the order of refreshes, replays, failures and expiries, a login never has
\* two sessions in the store.
LoginHasOneSession ==
    \A i, j \in Jtis : Held(i) /\ Held(j) /\ root[i] = root[j] => i = j

\* The session of the login that began with token c, if it has one.
CurrentOf(c) ==
    IF \E j \in Jtis : Held(j) /\ root[j] = c
    THEN CHOOSE j \in Jtis : Held(j) /\ root[j] = c
    ELSE None

Chain == INSTANCE TokenChain WITH
    Tokens <- Jtis,
    NoToken <- None,
    issued <- Jtis \ Unused,
    current <- [c \in Jtis |-> CurrentOf(c)]

\* The store implements chains of tokens (TokenChain): a token is good once,
\* each login has one chain, and no chain revives.
SessionsAreChains == Chain!ChainSpec
=============================================================================
