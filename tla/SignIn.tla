--------------------------------- MODULE SignIn ---------------------------------
(***************************************************************************)
(* Single sign-on to the server (oidc.go) and the role of a request         *)
(* (auth.go): one user with a browser of several tabs, an identity provider *)
(* whose groups change, and a server that keeps nothing but its key: what   *)
(* it knows of logins under way and of sessions is in signed cookies, which *)
(* all tabs share.                                                          *)
(***************************************************************************)
EXTENDS Integers, Sequences, FiniteSets

CONSTANTS Tabs,
          CookieKeys,     \* whether cookie_key is configured: a set of Booleans
          FlowAge,        \* MaxAge of the flow cookie, in ticks
          TokenAge,       \* how long an ID token is valid
          MaxLogins, MaxRestarts, MaxClock     \* bounds

ASSUME SignInAssumption ==
    /\ CookieKeys \subseteq BOOLEAN
    /\ FlowAge \in Nat /\ TokenAge \in Nat
    /\ MaxLogins \in Nat /\ MaxRestarts \in Nat /\ MaxClock \in Nat

VARIABLES
    clock,
    configured, \* cookie_key is set
    signKey,    \* which key the server signs with, by the number of its restarts
    jar,        \* the cookies of the browser: the one of the flow, the one of the session
    tabs,       \* what each tab waits for
    admin,      \* external: whether the provider counts the user among the administrators
    begun,      \* how many logins were begun; each has its number for state and nonce
    issued      \* external: the ID tokens, with the login they are for

signInVars == <<clock, configured, signKey, jar, tabs, admin, begun, issued>>

NoTab == [at |-> "nowhere", login |-> 0, token |-> <<>>]

SignInInit ==
    /\ clock = 0 /\ configured \in CookieKeys /\ signKey = 0
    /\ jar = [flow |-> <<>>, session |-> <<>>]
    /\ tabs = [t \in Tabs |-> NoTab]
    /\ admin \in BOOLEAN
    /\ begun = 0 /\ issued = {}

\* The browser sends a cookie until its time is over; unsign fails on another key's.
Signed(cookie) == cookie # <<>> /\ cookie[1].until > clock /\ cookie[1].key = signKey

\* The redirect to the provider, with a flow cookie that replaces any other.
handleLogin(t) ==
    /\ tabs[t].at = "nowhere" /\ begun < MaxLogins
    /\ begun' = begun + 1
    /\ jar' = [jar EXCEPT !.flow = <<[login |-> begun', key |-> signKey, until |-> clock + FlowAge]>>]
    /\ tabs' = [tabs EXCEPT ![t] = [NoTab EXCEPT !.at = "provider", !.login = begun']]
    /\ UNCHANGED <<clock, configured, signKey, admin, issued>>

\* External: the user authenticates, and the provider redirects back with state and code.
Authenticate(t) ==
    LET token == [login |-> tabs[t].login, admin |-> admin, exp |-> clock + TokenAge]
    IN  /\ tabs[t].at = "provider"
        /\ issued' = issued \cup {token}
        /\ tabs' = [tabs EXCEPT ![t].at = "back", ![t].token = <<token>>]
        /\ UNCHANGED <<clock, configured, signKey, jar, admin, begun>>

Leave(t) == tabs' = [tabs EXCEPT ![t] = NoTab]

\* The flow cookie must be there, be signed with the key and be of this login: of the
\* state the provider sends back, and so of the nonce in the token and of the code's
\* verifier.  The code is exchanged and the token must be valid; the provider may fail.
handleCallback(t) ==
    /\ tabs[t].at = "back"
    /\ \/ /\ Signed(jar.flow) /\ jar.flow[1].login = tabs[t].login
          /\ clock < tabs[t].token[1].exp
          /\ tabs' = [tabs EXCEPT ![t].at = "answer"]
       \/ Leave(t)
    /\ UNCHANGED <<clock, configured, signKey, jar, admin, begun, issued>>

roleFromClaims(token) == IF token.admin THEN "admin" ELSE "viewer"

\* Its answer sets the session cookie and clears the flow cookie, whosever it is by now.
CallbackAnswered(t) ==
    LET token == tabs[t].token[1]
    IN  /\ tabs[t].at = "answer"
        /\ jar' = [flow |-> <<>>,
                   session |-> <<[login |-> token.login, role |-> roleFromClaims(token),
                                  key |-> signKey, until |-> token.exp]>>]
        /\ Leave(t)
        /\ UNCHANGED <<clock, configured, signKey, admin, begun, issued>>

handleLogout ==
    /\ jar.session # <<>>
    /\ jar' = [jar EXCEPT !.session = <<>>]
    /\ UNCHANGED <<clock, configured, signKey, tabs, admin, begun, issued>>

\* Requests under way end; without cookie_key the server comes back with a new key.
RestartServer ==
    /\ signKey < MaxRestarts
    /\ signKey' = IF configured THEN signKey ELSE signKey + 1
    /\ tabs' = [t \in Tabs |-> IF tabs[t].at = "answer" THEN NoTab ELSE tabs[t]]
    /\ UNCHANGED <<clock, configured, jar, admin, begun, issued>>

ChangeGroups ==
    /\ begun > 0 /\ admin' = ~admin
    /\ UNCHANGED <<clock, configured, signKey, jar, tabs, begun, issued>>

TimePasses ==
    /\ clock < MaxClock /\ clock' = clock + 1
    /\ UNCHANGED <<configured, signKey, jar, tabs, admin, begun, issued>>

SignInNext ==
    \/ \E t \in Tabs : handleLogin(t) \/ Authenticate(t) \/ handleCallback(t) \/ CallbackAnswered(t)
    \/ handleLogout \/ RestartServer \/ ChangeGroups \/ TimePasses

-----------------------------------------------------------------------------
\* Mutant: the browser is trusted to drop what has expired.
SessionUnchecked(cookie) ==
    IF cookie # <<>> /\ cookie[1].key = signKey THEN cookie[1].role ELSE "none"

\* The role of the session cookie presented; clients other than a browser may keep one.
sessionFromRequest(cookie) ==
    IF cookie # <<>> /\ cookie[1].key = signKey /\ clock < cookie[1].until THEN cookie[1].role ELSE "none"

\* The session's role or, without a session, that of the static token.
RoleOf(cookie, bearer) ==
    IF sessionFromRequest(cookie) # "none" THEN sessionFromRequest(cookie) ELSE bearer

\* How authMiddleware answers a request for what is protected.
authMiddleware(cookie, bearer, reads) ==
    CASE RoleOf(cookie, bearer) = "admin" -> "served"
      [] RoleOf(cookie, bearer) = "viewer" -> IF reads THEN "served" ELSE "forbidden"
      [] OTHER -> "unauthorized"

-----------------------------------------------------------------------------
\* What a browser may do follows from the provider's word at its last completed login:
\* a session is that of a token that was issued for a login begun in this browser, each
\* of which completes at most once; while the token is valid and the server has kept
\* its key it is served by the role it gives, then as one who has no session; and of
\* logins that overlap only the one begun last can still be completed.
ServedAsGranted ==
    LET session == jar.session
        granted(bearer) ==
            IF session = <<>> THEN bearer
            ELSE LET token == CHOOSE k \in issued : k.login = session[1].login
                 IN  IF clock < token.exp /\ (configured \/ session[1].key = signKey)
                     THEN IF token.admin THEN "admin" ELSE "viewer"
                     ELSE bearer
    IN  /\ session # <<>> => /\ \E k \in issued : k.login = session[1].login
                             /\ \A t \in Tabs : tabs[t].login # session[1].login
        /\ \A bearer \in {"admin", "viewer", "none"}, reads \in BOOLEAN :
            authMiddleware(session, bearer, reads) =
                CASE granted(bearer) = "admin" -> "served"
                  [] granted(bearer) = "viewer" -> IF reads THEN "served" ELSE "forbidden"
                  [] granted(bearer) = "none" -> "unauthorized"
        /\ jar.flow # <<>> => jar.flow[1].login = begun

=================================================================================
