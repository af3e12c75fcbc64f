------------------------------ MODULE TokenLogin ------------------------------
(***************************************************************************)
(* Client.OpenSession and Session.Close (internal/p11/session.go): the      *)
(* login of a PKCS#11 token belongs to the application, not to a session,   *)
(* so one Client counts its authenticated sessions per slot and logs the    *)
(* token out with the last of them.  Sessions are opened and closed by      *)
(* goroutines of their own: the HTTP handlers, the scheduled scans and the  *)
(* workers of a benchmark.                                                  *)
(*                                                                          *)
(* C_OpenSession comes before the lock and C_CloseSession after it, and the *)
(* token has rules of its own: it logs out when the last session on it      *)
(* closes, and it may drop all sessions at any time (removed, restarted,    *)
(* failed over).  Handles are never reused.                                 *)
(***************************************************************************)
EXTENDS Integers, FiniteSets

CONSTANTS Slots,       \* slots of the module
          Sessions,    \* activations of OpenSession ... Close
          NoOne        \* nobody holds Client.mu

ASSUME SessionsAssumption == IsFiniteSet(Sessions) /\ NoOne \notin Sessions

VARIABLES
    at,         \* where each activation is
    slot,       \* the slot it works on
    pin,        \* whether it was given a PIN
    mutex,      \* Client.mu: its holder, or NoOne
    logins,     \* Client.logins; a slot without an entry counts 0
    open,       \* sessions the token knows
    loggedIn,   \* slots whose token is logged in
    upset       \* history: slots where a C_Logout did nothing or sessions were dropped

vars == <<at, slot, pin, mutex, logins, open, loggedIn, upset>>
client == <<slot, pin, logins>>
token == <<open, loggedIn, upset>>

Places == {"idle",                                    \* no session
           "lock", "login", "count", "refuse",        \* OpenSession
           "using",                                   \* opened; the caller works
           "lockClose", "release", "logout",          \* Close
           "closeSession"}                            \* C_CloseSession
Locked == {"login", "count", "refuse", "release", "logout"}

\* Activations that count in Client.logins: s.loginRef, until it is released.
Holds(s) == pin[s] /\ at[s] \in {"using", "lockClose", "release"}
Holders(sl) == {s \in Sessions : slot[s] = sl /\ Holds(s)}

TypeOK ==
    /\ at \in [Sessions -> Places]
    /\ slot \in [Sessions -> Slots]
    /\ pin \in [Sessions -> BOOLEAN]
    /\ mutex \in Sessions \cup {NoOne}
    /\ logins \in [Slots -> Nat]
    /\ open \subseteq Sessions
    /\ loggedIn \subseteq Slots
    /\ upset \subseteq Slots

Init ==
    /\ at = [s \in Sessions |-> "idle"]
    /\ slot \in [Sessions -> Slots]
    /\ pin = [s \in Sessions |-> FALSE]
    /\ mutex = NoOne
    /\ logins = [sl \in Slots |-> 0]
    /\ open = {} /\ loggedIn = {} /\ upset = {}

Goto(s, place) == at' = [at EXCEPT ![s] = place]
Unlock == mutex' = NoOne

\* C_OpenSession succeeds; without a PIN there is nothing to log in.
OpenSession(s, sl, p) ==
    /\ at[s] = "idle"
    /\ slot' = [slot EXCEPT ![s] = sl]
    /\ pin' = [pin EXCEPT ![s] = p]
    /\ open' = open \cup {s}
    /\ Goto(s, IF p THEN "lock" ELSE "using")
    /\ UNCHANGED <<mutex, logins, loggedIn, upset>>

\* c.mu.Lock()
LockToLogin(s) ==
    /\ at[s] = "lock" /\ mutex = NoOne
    /\ mutex' = s /\ Goto(s, "login")
    /\ UNCHANGED <<client, token>>

\* C_Login on a session the token still knows: done, or already done on another
\* session.  Any other answer is a failure: a wrong PIN, an error of the token.
Login(s) ==
    /\ at[s] = "login"
    /\ \/ s \in open /\ loggedIn' = loggedIn \cup {slot[s]} /\ Goto(s, "count")
       \/ UNCHANGED loggedIn /\ Goto(s, "refuse")
    /\ UNCHANGED <<client, mutex, open, upset>>

\* c.logins[slotID]++; s.loginRef = true; c.mu.Unlock()
Count(s) ==
    /\ at[s] = "count"
    /\ logins' = [logins EXCEPT ![slot[s]] = @ + 1]
    /\ Goto(s, "using") /\ Unlock
    /\ UNCHANGED <<slot, pin, token>>

\* Mutant: a failed login returns with the lock.
RefuseKeepsLock(s) ==
    /\ at[s] = "refuse"
    /\ Goto(s, "closeSession")
    /\ UNCHANGED <<client, mutex, token>>

\* A failed login unlocks and closes the session; the caller gets the error.
Refuse(s) ==
    /\ at[s] = "refuse"
    /\ Goto(s, "closeSession") /\ Unlock
    /\ UNCHANGED <<client, token>>

\* The caller is done with the session.
Close(s) ==
    /\ at[s] = "using"
    /\ Goto(s, IF pin[s] THEN "lockClose" ELSE "closeSession")
    /\ UNCHANGED <<client, mutex, token>>

\* s.client.mu.Lock()
LockToClose(s) ==
    /\ at[s] = "lockClose" /\ mutex = NoOne
    /\ mutex' = s /\ Goto(s, "release")
    /\ UNCHANGED <<client, token>>

\* Mutant: the token is logged out with whichever session closes first.
ReleaseLogsOut(s) ==
    /\ at[s] = "release"
    /\ logins' = [logins EXCEPT ![slot[s]] = 0]
    /\ Goto(s, "logout") /\ UNCHANGED mutex
    /\ UNCHANGED <<slot, pin, token>>

\* The reference is given back; only the last one logs the token out, still
\* under the lock.
Release(s) ==
    LET left == logins[slot[s]] - 1 IN
    /\ at[s] = "release"
    /\ logins' = [logins EXCEPT ![slot[s]] = IF left <= 0 THEN 0 ELSE left]
    /\ IF left <= 0
       THEN Goto(s, "logout") /\ UNCHANGED mutex
       ELSE Goto(s, "closeSession") /\ Unlock
    /\ UNCHANGED <<slot, pin, token>>

\* C_Logout, whose error is ignored: a session the token has dropped cannot
\* log it out.
Logout(s) ==
    /\ at[s] = "logout"
    /\ \/ s \in open /\ loggedIn' = loggedIn \ {slot[s]} /\ UNCHANGED upset
       \/ UNCHANGED loggedIn /\ upset' = upset \cup {slot[s]}
    /\ Goto(s, "closeSession") /\ Unlock
    /\ UNCHANGED <<client, open>>

\* The sessions that remain on slot sl once those in gone are closed; with none
\* the token logs out by itself.
Remain(sl, gone) == {s \in open \ gone : slot[s] = sl}
Closed(gone, sl) ==
    /\ open' = open \ gone
    /\ loggedIn' = IF Remain(sl, gone) = {} THEN loggedIn \ {sl} ELSE loggedIn

\* C_CloseSession, whose error is ignored too.
CloseSession(s) ==
    /\ at[s] = "closeSession"
    /\ Closed({s}, slot[s])
    /\ upset' = IF Remain(slot[s], {s}) = {} THEN upset \ {slot[s]} ELSE upset
    /\ Goto(s, "idle")
    /\ UNCHANGED <<client, mutex>>

\* The token drops every session, and with them its login.
TokenLost(sl) ==
    LET dropped == {s \in open : slot[s] = sl} IN
    /\ dropped # {}
    /\ Closed(dropped, sl)
    /\ upset' = upset \cup {sl}
    /\ UNCHANGED <<at, client, mutex>>

Lock(s) == LockToLogin(s) \/ LockToClose(s)
Work(s) == \/ Login(s) \/ Count(s) \/ Refuse(s) \/ Release(s) \/ Logout(s)
           \/ CloseSession(s)

Next ==
    \/ \E s \in Sessions : Lock(s) \/ Work(s) \/ Close(s)
    \/ \E s \in Sessions, sl \in Slots, p \in BOOLEAN : OpenSession(s, sl, p)
    \/ \E sl \in Slots : TokenLost(sl)

Spec == Init /\ [][Next]_vars

\* Calls of the library return; a goroutine that waits for the mutex gets it (a
\* sync.Mutex in starvation mode is handed to the one that has waited longest).
FairSpec == Spec /\ \A s \in Sessions : WF_vars(Work(s)) /\ SF_vars(Lock(s))
--------------------------------------------------------------------------------
\* A session that was opened with a PIN stays logged in until its own Close,
\* whoever else opens, fails to log in or closes meanwhile, and however often the
\* token dropped its sessions before this one was opened.
HoldersLoggedIn == \A s \in Sessions :
    Holds(s) /\ s \in open => slot[s] \in loggedIn

\* logins counts the sessions that rely on the login, those the token has
\* dropped included.
CountsHolders == \A sl \in Slots : logins[sl] = Cardinality(Holders(sl))

\* Somebody is between the token's login and its count, or between the count
\* that reached zero and the logout.
Between(sl) == \E s \in Sessions : slot[s] = sl /\ at[s] \in {"count", "logout"}

\* When the last authenticated session has closed, the token is logged out,
\* unless a C_Logout failed or the token dropped sessions and one of a later
\* date is still open.
LoggedOutAtEnd == \A sl \in Slots :
    sl \in loggedIn => Holders(sl) # {} \/ Between(sl) \/ sl \in upset

\* The shared login lasts exactly as long as it is relied on: no Close of another
\* session, refused login or lost token ends it early, miscounts it or keeps it.
SharedLoginKept == HoldersLoggedIn /\ CountsHolders /\ LoggedOutAtEnd

\* Only the holder of the lock is where the lock is needed.
MutexInv == \A s \in Sessions : at[s] \in Locked <=> mutex = s
\* The session a caller sees open is one the token had opened for it.
OpenInv == \A s \in open : at[s] # "idle"
\* Between C_Login and the count the token is logged in; at the logout nobody
\* relies on it any more; those that lock are those that gave a PIN.
StageInv == \A s \in Sessions :
    /\ at[s] = "count" /\ s \in open => slot[s] \in loggedIn
    /\ at[s] = "logout" => Holders(slot[s]) = {}
    /\ at[s] \in {"lock", "login", "count", "refuse", "lockClose", "release", "logout"} => pin[s]

IInv == /\ TypeOK /\ MutexInv /\ OpenInv /\ StageInv
        /\ HoldersLoggedIn /\ CountsHolders /\ LoggedOutAtEnd

\* Whoever waits for the lock, to open or to close, gets through the call: nobody
\* keeps the lock, not on a refused login and not on the last logout.
CallsReturn == \A s \in Sessions :
    at[s] \in {"lock", "lockClose"} ~> at[s] \in {"using", "idle"}
================================================================================
