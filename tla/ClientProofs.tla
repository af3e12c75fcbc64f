----------------------------- MODULE ClientProofs -----------------------------
(***************************************************************************)
(* The two clients, of a PKCS#11 module and of a KMIP server.               *)
(*                                                                          *)
(* The reference count of TokenLogin, for any number of sessions and slots: *)
(* IInv is inductive, and with it a session that holds a reference stays    *)
(* logged in.  The lock is what the argument turns on: between the C_Login  *)
(* of one session and its count nobody can release, and between the count   *)
(* that reached zero and C_Logout nobody can log in.                        *)
(*                                                                          *)
(* KmipScan, for any objects and rules: KmipIInv ties what a scan has read  *)
(* to what the server has had since.                                        *)
(***************************************************************************)
EXTENDS TokenLogin, KmipScan, ListTheorems, SequenceTheorems, FiniteSetTheorems, TLAPS

\* The holders of a slot are finitely many, with or without one more or less.
LEMMA HoldersCount ==
    ASSUME NEW sl \in Slots, NEW s \in Sessions
    PROVE  /\ IsFiniteSet(Holders(sl))
           /\ Cardinality(Holders(sl)) \in Nat
           /\ Cardinality(Holders(sl)) = 0 <=> Holders(sl) = {}
           /\ s \notin Holders(sl) =>
                Cardinality(Holders(sl) \cup {s}) = Cardinality(Holders(sl)) + 1
           /\ s \in Holders(sl) =>
                Cardinality(Holders(sl) \ {s}) = Cardinality(Holders(sl)) - 1
  <1>1. IsFiniteSet(Holders(sl))
    BY SessionsAssumption, FS_Subset DEF Holders
  <1>2. Cardinality(Holders(sl)) \in Nat
    BY <1>1, FS_CardinalityType
  <1>3. Cardinality(Holders(sl)) = 0 <=> Holders(sl) = {}
    BY <1>1, FS_EmptySet
  <1>4. s \notin Holders(sl) =>
            Cardinality(Holders(sl) \cup {s}) = Cardinality(Holders(sl)) + 1
    BY <1>1, FS_AddElement
  <1>5. s \in Holders(sl) =>
            Cardinality(Holders(sl) \ {s}) = Cardinality(Holders(sl)) - 1
    BY <1>1, FS_RemoveElement
  <1> QED BY <1>1, <1>2, <1>3, <1>4, <1>5

\* The initial states satisfy the invariant: nobody holds a reference.
LEMMA InductiveInit == Init => IInv
  <1> SUFFICES ASSUME Init PROVE IInv
    OBVIOUS
  <1>1. \A sl \in Slots : Holders(sl) = {}
    BY DEF Init, Holders, Holds
  <1>2. CountsHolders
    BY <1>1, FS_EmptySet DEF CountsHolders, Init
  <1> QED
    BY <1>2, SessionsAssumption
    DEF Init, IInv, TypeOK, Places, Locked, MutexInv, OpenInv, StageInv, HoldersLoggedIn,
        LoggedOutAtEnd, Holds

\* A step that changes who holds no reference, and no count, keeps the counts.
LEMMA SameHolders ==
    ASSUME CountsHolders, logins' = logins,
           \A sl \in Slots : Holders(sl)' = Holders(sl)
    PROVE  CountsHolders'
  BY DEF CountsHolders

\* Taking the lock, for C_Login or for the release.
LEMMA LockKeeps == ASSUME IInv, NEW s \in Sessions, Lock(s) PROVE IInv'
  <1> USE DEF IInv, TypeOK, Lock, LockToLogin, LockToClose, Goto, client, token
  <1>1. \A sl \in Slots : Holders(sl)' = Holders(sl)
    BY DEF Holders, Holds
  <1>2. CountsHolders'
    BY <1>1, SameHolders
  <1>3. TypeOK' /\ MutexInv' /\ OpenInv'
    BY SessionsAssumption DEF Places, Locked, MutexInv, OpenInv
  <1>4. StageInv'
    BY <1>1 DEF StageInv
  <1>5. HoldersLoggedIn'
    BY DEF HoldersLoggedIn, Holds
  <1>6. LoggedOutAtEnd'
    BY <1>1 DEF LoggedOutAtEnd, Between
  <1> QED BY <1>2, <1>3, <1>4, <1>5, <1>6

\* C_OpenSession: the new session holds no reference yet.
LEMMA OpenSessionKeeps ==
    ASSUME IInv, NEW s \in Sessions, NEW sl \in Slots, NEW p \in BOOLEAN,
           OpenSession(s, sl, p)
    PROVE  IInv'
  <1> USE DEF IInv, TypeOK, OpenSession, Goto
  <1>1. \A r \in Sessions : at[r] \in {"count", "logout"} => slot'[r] = slot[r] /\ at'[r] = at[r]
    OBVIOUS
  <1>2. \A x \in Slots : Holders(x)' = Holders(x)
    BY DEF Holders, Holds
  <1>3. CountsHolders'
    BY <1>2, SameHolders
  <1>4. TypeOK' /\ MutexInv' /\ OpenInv'
    BY DEF Places, Locked, MutexInv, OpenInv
  <1>5. StageInv'
    BY <1>2 DEF StageInv
  <1>6. HoldersLoggedIn'
    BY DEF HoldersLoggedIn, Holds
  <1>7. LoggedOutAtEnd'
    BY <1>1, <1>2 DEF LoggedOutAtEnd, Between
  <1> QED BY <1>3, <1>4, <1>5, <1>6, <1>7

\* C_Login, under the lock and before the count.
LEMMA LoginKeeps == ASSUME IInv, NEW s \in Sessions, Login(s) PROVE IInv'
  <1> USE DEF IInv, TypeOK, Login, Goto, client
  <1>1. \A sl \in Slots : Holders(sl)' = Holders(sl)
    BY DEF Holders, Holds
  <1>2. CountsHolders'
    BY <1>1, SameHolders
  <1>3. TypeOK' /\ MutexInv' /\ OpenInv'
    BY SessionsAssumption DEF Places, Locked, MutexInv, OpenInv
  <1>4. StageInv'
    BY <1>1 DEF StageInv
  <1>5. HoldersLoggedIn'
    BY DEF HoldersLoggedIn, Holds
  <1>6. \A sl \in Slots : Between(sl) => Between(sl)'
    BY DEF Between
  <1>7. LoggedOutAtEnd'
    <2>1. CASE loggedIn' = loggedIn
      BY <1>1, <1>6, <2>1 DEF LoggedOutAtEnd
    <2>2. CASE loggedIn' = loggedIn \cup {slot[s]} /\ at' = [at EXCEPT ![s] = "count"]
      <3>1. Between(slot[s])'
        BY <2>2 DEF Between
      <3> QED BY <1>1, <1>6, <2>2, <3>1 DEF LoggedOutAtEnd
    <2> QED BY <2>1, <2>2
  <1> QED BY <1>2, <1>3, <1>4, <1>5, <1>7

\* The count: one holder more, on a token that is logged in.
LEMMA CountKeeps == ASSUME IInv, NEW s \in Sessions, Count(s) PROVE IInv'
  <1> USE DEF IInv, TypeOK, Count, Goto, Unlock, token
  <1> DEFINE here == slot[s]
  <1>1. here \in Slots /\ pin[s] /\ s \notin Holders(here) /\ mutex = s
    BY DEF StageInv, Holders, Holds, MutexInv, Locked
  <1>2. Holders(here)' = Holders(here) \cup {s}
    BY <1>1 DEF Holders, Holds
  <1>3. \A sl \in Slots \ {here} : Holders(sl)' = Holders(sl)
    BY DEF Holders, Holds
  <1>4. CountsHolders'
    <2>1. logins'[here] = Cardinality(Holders(here)')
      BY <1>1, <1>2, HoldersCount DEF CountsHolders
    <2>2. \A sl \in Slots \ {here} : logins'[sl] = Cardinality(Holders(sl)')
      BY <1>3 DEF CountsHolders
    <2> QED BY <2>1, <2>2 DEF CountsHolders
  <1>5. TypeOK' /\ MutexInv' /\ OpenInv'
    BY <1>1, SessionsAssumption DEF Places, Locked, MutexInv, OpenInv
  <1>6. \A r \in Sessions : at'[r] # "logout"
    BY <1>1 DEF MutexInv, Locked
  <1>7. StageInv'
    BY <1>6 DEF StageInv
  <1>8. HoldersLoggedIn'
    BY DEF HoldersLoggedIn, StageInv, Holds
  <1>9. LoggedOutAtEnd'
    BY <1>1, <1>2, <1>3 DEF LoggedOutAtEnd, Between
  <1> QED BY <1>4, <1>5, <1>7, <1>8, <1>9

\* A failed login, and the caller's decision to close.
LEMMA LeaveKeeps ==
    ASSUME IInv, NEW s \in Sessions, Refuse(s) \/ Close(s) PROVE IInv'
  <1> USE DEF IInv, TypeOK, Refuse, Close, Goto, Unlock, client, token
  <1>1. \A sl \in Slots : Holders(sl)' = Holders(sl)
    BY DEF Holders, Holds
  <1>2. CountsHolders'
    BY <1>1, SameHolders
  <1>3. TypeOK' /\ MutexInv' /\ OpenInv'
    BY SessionsAssumption DEF Places, Locked, MutexInv, OpenInv
  <1>4. StageInv'
    BY <1>1 DEF StageInv
  <1>5. HoldersLoggedIn'
    BY DEF HoldersLoggedIn, Holds
  <1>6. LoggedOutAtEnd'
    BY <1>1 DEF LoggedOutAtEnd, Between
  <1> QED BY <1>2, <1>3, <1>4, <1>5, <1>6

\* The release: one holder less, and the logout when it was the last.
LEMMA ReleaseKeeps == ASSUME IInv, NEW s \in Sessions, Release(s) PROVE IInv'
  <1> USE DEF IInv, TypeOK, Release, Goto, Unlock, token
  <1> DEFINE here == slot[s]
             left == logins[here] - 1
  <1>1. here \in Slots /\ s \in Holders(here) /\ mutex = s
    BY DEF StageInv, Holders, Holds, MutexInv, Locked
  <1>2. Holders(here)' = Holders(here) \ {s}
    BY <1>1 DEF Holders, Holds
  <1>3. \A sl \in Slots \ {here} : Holders(sl)' = Holders(sl)
    BY DEF Holders, Holds
  <1>4. logins[here] # 0
    BY <1>1, HoldersCount DEF CountsHolders
  <1>5. left \in Nat /\ logins' = [logins EXCEPT ![here] = left]
    <2>1. logins[here] \in Nat
      BY <1>1
    <2>2. left \in Nat /\ (left <= 0 => left = 0)
      BY <1>4, <2>1
    <2>3. logins' = [logins EXCEPT ![here] = IF left <= 0 THEN 0 ELSE left]
      OBVIOUS
    <2> QED BY <2>2, <2>3
  <1>6. left = Cardinality(Holders(here)')
    <2>1. logins[here] = Cardinality(Holders(here))
      BY <1>1 DEF CountsHolders
    <2>2. Cardinality(Holders(here) \ {s}) = Cardinality(Holders(here)) - 1
      BY <1>1, HoldersCount
    <2> QED BY <1>2, <2>1, <2>2
  <1>7. left = 0 <=> Holders(here)' = {}
    <2>1. IsFiniteSet(Holders(here))
      BY <1>1, HoldersCount
    <2>2. IsFiniteSet(Holders(here) \ {s})
      BY <2>1, FS_Subset
    <2> QED BY <1>2, <1>6, <2>2, FS_EmptySet
  <1>8. CountsHolders'
    <2>1. logins'[here] = Cardinality(Holders(here)')
      BY <1>1, <1>5, <1>6
    <2>2. \A sl \in Slots \ {here} : logins'[sl] = Cardinality(Holders(sl)')
      BY <1>3, <1>5 DEF CountsHolders
    <2> QED BY <2>1, <2>2 DEF CountsHolders
  <1>9. TypeOK'
    BY <1>5 DEF Places
  <1>10. MutexInv' /\ OpenInv'
    BY <1>1, SessionsAssumption DEF Locked, MutexInv, OpenInv
  <1>11. StageInv'
    <2>1. \A r \in Sessions \ {s} : at'[r] # "logout"
      BY <1>1 DEF MutexInv, Locked
    <2>2. at'[s] = "logout" => Holders(here)' = {}
      BY <1>5, <1>7
    <2> QED BY <2>1, <2>2 DEF StageInv
  <1>12. HoldersLoggedIn'
    BY DEF HoldersLoggedIn, Holds
  <1>13. LoggedOutAtEnd'
    <2>1. here \in loggedIn => Holders(here)' # {} \/ Between(here)'
      BY <1>1, <1>5, <1>7 DEF Between
    <2>2. \A sl \in Slots \ {here} : Between(sl) => Between(sl)'
      BY DEF Between
    <2> QED BY <1>3, <2>1, <2>2 DEF LoggedOutAtEnd
  <1> QED BY <1>8, <1>9, <1>10, <1>11, <1>12, <1>13

\* C_Logout: nobody relies on the login it ends.
LEMMA LogoutKeeps == ASSUME IInv, NEW s \in Sessions, Logout(s) PROVE IInv'
  <1> USE DEF IInv, TypeOK, Logout, Goto, Unlock, client
  <1> DEFINE here == slot[s]
  <1>1. here \in Slots /\ Holders(here) = {} /\ mutex = s
    BY DEF StageInv, MutexInv, Locked
  <1>2. \A sl \in Slots : Holders(sl)' = Holders(sl)
    BY DEF Holders, Holds
  <1>3. CountsHolders'
    BY <1>2, SameHolders
  <1>4. TypeOK' /\ MutexInv' /\ OpenInv'
    BY <1>1, SessionsAssumption DEF Places, Locked, MutexInv, OpenInv
  <1>5. \A r \in Sessions : at'[r] \notin {"count", "logout"}
    BY <1>1 DEF MutexInv, Locked
  <1>6. StageInv'
    BY <1>5 DEF StageInv
  <1>7. HoldersLoggedIn'
    <2>1. \A r \in Sessions : Holds(r) => slot[r] # here
      BY <1>1 DEF Holders
    <2> QED BY <2>1 DEF HoldersLoggedIn, Holds
  <1>8. LoggedOutAtEnd'
    <2>1. here \in loggedIn' => here \in upset'
      OBVIOUS
    <2>2. \A sl \in Slots \ {here} : Between(sl) => Between(sl)'
      BY DEF Between
    <2> QED BY <1>2, <2>1, <2>2 DEF LoggedOutAtEnd
  <1> QED BY <1>3, <1>4, <1>6, <1>7, <1>8

\* Sessions that end leave the login to those that remain on the slot, so that
\* with gone away no remaining session is logged out.
LEMMA ClosedSpares ==
    ASSUME TypeOK, NEW gone \in SUBSET Sessions, NEW sl \in Slots, Closed(gone, sl)
    PROVE  \A r \in open' : slot[r] \in loggedIn => slot[r] \in loggedIn'
  BY DEF TypeOK, Closed, Remain

\* C_CloseSession.
LEMMA CloseSessionKeeps == ASSUME IInv, NEW s \in Sessions, CloseSession(s) PROVE IInv'
  <1> USE DEF IInv, TypeOK, CloseSession, Goto, client
  <1>1. \A sl \in Slots : Holders(sl)' = Holders(sl)
    BY DEF Holders, Holds
  <1>2. CountsHolders'
    BY <1>1, SameHolders
  <1>3. \A r \in open' : slot[r] \in loggedIn => slot[r] \in loggedIn'
    BY ClosedSpares
  <1>4. TypeOK' /\ MutexInv' /\ OpenInv'
    BY SessionsAssumption DEF Closed, Places, Locked, MutexInv, OpenInv
  <1>5. open' \subseteq open /\ loggedIn' \subseteq loggedIn
    BY DEF Closed
  <1>6. StageInv'
    BY <1>1, <1>3, <1>5 DEF StageInv
  <1>7. HoldersLoggedIn'
    BY <1>3, <1>5 DEF HoldersLoggedIn, Holds
  <1>8. LoggedOutAtEnd'
    <2>1. \A sl \in Slots : Between(sl) => Between(sl)'
      BY DEF Between
    <2>2. \A sl \in Slots : sl \in loggedIn' /\ sl \in upset => sl \in upset'
      BY DEF Closed
    <2> QED BY <1>1, <1>5, <2>1, <2>2 DEF LoggedOutAtEnd
  <1> QED BY <1>2, <1>4, <1>6, <1>7, <1>8

\* The token drops the sessions of a slot.
LEMMA TokenLostKeeps == ASSUME IInv, NEW sl \in Slots, TokenLost(sl) PROVE IInv'
  <1> USE DEF IInv, TypeOK, TokenLost, client
  <1>1. \A x \in Slots : Holders(x)' = Holders(x)
    BY DEF Holders, Holds
  <1>2. CountsHolders'
    BY <1>1, SameHolders
  <1>3. \A r \in open' : slot[r] \in loggedIn => slot[r] \in loggedIn'
    BY ClosedSpares
  <1>4. TypeOK' /\ MutexInv' /\ OpenInv'
    BY DEF Closed, MutexInv, OpenInv
  <1>5. open' \subseteq open /\ loggedIn' \subseteq loggedIn
    BY DEF Closed
  <1>6. StageInv'
    BY <1>1, <1>3, <1>5 DEF StageInv
  <1>7. HoldersLoggedIn'
    BY <1>3, <1>5 DEF HoldersLoggedIn, Holds
  <1>8. LoggedOutAtEnd'
    BY <1>1, <1>5 DEF LoggedOutAtEnd, Between
  <1> QED BY <1>2, <1>4, <1>6, <1>7, <1>8

\* Every step keeps the invariant.
LEMMA InductiveStep == IInv /\ [Next]_vars => IInv'
  <1> SUFFICES ASSUME IInv, [Next]_vars PROVE IInv'
    OBVIOUS
  <1>1. ASSUME NEW s \in Sessions, Lock(s) PROVE IInv'
    BY <1>1, LockKeeps
  <1>2. ASSUME NEW s \in Sessions, Work(s) PROVE IInv'
    BY <1>2, LoginKeeps, CountKeeps, LeaveKeeps, ReleaseKeeps, LogoutKeeps, CloseSessionKeeps
    DEF Work
  <1>3. ASSUME NEW s \in Sessions, Close(s) PROVE IInv'
    BY <1>3, LeaveKeeps
  <1>4. ASSUME NEW s \in Sessions, NEW sl \in Slots, NEW p \in BOOLEAN, OpenSession(s, sl, p)
        PROVE IInv'
    BY <1>4, OpenSessionKeeps
  <1>5. ASSUME NEW sl \in Slots, TokenLost(sl) PROVE IInv'
    BY <1>5, TokenLostKeeps
  <1>6. CASE UNCHANGED vars
    BY <1>6
    DEF vars, IInv, TypeOK, MutexInv, OpenInv, StageInv, HoldersLoggedIn, CountsHolders,
        LoggedOutAtEnd, Between, Holders, Holds
  <1> QED BY <1>1, <1>2, <1>3, <1>4, <1>5, <1>6 DEF Next

\* The invariant holds in every reachable state.
THEOREM Inductive == Spec => []IInv
  <1>1. Init => IInv
    BY InductiveInit
  <1>2. IInv /\ [Next]_vars => IInv'
    BY InductiveStep
  <1> QED BY <1>1, <1>2, PTL DEF Spec

\* Type correctness, for every number of sessions and slots.
THEOREM TypeCorrect == Spec => []TypeOK
  <1>1. IInv => TypeOK
    BY DEF IInv
  <1> QED BY <1>1, Inductive, PTL

\* A session opened with a PIN stays logged in until its own Close, whatever the
\* other sessions do.
THEOREM HoldersStayLoggedIn == Spec => []HoldersLoggedIn
  <1>1. IInv => HoldersLoggedIn
    BY DEF IInv
  <1> QED BY <1>1, Inductive, PTL

\* Client.logins is the number of sessions that rely on the login.
THEOREM CountIsExact == Spec => []CountsHolders
  <1>1. IInv => CountsHolders
    BY DEF IInv
  <1> QED BY <1>1, Inductive, PTL

\* The token is logged out when the last authenticated session has closed.
THEOREM LastCloseLogsOut == Spec => []LoggedOutAtEnd
  <1>1. IInv => LoggedOutAtEnd
    BY DEF IInv
  <1> QED BY <1>1, Inductive, PTL

\* The login lasts exactly as long as a session relies on it, for any number of
\* sessions on any slots.
THEOREM LoginIsKept == Spec => []SharedLoginKept
  <1> QED BY HoldersStayLoggedIn, CountIsExact, LastCloseLogsOut, PTL DEF SharedLoginKept

-----------------------------------------------------------------------------
(* The scan of a KMIP server.  The loops over objects and rules find each   *)
(* rule that matches an object once, sorting keeps that, and what was read  *)
(* of an object is something it has been since it was located.              *)

\* What a rule finds of an object, and all that the rules find of it.
Entry(id, r) == [rule |-> KmipRuleSet[r].id, severity |-> KmipRuleSet[r].severity, object |-> id]
Entries == {Entry(id, r) : id \in KmipIds, r \in DOMAIN KmipRuleSet}
Hits(id, o) == {Entry(id, r) : r \in {k \in DOMAIN KmipRuleSet : matchRule(o, KmipRuleSet[k].match)}}
Once(list) == \A i, j \in DOMAIN list : list[i] = list[j] => i = j

LEMMA EntriesAre ==
    /\ Ranked(Entries)
    /\ \A id \in KmipIds, r \in DOMAIN KmipRuleSet : Entry(id, r) \in Entries
    /\ \A i, j, k, l : k \in DOMAIN KmipRuleSet /\ l \in DOMAIN KmipRuleSet /\ Entry(i, k) = Entry(j, l)
            => i = j /\ k = l
  <1>1. \A k, l \in DOMAIN KmipRuleSet : KmipRuleSet[k].id = KmipRuleSet[l].id => k = l
    BY KmipAssumption DEF LoadedRules
  <1>2. ASSUME NEW r \in DOMAIN KmipRuleSet PROVE Rank(KmipRuleSet[r].severity) \in 1..5
    <2>1. \E k \in DOMAIN Order : Order[k] = KmipRuleSet[r].severity
      BY KmipAssumption DEF LoadedRules
    <2>2. DOMAIN Order = 1..5
      BY DEF Order
    <2> QED BY <2>1, <2>2 DEF Rank
  <1>3. Ranked(Entries)
    BY <1>2 DEF Ranked, Entries, Entry
  <1>4. \A id \in KmipIds, r \in DOMAIN KmipRuleSet : Entry(id, r) \in Entries
    BY DEF Entries
  <1>5. ASSUME NEW i, NEW j, NEW k \in DOMAIN KmipRuleSet, NEW l \in DOMAIN KmipRuleSet, Entry(i, k) = Entry(j, l)
        PROVE  i = j /\ k = l
    <2>1. Entry(i, k).object = i /\ Entry(j, l).object = j
          /\ Entry(i, k).rule = KmipRuleSet[k].id /\ Entry(j, l).rule = KmipRuleSet[l].id
      BY DEF Entry
    <2> QED BY <1>1, <1>5, <2>1
  <1> QED BY <1>3, <1>4, <1>5

\* The list with what is new in it.
Entered(new, list, more) ==
    new \in Seq(Entries) /\ Once(new) /\ Found(new) = Found(list) \cup more

LEMMA OneJudged ==
    ASSUME NEW list \in Seq(Entries), Once(list), NEW id \in KmipIds, NEW o, NEW k \in DOMAIN KmipRuleSet,
           Entry(id, k) \notin Found(list), NEW new, new = Judged(list, id, o, KmipRuleSet[k])
    PROVE  Entered(new, list, IF matchRule(o, KmipRuleSet[k].match) THEN {Entry(id, k)} ELSE {})
  <1> PICK e \in Entries : e = Entry(id, k)
    BY EntriesAre
  <1> PICK n \in Nat : n = Len(list)
    OBVIOUS
  <1>1. CASE matchRule(o, KmipRuleSet[k].match)
    <2>1. new = Append(list, e)
      BY <1>1 DEF Judged, Entry
    <2>2. new \in Seq(Entries) /\ DOMAIN new = 1..n + 1 /\ DOMAIN list = 1..n
          /\ \A i \in 1..n + 1 : new[i] = IF i <= n THEN list[i] ELSE e
      BY <2>1
    <2>3. \A i \in 1..n : list[i] # e
      BY <2>2 DEF Found
    <2>4. Once(new)
      BY <2>2, <2>3 DEF Once
    <2>5. Found(new) = Found(list) \cup {e}
      <3>1. \A i \in 1..n : i \in 1..n + 1 /\ new[i] = list[i]
        BY <2>2
      <3>2. n + 1 \in 1..n + 1 /\ new[n + 1] = e
        BY <2>2
      <3>3. \A i \in 1..n + 1 : i \in 1..n \/ new[i] = e
        BY <2>2
      <3> QED BY <2>2, <3>1, <3>2, <3>3 DEF Found
    <2> QED BY <1>1, <2>2, <2>4, <2>5 DEF Entered
  <1>2. CASE ~matchRule(o, KmipRuleSet[k].match)
    <2>1. new = list
      BY <1>2 DEF Judged
    <2> QED BY <1>2, <2>1 DEF Entered
  <1> QED BY <1>1, <1>2

\* The loop over the rules.
RuleLoop(f, list, id, o) ==
    f = [s \in SUBSET DOMAIN KmipRuleSet |->
            IF s = {} THEN list ELSE Judged(f[s \ {Max(s)}], id, o, KmipRuleSet[Max(s)])]

\* The list after one rule after the other.
InTurn(g, list, id, o) ==
    /\ g[0] = list
    /\ \A k \in DOMAIN KmipRuleSet : g[k] = Judged(g[k - 1], id, o, KmipRuleSet[k])

LEMMA JudgedInTurn ==
    ASSUME NEW list \in Seq(Entries), NEW id \in KmipIds, NEW o
    PROVE  \E g \in [0..Len(KmipRuleSet) -> Seq(Entries)] :
              InTurn(g, list, id, o) /\ g[Len(KmipRuleSet)] = JudgedByAll(list, id, o)
  <1> DEFINE V == Seq(Entries)
             H == [p \in (1..Len(KmipRuleSet)) \X V |-> Judged(p[2], id, o, KmipRuleSet[p[1]])]
             F == CHOOSE f : RuleLoop(f, list, id, o)
  <1>1. Len(KmipRuleSet) \in Nat /\ DOMAIN KmipRuleSet = 1..Len(KmipRuleSet)
    BY KmipAssumption DEF LoadedRules
  <1> PICK n \in Nat : n = Len(KmipRuleSet) /\ DOMAIN KmipRuleSet = 1..n
    BY <1>1
  <1>2. \A l \in V, k \in 1..n : Judged(l, id, o, KmipRuleSet[k]) \in V
    <2> TAKE l \in V, k \in 1..n
    <2>1. Entry(id, k) \in Entries
      BY EntriesAre
    <2> QED BY <2>1 DEF Judged, Entry
  <1>3. H \in [(1..n) \X V -> V]
    BY <1>2
  <1>5. PICK f \in [SUBSET (1..n) -> V] : FoldsBy(f, n, list, H)
    <2> HIDE DEF H
    <2> QED BY <1>3, FoldExists
  <1>6. \A s \in SUBSET (1..n) : s # {} => Max(s) \in 1..n /\ s \ {Max(s)} \in SUBSET (1..n)
    BY LastOf
  <1>7. \A s \in SUBSET (1..n) : f[s] = IF s = {} THEN list ELSE Judged(f[s \ {Max(s)}], id, o, KmipRuleSet[Max(s)])
    BY <1>5, <1>6 DEF FoldsBy
  <1>8. RuleLoop(f, list, id, o)
    BY <1>5, <1>7 DEF RuleLoop
  <1>9. RuleLoop(F, list, id, o)
    BY <1>8
  <1>10. JudgedByAll(list, id, o) = F[DOMAIN KmipRuleSet]
    BY DEF JudgedByAll, FoldLeft, MapThenFoldSet, RuleLoop
  <1> HIDE DEF F, H
  <1>11. F[1..0] = list
    <2>1. 1..0 = {}
      OBVIOUS
    <2> QED BY <1>9, <2>1 DEF RuleLoop
  <1>12. ASSUME NEW k \in 1..n PROVE F[1..k] = Judged(F[1..k - 1], id, o, KmipRuleSet[k])
    <2>1. 1..k \in SUBSET DOMAIN KmipRuleSet /\ k \in 1..k
      OBVIOUS
    <2>2. Max(1..k) = k /\ (1..k) \ {k} = 1..k - 1
      BY LastOf
    <2>3. F[1..k] = Judged(F[(1..k) \ {Max(1..k)}], id, o, KmipRuleSet[Max(1..k)])
      BY <1>9, <2>1 DEF RuleLoop
    <2> QED BY <2>2, <2>3
  <1> DEFINE S == {k \in 0..n : F[1..k] \in V}
  <1>13. 0 \in S
    BY <1>11
  <1>14. ASSUME NEW k \in 1..n, k - 1 \in S PROVE k \in S
    BY <1>2, <1>12, <1>14
  <1>15. 0..n \subseteq S
    <2> HIDE DEF S
    <2> QED BY <1>13, <1>14, UpTo
  <1> DEFINE g == [k \in 0..n |-> F[1..k]]
  <1>16. g \in [0..n -> V]
    BY <1>15
  <1>17. g[0] = list /\ g[n] = JudgedByAll(list, id, o)
    BY <1>10, <1>11
  <1>18. \A k \in 1..n : g[k] = Judged(g[k - 1], id, o, KmipRuleSet[k])
    <2> TAKE k \in 1..n
    <2>1. k \in 0..n /\ k - 1 \in 0..n
      OBVIOUS
    <2> QED BY <1>12, <2>1
  <1> HIDE DEF g
  <1> QED BY <1>16, <1>17, <1>18 DEF InTurn

LEMMA AllJudged ==
    ASSUME NEW list \in Seq(Entries), Once(list), NEW id \in KmipIds, NEW o,
           \A k \in DOMAIN KmipRuleSet : Entry(id, k) \notin Found(list)
    PROVE  Entered(JudgedByAll(list, id, o), list, Hits(id, o))
  <1>1. Len(KmipRuleSet) \in Nat /\ DOMAIN KmipRuleSet = 1..Len(KmipRuleSet)
    BY KmipAssumption DEF LoadedRules
  <1> PICK n \in Nat : n = Len(KmipRuleSet) /\ DOMAIN KmipRuleSet = 1..n
    BY <1>1
  <1>2. PICK g \in [0..n -> Seq(Entries)] : InTurn(g, list, id, o) /\ g[n] = JudgedByAll(list, id, o)
    BY JudgedInTurn
  <1> DEFINE HitsOf(k) == {Entry(id, r) : r \in {j \in 1..k : matchRule(o, KmipRuleSet[j].match)}}
             S == {k \in 0..n : Entered(g[k], list, HitsOf(k))}
  <1>13. 0 \in S
    <2>1. HitsOf(0) = {} /\ 0 \in 0..n
      OBVIOUS
    <2> QED BY <1>2, <2>1 DEF Entered, InTurn
  <1>14. ASSUME NEW k \in 1..n, k - 1 \in S PROVE k \in S
    <2>b. PICK b : b = g[k - 1]
      OBVIOUS
    <2>d. PICK d : d = g[k]
      OBVIOUS
    <2>1. Entered(b, list, HitsOf(k - 1)) /\ d = Judged(b, id, o, KmipRuleSet[k])
      BY <2>b, <2>d, <1>2, <1>14 DEF InTurn
    <2>2. Entry(id, k) \notin Found(b)
      <3>1. \A j \in 1..k - 1 : j \in DOMAIN KmipRuleSet /\ j # k
        OBVIOUS
      <3>2. Entry(id, k) \notin HitsOf(k - 1)
        BY <3>1, EntriesAre
      <3> HIDE DEF HitsOf
      <3> QED BY <2>1, <3>2 DEF Entered
    <2>3. Entered(d, b, IF matchRule(o, KmipRuleSet[k].match) THEN {Entry(id, k)} ELSE {})
      <3>1. b \in Seq(Entries) /\ Once(b)
        BY <2>1 DEF Entered
      <3> QED BY <2>1, <2>2, <3>1, OneJudged
    <2>4. HitsOf(k) = HitsOf(k - 1) \cup (IF matchRule(o, KmipRuleSet[k].match) THEN {Entry(id, k)} ELSE {})
      <3>1. 1..k = (1..k - 1) \cup {k}
        OBVIOUS
      <3> QED BY <3>1
    <2>5. Entered(d, list, HitsOf(k))
      <3> HIDE DEF HitsOf
      <3> QED BY <2>1, <2>3, <2>4 DEF Entered
    <2> HIDE DEF HitsOf
    <2> QED BY <2>d, <2>5
  <1>15. n \in S
    <2>1. n \in 0..n
      OBVIOUS
    <2>2. 0..n \subseteq S
      <3> HIDE DEF S
      <3> QED BY <1>13, <1>14, UpTo
    <2> HIDE DEF S
    <2> QED BY <2>1, <2>2
  <1>16. HitsOf(n) = Hits(id, o)
    BY DEF Hits
  <1> HIDE DEF HitsOf
  <1> QED BY <1>2, <1>15, <1>16

\* The loop over the objects.
ObjectLoop(f, ids, objects) ==
    f = [s \in SUBSET DOMAIN ids |->
            IF s = {} THEN <<>> ELSE JudgedByAll(f[s \ {Max(s)}], ids[Max(s)], objects[ids[Max(s)]])]
\* What all rules find of the first k objects.
HitsUpTo(k, ids, objects) == UNION {Hits(ids[i], objects[ids[i]]) : i \in 1..k}
\* The findings before they are sorted.
Unsorted(ids, objects) == FoldLeft(LAMBDA l, id : JudgedByAll(l, id, objects[id]), <<>>, ids)

LEMMA FindingsOfAll ==
    ASSUME NEW ids \in Seq(KmipIds), Once(ids), NEW objects
    PROVE  /\ Unsorted(ids, objects) \in Seq(Entries) /\ Once(Unsorted(ids, objects))
           /\ Found(Unsorted(ids, objects)) = HitsUpTo(Len(ids), ids, objects)
  <1> DEFINE V == Seq(Entries)
             H == [p \in (1..Len(ids)) \X V |-> JudgedByAll(p[2], ids[p[1]], objects[ids[p[1]]])]
             F == CHOOSE f : ObjectLoop(f, ids, objects)
  <1> PICK n \in Nat : n = Len(ids) /\ DOMAIN ids = 1..n
    OBVIOUS
  <1>1. \A k \in 1..n : ids[k] \in KmipIds
    OBVIOUS
  <1>2. \A l \in V, k \in 1..n : JudgedByAll(l, ids[k], objects[ids[k]]) \in V
    <2> TAKE l \in V, k \in 1..n
    <2>0. l \in Seq(Entries) /\ ids[k] \in KmipIds
      BY <1>1
    <2>1. PICK g \in [0..Len(KmipRuleSet) -> Seq(Entries)] :
              g[Len(KmipRuleSet)] = JudgedByAll(l, ids[k], objects[ids[k]])
      BY <2>0, JudgedInTurn
    <2>2. Len(KmipRuleSet) \in Nat
      BY KmipAssumption DEF LoadedRules
    <2> PICK m \in Nat : m = Len(KmipRuleSet)
      BY <2>2
    <2>3. m \in 0..m
      OBVIOUS
    <2> QED BY <2>1, <2>3
  <1>3. H \in [(1..n) \X V -> V]
    BY <1>2
  <1>4. <<>> \in V
    OBVIOUS
  <1>5. PICK f \in [SUBSET (1..n) -> V] : FoldsBy(f, n, <<>>, H)
    <2> HIDE DEF H, V
    <2> QED BY <1>3, <1>4, FoldExists
  <1>6. \A s \in SUBSET (1..n) : s # {} => Max(s) \in 1..n /\ s \ {Max(s)} \in SUBSET (1..n)
    BY LastOf
  <1>7. \A s \in SUBSET (1..n) : f[s] = IF s = {} THEN <<>> ELSE JudgedByAll(f[s \ {Max(s)}], ids[Max(s)], objects[ids[Max(s)]])
    BY <1>5, <1>6 DEF FoldsBy
  <1>8. ObjectLoop(f, ids, objects)
    BY <1>5, <1>7 DEF ObjectLoop
  <1>9. ObjectLoop(F, ids, objects)
    BY <1>8
  <1>10. Unsorted(ids, objects) = F[DOMAIN ids]
    BY DEF Unsorted, FoldLeft, MapThenFoldSet, ObjectLoop
  <1> HIDE DEF F, H
  <1>11. F[1..0] = <<>>
    <2>1. 1..0 = {}
      OBVIOUS
    <2> QED BY <1>9, <2>1 DEF ObjectLoop
  <1>12. ASSUME NEW k \in 1..n PROVE F[1..k] = JudgedByAll(F[1..k - 1], ids[k], objects[ids[k]])
    <2>1. 1..k \in SUBSET DOMAIN ids /\ k \in 1..k
      OBVIOUS
    <2>2. Max(1..k) = k /\ (1..k) \ {k} = 1..k - 1
      BY LastOf
    <2>3. F[1..k] = JudgedByAll(F[(1..k) \ {Max(1..k)}], ids[Max(1..k)], objects[ids[Max(1..k)]])
      BY <1>9, <2>1 DEF ObjectLoop
    <2> QED BY <2>2, <2>3
  <1> DEFINE S == {k \in 0..n : Entered(F[1..k], <<>>, HitsUpTo(k, ids, objects))}
  <1>13. 0 \in S
    <2>1. HitsUpTo(0, ids, objects) = {} /\ 0 \in 0..n
      BY DEF HitsUpTo
    <2>2. Once(<<>>) /\ Found(<<>>) = Found(<<>>) \cup {}
      BY DEF Once, Found
    <2> QED BY <1>4, <1>11, <2>1, <2>2 DEF Entered
  <1>14. ASSUME NEW k \in 1..n, k - 1 \in S PROVE k \in S
    <2>b. PICK b : b = F[1..k - 1]
      OBVIOUS
    <2>d. PICK d : d = F[1..k]
      OBVIOUS
    <2>1. Entered(b, <<>>, HitsUpTo(k - 1, ids, objects)) /\ d = JudgedByAll(b, ids[k], objects[ids[k]])
      BY <2>b, <2>d, <1>12, <1>14
    <2>2. b \in Seq(Entries) /\ Once(b) /\ Found(b) = HitsUpTo(k - 1, ids, objects)
      <3>1. Found(<<>>) = {}
        BY DEF Found
      <3> QED BY <2>1, <3>1 DEF Entered
    <2>3. ASSUME NEW r \in DOMAIN KmipRuleSet PROVE Entry(ids[k], r) \notin Found(b)
      <3>1. ASSUME NEW j \in 1..k - 1 PROVE Entry(ids[k], r) \notin Hits(ids[j], objects[ids[j]])
        <4>1. j \in DOMAIN ids /\ k \in DOMAIN ids /\ j # k
          OBVIOUS
        <4>2. ids[j] # ids[k]
          BY <4>1 DEF Once
        <4> QED BY <4>2, EntriesAre DEF Hits
      <3> QED BY <2>2, <3>1 DEF HitsUpTo
    <2>4. Entered(d, b, Hits(ids[k], objects[ids[k]]))
      BY <1>1, <2>1, <2>2, <2>3, AllJudged
    <2>5. HitsUpTo(k, ids, objects) = HitsUpTo(k - 1, ids, objects) \cup Hits(ids[k], objects[ids[k]])
      <3>1. 1..k = (1..k - 1) \cup {k}
        OBVIOUS
      <3> QED BY <3>1 DEF HitsUpTo
    <2>6. Entered(d, <<>>, HitsUpTo(k, ids, objects))
      BY <2>1, <2>4, <2>5 DEF Entered
    <2> QED BY <2>d, <2>6
  <1>15. n \in S
    <2>1. n \in 0..n
      OBVIOUS
    <2>2. 0..n \subseteq S
      <3> HIDE DEF S
      <3> QED BY <1>13, <1>14, UpTo
    <2> HIDE DEF S
    <2> QED BY <2>1, <2>2
  <1>16. Found(<<>>) = {}
    BY DEF Found
  <1> QED BY <1>10, <1>15, <1>16 DEF Entered

\* Sorting loses nothing of a list and doubles nothing.
LEMMA OnceSame ==
    ASSUME NEW E, NEW a \in Seq(E), NEW b \in Seq(E), Same(a, b), Once(b)
    PROVE  Once(a) /\ Found(a) = Found(b)
  <1> PICK n \in Nat : n = Len(a) /\ n = Len(b) /\ DOMAIN a = 1..n /\ DOMAIN b = 1..n
    BY DEF Same
  <1>1. Found(a) = Found(b)
    BY DEF Same
  <1>2. b \in Bijection(1..n, Found(b)) /\ a \in Surjection(1..n, Found(b))
    <2>1. a \in [1..n -> Found(a)] /\ b \in [1..n -> Found(b)]
      BY DEF Found
    <2> QED BY <1>1, <2>1 DEF Once, Found, Bijection, Injection, Surjection, IsInjective
  <1>3. IsFiniteSet(1..n) /\ Cardinality(1..n) = Cardinality(Found(b))
    <2>1. IsFiniteSet(1..n)
      BY FS_Interval
    <2> QED BY <1>2, <2>1, FS_Bijection DEF ExistsBijection
  <1>4. a \in Injection(1..n, Found(b))
    BY <1>2, <1>3, FS_SurjSameCardinalityImpliesInj
  <1>5. Once(a)
    BY <1>4 DEF Injection, IsInjective, Once
  <1> QED BY <1>1, <1>5

\* The findings of all objects: each rule that holds of an object, once.
LEMMA FindingsOfKmip ==
    ASSUME NEW ids \in Seq(KmipIds), Once(ids), NEW objects
    PROVE  /\ KmipFindings(ids, objects) \in Seq(Entries) /\ Once(KmipFindings(ids, objects))
           /\ Found(KmipFindings(ids, objects)) = HitsUpTo(Len(ids), ids, objects)
  <1>1. KmipFindings(ids, objects) = BySeverity(Unsorted(ids, objects))
    BY DEF KmipFindings, Unsorted
  <1>2. /\ Unsorted(ids, objects) \in Seq(Entries) /\ Once(Unsorted(ids, objects))
        /\ Found(Unsorted(ids, objects)) = HitsUpTo(Len(ids), ids, objects)
    BY FindingsOfAll
  <1> PICK b : b = Unsorted(ids, objects)
    OBVIOUS
  <1> PICK a : a = BySeverity(b)
    OBVIOUS
  <1>3. a \in Seq(Entries) /\ Same(a, b)
    BY <1>2, EntriesAre, SortedBySeverity
  <1>4. Once(a) /\ Found(a) = Found(b)
    BY <1>2, <1>3, OnceSame
  <1> QED BY <1>1, <1>2, <1>3, <1>4

\* The orders a set can be listed in.
LEMMA ListsOfSet ==
    ASSUME NEW S \in SUBSET KmipIds
    PROVE  /\ SetToSeqs(S) # {}
           /\ \A ids \in SetToSeqs(S) : ids \in Seq(KmipIds) /\ Once(ids) /\ Found(ids) = S
  <1>1. IsFiniteSet(S)
    BY KmipAssumption, FS_Subset
  <1> PICK n \in Nat : n = Cardinality(S)
    BY <1>1, FS_CardinalityType
  <1>2. SetToSeqs(S) = {f \in [1..n -> S] : \A i, j \in 1..n : i # j => f[i] # f[j]}
    BY DEF SetToSeqs
  <1>3. SetToSeqs(S) # {}
    <2>1. ExistsBijection(1..n, S)
      BY <1>1, FS_CardinalityType
    <2>2. PICK f \in Bijection(1..n, S) : TRUE
      BY <2>1 DEF ExistsBijection
    <2>3. f \in [1..n -> S] /\ \A i, j \in 1..n : i # j => f[i] # f[j]
      BY <2>2 DEF Bijection, Injection, IsInjective
    <2> QED BY <1>2, <2>3
  <1>4. ASSUME NEW ids \in SetToSeqs(S)
        PROVE  ids \in Seq(KmipIds) /\ Once(ids) /\ Found(ids) = S
    <2>1. ids \in [1..n -> S] /\ \A i, j \in 1..n : i # j => ids[i] # ids[j]
      BY <1>2
    <2>2. ids \in Seq(KmipIds) /\ Len(ids) = n /\ DOMAIN ids = 1..n
      BY <2>1
    <2>3. Once(ids)
      BY <2>1, <2>2 DEF Once
    <2>4. ids \in Injection(1..n, S)
      BY <2>1 DEF Injection, IsInjective
    <2>5. Cardinality(1..n) = n
      BY FS_Interval
    <2>6. ids \in Surjection(1..n, S)
      BY <1>1, <2>4, <2>5, FS_Injection
    <2>7. Found(ids) = S
      BY <2>2, <2>6 DEF Found, Surjection
    <2> QED BY <2>2, <2>3, <2>7
  <1> QED BY <1>3, <1>4

\* What a scan knows while it reads, and what of it is still to be read.
Ongoing ==
    /\ collection.version \in offered
    /\ collection.todo \in Seq(KmipIds)
    /\ DOMAIN collection.got \cup Found(collection.todo) = Located
    /\ \A id \in DOMAIN collection.got : collection.got[id] \in during[id]
    /\ \A id \in Located : id \in DOMAIN managed => managed[id] \in during[id]

Fields == DOMAIN collection = {"at", "version", "todo", "got", "findings", "score"}

KmipIInv ==
    /\ Fields
    /\ DOMAIN managed \in SUBSET KmipIds
    /\ DOMAIN during = KmipIds
    /\ collection.at \in {"discover", "locate"} => Located = {}
    /\ collection.at = "read" => Ongoing
    /\ KmipReportOfTheTime

\* A threshold a finding has is one the findings reach.
LEMMA KmipGate ==
    ASSUME NEW list, NEW i \in DOMAIN list, Rank(list[i].severity) \in Int
    PROVE  checkKMIPFailOn(list, list[i].severity)
  BY DEF checkKMIPFailOn

\* What the report says of an object and a rule is right for what the object has been.
ReportedOf(list, id, r, seen) ==
    LET rule == KmipRuleSet[r]
        hits == {i \in DOMAIN list : list[i].object = id /\ list[i].rule = rule.id}
    IN  /\ Cardinality(hits) <= 1
        /\ (\A o \in seen : matchRule(o, rule.match)) => hits # {}
        /\ (\A o \in seen : ~matchRule(o, rule.match)) => hits = {}
        /\ hits # {} => checkKMIPFailOn(list, rule.severity)

LEMMA KmipReported ==
    ASSUME KmipIInv, EvaluateKmip
    PROVE  KmipReportOfTheTime'
  <1>i. PICK ids : ids = CHOOSE s \in SetToSeqs(DOMAIN collection.got) : TRUE
    OBVIOUS
  <1>l. PICK list : list = KmipFindings(ids, collection.got)
    OBVIOUS
  <1>1. /\ collection.at = "read" /\ collection.todo = <<>>
        /\ collection' = [collection EXCEPT !.at = "done", !.findings = list, !.score = Score(list)]
        /\ offered' = offered /\ managed' = managed /\ during' = during
    BY <1>i, <1>l DEF EvaluateKmip, Remaining
  <1>2. Ongoing /\ Fields
    BY <1>1 DEF KmipIInv
  <1>3. /\ collection'.at = "done" /\ collection'.version = collection.version
        /\ collection'.got = collection.got /\ collection'.findings = list
    BY <1>1, <1>2 DEF Fields
  <1>4. DOMAIN collection.got = Located
    <2>1. Found(<<>>) = {}
      BY DEF Found
    <2> QED BY <1>1, <1>2, <2>1 DEF Ongoing
  <1>5. ids \in SetToSeqs(Located)
    <2>1. Located \in SUBSET KmipIds
      BY DEF Located
    <2>2. SetToSeqs(Located) # {}
      BY <2>1, ListsOfSet
    <2> QED BY <1>4, <1>i, <2>2
  <1>6. ids \in Seq(KmipIds) /\ Once(ids) /\ Found(ids) = Located
    <2>1. Located \in SUBSET KmipIds
      BY DEF Located
    <2> QED BY <1>5, <2>1, ListsOfSet
  <1> PICK n \in Nat : n = Len(ids) /\ DOMAIN ids = 1..n
    <2>1. ids \in Seq(KmipIds)
      BY <1>6
    <2> QED BY <2>1
  <1>7. list \in Seq(Entries) /\ Once(list) /\ Found(list) = HitsUpTo(n, ids, collection.got)
    <2> PICK objects : objects = collection.got
      OBVIOUS
    <2>1. /\ KmipFindings(ids, objects) \in Seq(Entries) /\ Once(KmipFindings(ids, objects))
          /\ Found(KmipFindings(ids, objects)) = HitsUpTo(Len(ids), ids, objects)
      BY <1>6, FindingsOfKmip
    <2> QED BY <1>l, <2>1
  <1>8. Located' = Located
    BY <1>1 DEF Located
  <1>9. ASSUME NEW id \in Located, NEW r \in DOMAIN KmipRuleSet
        PROVE  LET hits == {i \in DOMAIN list : list[i].object = id /\ list[i].rule = KmipRuleSet[r].id}
               IN  /\ Cardinality(hits) <= 1
                   /\ matchRule(collection.got[id], KmipRuleSet[r].match) <=> hits # {}
                   /\ hits # {} => checkKMIPFailOn(list, KmipRuleSet[r].severity)
    <2> DEFINE hits == {i \in DOMAIN list : list[i].object = id /\ list[i].rule = KmipRuleSet[r].id}
    <2>0. id \in KmipIds /\ Entry(id, r) \in Entries
      BY EntriesAre DEF Located
    <2>1. \A i \in DOMAIN list : i \in hits <=> list[i] = Entry(id, r)
      <3> TAKE i \in DOMAIN list
      <3>1. list[i] \in Entries
        BY <1>7
      <3>2. PICK d \in KmipIds, k \in DOMAIN KmipRuleSet : list[i] = Entry(d, k)
        BY <3>1 DEF Entries
      <3>3. list[i].object = d /\ list[i].rule = KmipRuleSet[k].id
        BY <3>2 DEF Entry
      <3>4. KmipRuleSet[k].id = KmipRuleSet[r].id <=> k = r
        BY KmipAssumption DEF LoadedRules
      <3>5. Entry(id, r).object = id /\ Entry(id, r).rule = KmipRuleSet[r].id
        BY DEF Entry
      <3> QED BY <3>2, <3>3, <3>4, <3>5
    <2>2. hits \in SUBSET DOMAIN list
      OBVIOUS
    <2> HIDE DEF hits
    <2>3. \A i, j \in hits : i = j
      BY <1>7, <2>1, <2>2 DEF Once
    <2>4. Cardinality(hits) <= 1
      <3>1. CASE hits = {}
        BY <3>1, FS_EmptySet
      <3>2. CASE hits # {}
        <4>0. PICK i : i \in hits
          BY <3>2
        <4>1. hits = {i}
          BY <2>3, <4>0
        <4>2. Cardinality(hits) = 1
          BY <4>1, FS_Singleton
        <4> QED BY <4>2
      <3> QED BY <3>1, <3>2
    <2>5. hits # {} <=> Entry(id, r) \in Found(list)
      BY <2>1, <2>2 DEF Found
    <2>6. Entry(id, r) \in HitsUpTo(n, ids, collection.got) <=> matchRule(collection.got[id], KmipRuleSet[r].match)
      <3>1. PICK k \in 1..n : ids[k] = id
        BY <1>6 DEF Found
      <3>2. \A d, o : Entry(id, r) \in Hits(d, o) <=> d = id /\ matchRule(o, KmipRuleSet[r].match)
        <4> TAKE d, o
        <4>1. Entry(id, r) \in Hits(d, o) <=>
                 \E l \in DOMAIN KmipRuleSet : matchRule(o, KmipRuleSet[l].match) /\ Entry(id, r) = Entry(d, l)
          BY DEF Hits
        <4>2. \A l \in DOMAIN KmipRuleSet : Entry(id, r) = Entry(d, l) => id = d /\ l = r
          BY EntriesAre
        <4> QED BY <4>1, <4>2
      <3>3. Entry(id, r) \in HitsUpTo(n, ids, collection.got) <=>
               \E i \in 1..n : Entry(id, r) \in Hits(ids[i], collection.got[ids[i]])
        BY DEF HitsUpTo
      <3> QED BY <3>1, <3>2, <3>3
    <2>7. hits # {} => checkKMIPFailOn(list, KmipRuleSet[r].severity)
      <3> SUFFICES ASSUME hits # {} PROVE checkKMIPFailOn(list, KmipRuleSet[r].severity)
        OBVIOUS
      <3>1. PICK i \in hits : TRUE
        OBVIOUS
      <3>2. list[i] = Entry(id, r) /\ i \in DOMAIN list
        BY <2>1, <2>2
      <3>3. list[i].severity = KmipRuleSet[r].severity
        BY <3>2 DEF Entry
      <3>4. Rank(list[i].severity) \in 1..5
        BY <2>0, <3>2, EntriesAre DEF Ranked
      <3> QED BY <3>2, <3>3, <3>4, KmipGate
    <2> QED BY <1>7, <2>4, <2>5, <2>6, <2>7 DEF hits
  <1>10. \A id \in Located : collection.got[id] \in during[id]
    BY <1>2, <1>4 DEF Ongoing
  <1>11. collection.version \in offered
    BY <1>2 DEF Ongoing
  <1>12. \A id \in Located, r \in DOMAIN KmipRuleSet : ReportedOf(list, id, r, during[id])
    <2> TAKE id \in Located, r \in DOMAIN KmipRuleSet
    <2>1. PICK o : o = collection.got[id] /\ o \in during[id]
      BY <1>10
    <2> QED BY <1>9, <2>1 DEF ReportedOf
  <1>13. offered' = offered /\ during' = during
    BY <1>1
  <1>14. /\ collection'.version \in offered'
         /\ DOMAIN collection'.got = Located'
         /\ \A id \in Located' : collection'.got[id] \in during'[id]
    BY <1>3, <1>4, <1>8, <1>10, <1>11, <1>13
  <1>15. \A id \in Located', r \in DOMAIN KmipRuleSet : ReportedOf(collection'.findings, id, r, during'[id])
    BY <1>3, <1>8, <1>12, <1>13
  <1> QED BY <1>14, <1>15 DEF KmipReportOfTheTime, ReportedOf

\* What others do to the server changes nothing of what the scan has read.
LEMMA KmipChanged ==
    ASSUME KmipIInv, NEW objects, DOMAIN objects \in SUBSET KmipIds, Changed(objects)
    PROVE  KmipIInv'
  <1>1. /\ collection.at \in {"locate", "read"} /\ collection' = collection /\ offered' = offered
        /\ managed' = objects /\ DOMAIN during' = KmipIds
        /\ \A id \in KmipIds : during'[id] = IF collection.at = "read" /\ during[id] # {} /\ id \in DOMAIN objects
                                             THEN during[id] \cup {objects[id]} ELSE during[id]
    BY DEF Changed, Running
  <1>2. Located' = Located
    BY <1>1 DEF Located
  <1>3. collection.at = "read" => Ongoing'
    <2> SUFFICES ASSUME collection.at = "read" PROVE Ongoing'
      OBVIOUS
    <2>1. Ongoing
      BY DEF KmipIInv
    <2>2. \A id \in Located : id \in KmipIds /\ during[id] # {}
      BY DEF Located
    <2>3. \A id \in DOMAIN collection.got : id \in Located
      BY <2>1 DEF Ongoing
    <2>4. \A id \in DOMAIN collection.got : collection.got[id] \in during'[id]
      BY <1>1, <2>1, <2>2, <2>3 DEF Ongoing
    <2>5. \A id \in Located : id \in DOMAIN objects => objects[id] \in during'[id]
      BY <1>1, <2>2
    <2> QED BY <1>1, <1>2, <2>1, <2>4, <2>5 DEF Ongoing
  <1>4. Fields' /\ (collection'.at \in {"discover", "locate"} => Located' = {})
    BY <1>1, <1>2 DEF KmipIInv, Fields
  <1>5. KmipReportOfTheTime'
    BY <1>1 DEF KmipReportOfTheTime
  <1> QED BY <1>1, <1>3, <1>4, <1>5 DEF KmipIInv

LEMMA KmipFails ==
    ASSUME KmipIInv, Fails
    PROVE  KmipIInv'
  <1>1. collection'.at = "failed" /\ Fields' /\ managed' = managed /\ during' = during
    BY DEF KmipIInv, Fields, Fails
  <1> QED BY <1>1 DEF KmipIInv, KmipReportOfTheTime

LEMMA KmipLocated ==
    ASSUME KmipIInv, locateAll
    PROVE  KmipIInv'
  <1>1. CASE Fails
    BY <1>1, KmipFails
  <1>2. CASE ~Fails
    <2>1. /\ collection.version \in offered /\ offered' = offered /\ managed' = managed
          /\ DOMAIN during' = KmipIds
          /\ \A id \in KmipIds : during'[id] = IF id \in DOMAIN managed THEN {managed[id]} ELSE {}
      BY <1>2 DEF locateAll
    <2>2. PICK ids \in SetToSeqs(DOMAIN managed) :
            collection' = [collection EXCEPT !.at = "read", !.todo = ids, !.got = NoObject]
      BY <1>2 DEF locateAll
    <2>3. /\ Fields' /\ collection'.at = "read" /\ collection'.todo = ids /\ collection'.got = NoObject
          /\ collection'.version = collection.version
      BY <2>2 DEF KmipIInv, Fields
    <2>4. DOMAIN managed \in SUBSET KmipIds
      BY DEF KmipIInv
    <2>5. ids \in Seq(KmipIds) /\ Found(ids) = DOMAIN managed
      BY <2>2, <2>4, ListsOfSet
    <2>6. Located' = DOMAIN managed
      BY <2>1, <2>4 DEF Located
    <2>7. DOMAIN NoObject = {}
      BY DEF NoObject
    <2>8. \A id \in DOMAIN managed : managed[id] \in during'[id]
      BY <2>1, <2>4
    <2>9. Ongoing'
      <3>1. Found(ids)' = Found(collection'.todo)
        BY <2>3
      <3>2. DOMAIN collection'.got \cup Found(collection'.todo) = Located'
        BY <2>3, <2>5, <2>6, <2>7
      <3>3. collection'.version \in offered' /\ collection'.todo \in Seq(KmipIds)
        BY <2>1, <2>3, <2>5
      <3>4. \A id \in DOMAIN collection'.got : collection'.got[id] \in during'[id]
        BY <2>3, <2>7
      <3>5. \A id \in Located' : id \in DOMAIN managed' => managed'[id] \in during'[id]
        BY <2>1, <2>6, <2>8
      <3> QED BY <3>2, <3>3, <3>4, <3>5 DEF Ongoing, Found
    <2> QED BY <2>1, <2>3, <2>4, <2>9 DEF KmipIInv, KmipReportOfTheTime
  <1> QED BY <1>1, <1>2

LEMMA KmipRead ==
    ASSUME KmipIInv, getObject
    PROVE  KmipIInv'
  <1>1. CASE Fails
    BY <1>1, KmipFails
  <1>2. CASE ~Fails
    <2>h. PICK h : h = Head(collection.todo)
      OBVIOUS
    <2>1. /\ collection.at = "read" /\ collection.todo # <<>> /\ h \in DOMAIN managed
          /\ collection' = [collection EXCEPT !.todo = Tail(collection.todo),
                                              !.got = WithObject(collection.got, h, managed[h])]
          /\ offered' = offered /\ managed' = managed /\ during' = during
      BY <1>2, <2>h DEF getObject, Remaining
    <2>2. Ongoing /\ Fields
      BY <2>1 DEF KmipIInv
    <2>3. /\ Fields' /\ collection'.at = "read" /\ collection'.todo = Tail(collection.todo)
          /\ collection'.version = collection.version
          /\ collection'.got = WithObject(collection.got, h, managed[h])
      BY <2>1, <2>2 DEF Fields
    <2>4. /\ DOMAIN collection'.got = DOMAIN collection.got \cup {h}
          /\ \A id \in DOMAIN collection'.got :
                collection'.got[id] = IF id = h THEN managed[h] ELSE collection.got[id]
      BY <2>3 DEF WithObject
    <2>5. /\ Tail(collection.todo) \in Seq(KmipIds)
          /\ Found(collection.todo) = {h} \cup Found(Tail(collection.todo))
      <3> PICK todo : todo = collection.todo
        OBVIOUS
      <3>1. todo \in Seq(KmipIds) /\ todo # <<>> /\ h = Head(todo)
        BY <2>1, <2>2, <2>h DEF Ongoing
      <3> PICK n \in Nat : n = Len(todo) /\ DOMAIN todo = 1..n /\ n > 0
        BY <3>1
      <3>2. Tail(todo) \in Seq(KmipIds) /\ DOMAIN Tail(todo) = 1..n - 1 /\ todo[1] = h
            /\ \A i \in 1..n - 1 : Tail(todo)[i] = todo[i + 1]
        BY <3>1
      <3>3. ASSUME NEW x PROVE x \in Found(todo) <=> x = h \/ x \in Found(Tail(todo))
        <4>1. \A i \in 1..n : i = 1 \/ (i - 1 \in 1..n - 1 /\ Tail(todo)[i - 1] = todo[i])
          BY <3>2
        <4>2. \A i \in 1..n - 1 : i + 1 \in 1..n /\ Tail(todo)[i] = todo[i + 1]
          BY <3>2
        <4>3. 1 \in 1..n
          OBVIOUS
        <4>4. x \in Found(todo) <=> \E i \in 1..n : todo[i] = x
          BY DEF Found
        <4>5. x \in Found(Tail(todo)) <=> \E i \in 1..n - 1 : Tail(todo)[i] = x
          BY <3>2 DEF Found
        <4>6. ASSUME NEW i \in 1..n, todo[i] = x PROVE x = h \/ x \in Found(Tail(todo))
          BY <3>2, <4>1, <4>5, <4>6
        <4>7. ASSUME NEW i \in 1..n - 1, Tail(todo)[i] = x PROVE x \in Found(todo)
          BY <4>2, <4>4, <4>7
        <4>8. h \in Found(todo)
          BY <3>2, <4>3 DEF Found
        <4> QED BY <4>4, <4>5, <4>6, <4>7, <4>8
      <3> QED BY <3>2, <3>3
    <2>6. Located' = Located
      BY <2>1 DEF Located
    <2>7. h \in Located /\ managed[h] \in during[h]
      BY <2>1, <2>2, <2>5 DEF Ongoing
    <2>8. Ongoing'
      <3>1. DOMAIN collection'.got \cup Found(collection'.todo) = Located'
        BY <2>2, <2>3, <2>4, <2>5, <2>6 DEF Ongoing
      <3>2. collection'.version \in offered' /\ collection'.todo \in Seq(KmipIds)
        BY <2>1, <2>2, <2>3, <2>5 DEF Ongoing
      <3>3. \A id \in DOMAIN collection'.got : collection'.got[id] \in during'[id]
        BY <2>1, <2>2, <2>4, <2>7 DEF Ongoing
      <3>4. \A id \in Located' : id \in DOMAIN managed' => managed'[id] \in during'[id]
        BY <2>1, <2>2, <2>6 DEF Ongoing
      <3> QED BY <3>1, <3>2, <3>3, <3>4 DEF Ongoing, Found
    <2> QED BY <2>1, <2>3, <2>8 DEF KmipIInv, KmipReportOfTheTime
  <1> QED BY <1>1, <1>2

\* The report is true of the server while it was scanned, whatever others do to it.
THEOREM KmipReportIsOfItsTime == KmipInit /\ [][KmipNext]_kmipVars => []KmipReportOfTheTime
  <1>1. KmipInit => KmipIInv
    <2> SUFFICES ASSUME KmipInit PROVE KmipIInv
      OBVIOUS
    <2>1. /\ DOMAIN managed \in SUBSET KmipIds /\ collection = Idle
          /\ DOMAIN during = KmipIds /\ \A id \in KmipIds : during[id] = {}
      BY DEF KmipInit
    <2>2. Fields /\ collection.at = "discover"
      BY <2>1 DEF Fields, Idle
    <2> QED BY <2>1, <2>2 DEF KmipIInv, Located, KmipReportOfTheTime
  <1>2. KmipIInv /\ [KmipNext]_kmipVars => KmipIInv'
    <2> SUFFICES ASSUME KmipIInv, [KmipNext]_kmipVars PROVE KmipIInv'
      OBVIOUS
    <2>1. CASE discoverVersions
      <3>1. collection'.at = "locate" /\ Fields' /\ managed' = managed /\ during' = during /\ Located = {}
        BY <2>1 DEF KmipIInv, Fields, discoverVersions
      <3> QED BY <3>1 DEF KmipIInv, KmipReportOfTheTime, Located
    <2>2. CASE locateAll
      BY <2>2, KmipLocated
    <2>3. CASE getObject
      BY <2>3, KmipRead
    <2>4. CASE EvaluateKmip
      <3>1. KmipReportOfTheTime'
        BY <2>4, KmipReported
      <3>2. collection'.at = "done" /\ Fields' /\ managed' = managed /\ during' = during
        BY <2>4 DEF KmipIInv, Fields, EvaluateKmip
      <3> QED BY <3>1, <3>2 DEF KmipIInv
    <2>5. CASE RoundTripFails
      <3>1. Fails
        BY <2>5 DEF RoundTripFails
      <3> QED BY <3>1, KmipFails
    <2>6. CASE Register
      <3>1. PICK id \in KmipIds, kind \in KmipKinds : Changed(WithObject(managed, id, kind))
        BY <2>6 DEF Register
      <3>2. DOMAIN WithObject(managed, id, kind) \in SUBSET KmipIds
        BY DEF KmipIInv, WithObject
      <3> QED BY <3>1, <3>2, KmipChanged
    <2>7. CASE Revoke
      <3>1. PICK id \in DOMAIN managed, state \in {"deactivated", "compromised"} :
                Changed([managed EXCEPT ![id].state = state])
        BY <2>7 DEF Revoke
      <3>2. DOMAIN [managed EXCEPT ![id].state = state] \in SUBSET KmipIds
        BY DEF KmipIInv
      <3> QED BY <3>1, <3>2, KmipChanged
    <2>8. CASE DestroyObject
      <3>1. PICK id \in DOMAIN managed : Changed([other \in DOMAIN managed \ {id} |-> managed[other]])
        BY <2>8 DEF DestroyObject
      <3>2. DOMAIN [other \in DOMAIN managed \ {id} |-> managed[other]] \in SUBSET KmipIds
        BY DEF KmipIInv
      <3> QED BY <3>1, <3>2, KmipChanged
    <2>9. CASE UNCHANGED kmipVars
      BY <2>9 DEF kmipVars, KmipIInv, Fields, Ongoing, Located, Found, KmipReportOfTheTime
    <2> QED BY <2>1, <2>2, <2>3, <2>4, <2>5, <2>6, <2>7, <2>8, <2>9 DEF KmipNext
  <1>3. KmipIInv => KmipReportOfTheTime
    BY DEF KmipIInv
  <1> QED BY <1>1, <1>2, <1>3, PTL

=============================================================================
