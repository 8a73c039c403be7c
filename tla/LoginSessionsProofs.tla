------------------------ MODULE LoginSessionsProofs ------------------------
(***************************************************************************)
(* What holds of accounts and refresh tokens for any number of tabs,       *)
(* e-mails, users, sign-ons and faults.                                    *)
(***************************************************************************)
EXTENDS LoginSessions, FiniteSetTheorems, SequenceTheorems, TLAPS

LEMMA TailIsLeft ==
  ASSUME NEW q \in Seq(Nat), Len(q) > 1
  PROVE  Tail(q) # <<>>
<1>1. q # <<>> /\ Len(q) \in Nat
  BY EmptySeq, LenProperties
<1>2. Len(Tail(q)) = Len(q) - 1
  BY <1>1, HeadTailProperties
<1> DEFINE n == Len(q)
<1> DEFINE m == Len(Tail(q))
<1>3. n \in Nat /\ n > 1 /\ m = n - 1
  BY <1>1, <1>2
<1> HIDE DEF n, m
<1>4. m # 0
  BY <1>3
<1> QED BY <1>4, EmptySeq DEF m

LEMMA TailIsPart ==
  ASSUME NEW q \in Seq(Nat), q # <<>>, NEW i \in 1..Len(Tail(q))
  PROVE  \E j \in 1..Len(q) : Tail(q)[i] = q[j]
<1>1. /\ Len(Tail(q)) = Len(q) - 1 /\ Len(q) \in Nat
      /\ Tail(q)[i] = q[i + 1]
  BY HeadTailProperties, LenProperties
<1> DEFINE n == Len(q)
<1> DEFINE m == Len(Tail(q))
<1>2. n \in Nat /\ m = n - 1 /\ i \in 1..m
  BY <1>1
<1> HIDE DEF n, m
<1>3. i + 1 \in 1..n
  BY <1>2
<1> QED BY <1>1, <1>3 DEF n

USE NoMailAssumption, MaxUsersAssumption, MaxSpentAssumption

Spending == {"revoke", "account", "create"}
Answering == {"link", "answer"}

\* A call that looks for a token has one to try.
Trying ==
  \A t \in Tabs : at[t] \in {"find"} \cup Spending => call[t].try # <<>>

-----------------------------------------------------------------------------
(* Tokens.  A token that was spent is revoked, and apart from the calls    *)
(* that found it at the same time it has one user: a call that spends it,  *)
(* or the token it was spent for.                                          *)

Spends(t, k) == at[t] \in Spending /\ call[t].token = k

SpentIsDead ==
  /\ \A n \in 1..issued : parent[n] \notin live
  /\ \A t \in Tabs : at[t] \in {"account", "create"} => call[t].token \notin live
  /\ \A t \in Tabs : at[t] \in Spending => call[t].token # NoToken

OneSpender ==
  \A k \in Nat \ {NoToken} : k \notin raced =>
    /\ \A s, t \in Tabs : Spends(s, k) /\ Spends(t, k) => s = t
    /\ \A t \in Tabs, n \in 1..issued : ~(Spends(t, k) /\ parent[n] = k)
    /\ \A m, n \in 1..issued : parent[m] = k /\ parent[n] = k => m = n

ParentIssued == \A n \in 1..issued : parent[n] \in 0..issued

-----------------------------------------------------------------------------
(* The browser.  Nobody knows a token before it is answered, so nobody     *)
(* spends it; and while the cookie is spent its successor is on its way.   *)

Fresh(t) ==
  LET n == call[t].token
  IN  /\ n # NoToken /\ n # cookie /\ n # stored
      /\ \A s \in Tabs : /\ n # memory[s]
                         /\ \A i \in 1..Len(call[s].try) : call[s].try[i] # n
                         /\ s # t => call[s].token # n

Known == \A t \in Tabs : \A i \in 1..Len(call[t].try) : call[t].try[i] \in 1..issued

Unheard == \A t \in Tabs : at[t] \in Answering => Fresh(t)
AnswerLives ==
  "revoke" \in faults \/ \A t \in Tabs : at[t] \in Answering => call[t].token \in live
CookieFollowed ==
  \/ faults \cap {"db", "lost", "revoke"} # {}
  \/ cookie \in live \cup {NoToken}
  \/ \E t \in Tabs : at[t] \in {"account", "create", "answer"}

TokenInv == Trying /\ SpentIsDead /\ OneSpender /\ ParentIssued
BrowserInv == Known /\ Unheard /\ AnswerLives /\ CookieFollowed

-----------------------------------------------------------------------------
(* Accounts.  Before the identity is linked one sign-on goes on at a time, *)
(* and the only account is the one it has inserted; afterwards the account *)
(* that is linked is the only one.  A refresh finds it by the e-mail it    *)
(* has read, which has not changed.                                        *)

Sole(u) ==
  /\ mail[u] # NoMail /\ \A v \in Users : mail[v] # NoMail => v = u
  /\ \A n \in 1..issued : owner[n] = u
  /\ \A t \in Tabs : at[t] = "create" => entry[t].mail = mail[u] /\ entry[t].user = u

OneAccount(u) ==
  /\ Sole(u)
  /\ \A t \in Tabs : /\ at[t] \in {"update", "open", "link"} => entry[t].user = u
                     /\ at[t] # "insert"

Nobody == (\A v \in Users : mail[v] = NoMail) /\ issued = 0

FirstSignOn(t) ==
  /\ \A s \in Tabs : at[s] \in SignOn => s = t
  /\ at[t] \in {"lookup", "insert"} => Nobody
  /\ at[t] # "update"
  /\ at[t] \in {"open", "link"} => Sole(entry[t].user)

AccountInv ==
  \/ split \/ direct
  \/ identity # NoUser /\ OneAccount(identity)
  \/ /\ identity = NoUser
     /\ \/ Nobody /\ \A t \in Tabs : at[t] \notin SignOn
        \/ \E t \in Tabs : at[t] \in SignOn /\ FirstSignOn(t)

\* A sign-on has an e-mail, and a user where it needs one; only the account
\* that is not of the LMS has a password.
HasUser ==
  \A t \in Tabs : /\ at[t] \in SignOn => entry[t].mail \in Emails
                  /\ at[t] \in {"update", "open", "link"} => entry[t].user \in Users
                  /\ at[t] = "password" => direct

IInv == TypeOK /\ TokenInv /\ BrowserInv /\ HasUser /\ AccountInv

LEMMA InitIInv == Init => IInv
<1> SUFFICES ASSUME Init PROVE IInv
  OBVIOUS
<1> USE DEF Init, SsoInit, issued, NoToken, NoCall, NoUser
<1>1. TypeOK
  <2>1. mail \in [Users -> Emails \cup {NoMail}]
    OBVIOUS
  <2>2. parent \in Seq(Nat) /\ issued = 0 /\ owner \in Seq(Users) /\ Len(owner) = 0
    OBVIOUS
  <2>3. [try |-> <<>>, token |-> 0] \in [try : Seq(Nat), token : 0..issued]
    BY <2>2
  <2>4. call \in [Tabs -> [try : Seq(Nat), token : 0..issued]]
    BY <2>3
  <2>5. /\ live \subseteq 1..issued /\ cookie \in 0..issued /\ stored \in 0..issued
        /\ memory \in [Tabs -> 0..issued] /\ spent \in 0..MaxSpent
    BY <2>2
  <2> HIDE DEF issued, NoToken, NoCall
  <2> QED BY <2>1, <2>2, <2>4, <2>5 DEF TypeOK, Places
<1>2. TokenInv
  BY DEF TokenInv, Trying, SpentIsDead, OneSpender, ParentIssued, Spends, Spending
<1>3. BrowserInv
  BY DEF BrowserInv, Known, Unheard, AnswerLives, CookieFollowed, Answering
<1>4. HasUser
  BY DEF HasUser, SignOn
<1>5. AccountInv
  <2>1. CASE direct
    BY <2>1 DEF AccountInv
  <2>2. CASE ~direct
    <3>1. Nobody /\ \A t \in Tabs : at[t] \notin SignOn
      BY <2>2 DEF Nobody, SignOn
    <3> QED BY <3>1 DEF AccountInv
  <2> QED BY <2>1, <2>2
<1> QED BY <1>1, <1>2, <1>3, <1>4, <1>5 DEF IInv

-----------------------------------------------------------------------------
(* Types. *)

CallType == [try : Seq(Nat), token : 0..issued]

\* Opening a session.
LEMMA IssueTypes ==
  ASSUME TypeOK, NEW t \in Tabs, NEW old \in Nat, NEW u \in Users, Issue(t, old, u)
  PROVE  /\ parent' \in Seq(Nat) /\ issued' = issued + 1 /\ issued \in Nat
         /\ parent'[issued + 1] = old
         /\ \A n \in 1..issued : parent'[n] = parent[n]
         /\ owner' \in Seq(Users) /\ Len(owner') = issued'
         /\ \A n \in 1..issued' : owner'[n] = IF n = issued + 1 THEN u ELSE owner[n]
         /\ live' \subseteq 1..issued'
         /\ call' \in [Tabs -> [try : Seq(Nat), token : 0..issued']]
<1>1. parent' \in Seq(Nat) /\ issued' = issued + 1 /\ issued \in Nat
  BY DEF TypeOK, Issue, issued
<1>2. /\ parent'[issued + 1] = old
      /\ \A n \in 1..issued : parent'[n] = parent[n]
  BY DEF TypeOK, Issue, issued
<1>3. live' \subseteq 1..issued'
  BY <1>1 DEF TypeOK, Issue
<1>4. [try |-> <<>>, token |-> issued + 1] \in [try : Seq(Nat), token : 0..issued']
  BY <1>1
<1>5. call' \in [Tabs -> [try : Seq(Nat), token : 0..issued']]
  BY <1>1, <1>4 DEF TypeOK, Issue
<1>6. /\ owner \in Seq(Users) /\ Len(owner) = issued /\ owner' = Append(owner, u)
  BY DEF TypeOK, Issue
<1>7. /\ owner' \in Seq(Users) /\ Len(owner') = issued'
      /\ \A n \in 1..issued' : owner'[n] = IF n = issued + 1 THEN u ELSE owner[n]
  BY <1>1, <1>6
<1> QED BY <1>1, <1>2, <1>3, <1>5, <1>7

\* createVLabSession opens a session for a user and inserts at most that user.
LEMMA VLabOpens ==
  ASSUME TypeOK, NEW t \in Tabs, NEW old \in Nat, CreateVLabSession(t, old),
         entry[t].mail \in Emails \cup {NoMail}
  PROVE  /\ \E u \in Users :
              /\ Issue(t, old, u)
              /\ \/ mail[u] = entry[t].mail /\ mail' = mail
                 \/ /\ \A v \in Users : mail[v] # entry[t].mail
                    /\ mail' = [mail EXCEPT ![u] = entry[t].mail]
         /\ mail' \in [Users -> Emails \cup {NoMail}]
         /\ at' = [at EXCEPT ![t] = "answer"]
         /\ UNCHANGED <<identity, direct, split, entry, browserVars, historyVars>>
<1>1. PICK u \in Users :
        /\ Issue(t, old, u)
        /\ \/ u \in Owner(entry[t].mail) /\ mail' = mail
           \/ InsertUser(u, entry[t].mail)
  BY DEF CreateVLabSession
<1>2. \/ mail[u] = entry[t].mail /\ mail' = mail
      \/ /\ \A v \in Users : mail[v] # entry[t].mail
         /\ mail' = [mail EXCEPT ![u] = entry[t].mail]
  BY <1>1 DEF Owner, InsertUser
<1>3. mail' \in [Users -> Emails \cup {NoMail}]
  BY <1>2 DEF TypeOK
<1>4. /\ at' = [at EXCEPT ![t] = "answer"]
      /\ UNCHANGED <<identity, direct, split, entry, browserVars, historyVars>>
  BY DEF CreateVLabSession, Move
<1> QED BY <1>1, <1>2, <1>3, <1>4

LEMMA CandidatesTypes ==
  ASSUME TypeOK, NEW t \in Tabs
  PROVE  /\ Candidates(t) \in Seq(Nat)
         /\ \A i \in 1..Len(Candidates(t)) :
              /\ Candidates(t)[i] \in {cookie, stored} \cup {memory[t]}
              /\ Candidates(t)[i] # NoToken
<1>1. cookie \in Nat /\ stored \in Nat /\ memory[t] \in Nat
  BY DEF TypeOK, issued
<1> QED BY <1>1 DEF Candidates, NoToken

EntryType == [mail : Emails \cup {NoMail}, user : Users \cup {NoUser}]

LEMMA EntryTypes ==
  ASSUME TypeOK, NEW t \in Tabs, NEW u \in Users \cup {NoUser}
  PROVE  /\ [entry EXCEPT ![t].user = u] \in [Tabs -> EntryType]
         /\ NoUser \in Users \cup {NoUser} /\ entry \in [Tabs -> EntryType]
<1>1. entry \in [Tabs -> EntryType]
  BY DEF TypeOK, EntryType
<1>2. [entry[t] EXCEPT !.user = u] \in EntryType
  BY <1>1 DEF EntryType
<1>3. [entry EXCEPT ![t].user = u] \in [Tabs -> EntryType]
  BY <1>1, <1>2
<1> QED BY <1>1, <1>3

LEMMA FoundTypes ==
  ASSUME TypeOK, NEW t \in Tabs, NEW n \in 0..issued
  PROVE  [call EXCEPT ![t].token = n] \in [Tabs -> CallType]
<1>1. call \in [Tabs -> CallType]
  BY DEF TypeOK, CallType
<1>2. [call[t] EXCEPT !.token = n] \in CallType
  BY <1>1 DEF CallType
<1> QED BY <1>1, <1>2

LEMMA TryNextTypes ==
  ASSUME TypeOK, Trying, NEW t \in Tabs, at[t] \in {"find"} \cup Spending, TryNext(t)
  PROVE  call' \in [Tabs -> CallType] /\ at' \in [Tabs -> Places]
<1>1. Tail(call[t].try) \in Seq(Nat) /\ 0 \in 0..issued
  BY DEF TypeOK, Trying, issued
<1>2. [try |-> Tail(call[t].try), token |-> NoToken] \in CallType
  BY <1>1 DEF CallType, NoToken
<1>3. call' \in [Tabs -> CallType]
  BY <1>2 DEF TypeOK, TryNext, CallType
<1>4. at' \in [Tabs -> Places]
  BY DEF TypeOK, TryNext, Move, Places
<1> QED BY <1>3, <1>4

LEMMA TypeStep == TypeOK /\ TokenInv /\ HasUser /\ [Next]_vars => TypeOK'
<1> SUFFICES ASSUME TypeOK, Trying, SpentIsDead, HasUser, [Next]_vars PROVE TypeOK'
  BY DEF TokenInv
<1> USE DEF tokenVars, browserVars, historyVars, accountVars, Accounts, Spend, Goes
<1>0. issued \in Nat /\ spent \in 0..MaxSpent /\ issued + 1 \in Nat
  BY DEF TypeOK, issued
<1>1. ASSUME UNCHANGED <<parent, owner, live, cookie, stored, memory, call>>
      PROVE  /\ parent' \in Seq(Nat) /\ live' \subseteq 1..issued'
             /\ owner' \in Seq(Users) /\ Len(owner') = issued'
             /\ cookie' \in 0..issued' /\ stored' \in 0..issued'
             /\ memory' \in [Tabs -> 0..issued']
             /\ call' \in [Tabs -> [try : Seq(Nat), token : 0..issued']]
  BY <1>1 DEF TypeOK, issued
<1>2. ASSUME NEW t \in Tabs, StartSignOn(t) PROVE TypeOK'
  BY <1>0, <1>1, <1>2 DEF StartSignOn, VerifyToken, Move, TypeOK, Places, SignOn
<1>16. ASSUME NEW t \in Tabs, NEW u \in Users \cup {NoUser}, Takes(t, u)
       PROVE  entry' \in [Tabs -> EntryType] /\ at' \in [Tabs -> Places]
  <2>1. entry' \in [Tabs -> EntryType]
    BY <1>16, EntryTypes DEF Takes
  <2>2. at' \in [Tabs -> Places]
    BY <1>16 DEF Takes, Move, TypeOK, Places, SignOn
  <2> QED BY <2>1, <2>2
<1>3. ASSUME NEW t \in Tabs, FindAccount(t) PROVE TypeOK'
  <2>1. CASE LookUp(t)
    <3>1. entry' \in [Tabs -> EntryType] /\ at' \in [Tabs -> Places]
      BY <1>16, <2>1 DEF LookUp
    <3> QED BY <1>1, <1>3, <2>1, <3>1 DEF FindAccount, LookUp, TypeOK, EntryType
  <2>2. CASE InsertStudent(t)
    <3>1. entry' \in [Tabs -> EntryType]
      <4>1. CASE UNCHANGED entry
        BY <4>1, EntryTypes
      <4>2. ASSUME NEW u \in Users, entry' = [entry EXCEPT ![t].user = u]
            PROVE  entry' \in [Tabs -> EntryType]
        BY <4>2, EntryTypes
      <4> QED BY <2>2, <4>1, <4>2 DEF InsertStudent
    <3>2. at' \in [Tabs -> Places]
      BY <2>2 DEF InsertStudent, Move, TypeOK, Places, SignOn
    <3>3. mail' \in [Users -> Emails \cup {NoMail}]
      BY <2>2 DEF InsertStudent, InsertUser, TypeOK
    <3> QED BY <1>1, <1>3, <2>2, <3>1, <3>2, <3>3 DEF FindAccount, InsertStudent, TypeOK, EntryType
  <2>3. CASE UpdateStudent(t)
    BY <1>1, <1>3, <2>3 DEF FindAccount, UpdateStudent, BeingRead, Move, TypeOK, Places, SignOn
  <2>4. CASE LinkIdentity(t)
    BY <1>1, <1>3, <2>4 DEF FindAccount, LinkIdentity, Move, TypeOK, Places, SignOn
  <2> QED BY <1>3, <2>1, <2>2, <2>3, <2>4 DEF FindAccount, Account
<1>4. ASSUME NEW t \in Tabs, SignOnFails(t) PROVE TypeOK'
  <2>1. /\ spent' \in 0..MaxSpent /\ faults' \subseteq Faults /\ raced' = raced
        /\ UNCHANGED <<parent, owner, live, cookie, stored, memory, access, signedOut, call>>
    BY <1>0, <1>4 DEF SignOnFails, TypeOK
  <2>2. CASE LookUpFails(t)
    <3>1. entry' \in [Tabs -> EntryType] /\ at' \in [Tabs -> Places]
      BY <1>16, <2>2 DEF LookUpFails
    <3> QED BY <1>1, <2>1, <2>2, <3>1 DEF LookUpFails, TypeOK, EntryType
  <2>3. CASE LinkFails(t)
    BY <1>1, <2>1, <2>3 DEF LinkFails, Move, TypeOK, Places
  <2>4. CASE SignOnThrows(t)
    BY <1>1, <2>1, <2>4 DEF SignOnThrows, Move, TypeOK, Places
  <2> QED BY <1>4, <2>2, <2>3, <2>4 DEF SignOnFails
<1>5. ASSUME NEW t \in Tabs, NEW old \in 0..issued, NEW u \in Users, Issue(t, old, u),
             UNCHANGED <<cookie, stored, memory>>
      PROVE  /\ parent' \in Seq(Nat) /\ live' \subseteq 1..issued'
             /\ owner' \in Seq(Users) /\ Len(owner') = issued'
             /\ cookie' \in 0..issued' /\ stored' \in 0..issued'
             /\ memory' \in [Tabs -> 0..issued']
             /\ call' \in [Tabs -> [try : Seq(Nat), token : 0..issued']]
  <2>1. /\ parent' \in Seq(Nat) /\ live' \subseteq 1..issued' /\ issued' = issued + 1
        /\ owner' \in Seq(Users) /\ Len(owner') = issued'
        /\ call' \in [Tabs -> [try : Seq(Nat), token : 0..issued']]
    BY <1>0, <1>5, IssueTypes
  <2>2. cookie \in 0..issued /\ stored \in 0..issued /\ memory \in [Tabs -> 0..issued]
    BY DEF TypeOK
  <2> QED BY <1>0, <1>5, <2>1, <2>2
<1>17. ASSUME NEW t \in Tabs, NEW m \in Emails \cup {NoMail}, NEW u \in Users
       PROVE  [entry EXCEPT ![t] = [mail |-> m, user |-> u]] \in [Tabs -> EntryType]
  BY DEF TypeOK, EntryType
<1>6. ASSUME NEW t \in Tabs, StartLogin(t) \/ AccessExpires(t) \/ SignOut(t) PROVE TypeOK'
  <2>1. CASE StartLogin(t)
    <3>1. 1 \in Users
      BY DEF Users
    <3>2. entry' \in [Tabs -> EntryType]
      <4>1. mail[1] \in Emails \cup {NoMail}
        BY <3>1 DEF TypeOK
      <4> QED BY <1>17, <2>1, <3>1, <4>1 DEF StartLogin
    <3> QED BY <1>0, <1>1, <2>1, <3>2 DEF StartLogin, Move, TypeOK, Places, EntryType
  <2>2. CASE AccessExpires(t)
    BY <1>0, <1>1, <2>2 DEF AccessExpires, TypeOK
  <2>3. CASE SignOut(t)
    BY <1>0, <2>3 DEF SignOut, TypeOK, NoToken, issued
  <2> QED BY <1>6, <2>1, <2>2, <2>3
<1>18. ASSUME NEW t \in Tabs, NEW old \in 0..issued, CreateVLabSession(t, old)
       PROVE  TypeOK'
  <2>1. entry[t].mail \in Emails \cup {NoMail} /\ old \in Nat
    BY <1>0 DEF TypeOK
  <2>2. PICK u \in Users : Issue(t, old, u)
    BY <1>18, <2>1, VLabOpens
  <2>3. /\ mail' \in [Users -> Emails \cup {NoMail}] /\ at' = [at EXCEPT ![t] = "answer"]
        /\ UNCHANGED <<identity, direct, split, entry, cookie, stored, memory, access,
                       signedOut, spent, faults, raced>>
    BY <1>18, <2>1, VLabOpens
  <2> QED BY <1>5, <2>2, <2>3 DEF TypeOK, Places
<1>7. ASSUME NEW t \in Tabs, OpenLogin(t) \/ OpenSession(t) \/ CreateSession(t) PROVE TypeOK'
  <2>1. NoToken \in 0..issued /\ call[t].token \in 0..issued
    BY <1>0 DEF TypeOK, NoToken
  <2>2. CASE OpenLogin(t)
    BY <1>18, <2>1, <2>2 DEF OpenLogin
  <2>3. CASE OpenSession(t)
    <3>1. entry[t].user \in Users
      BY <2>3 DEF OpenSession, HasUser
    <3> QED BY <1>5, <2>1, <2>3, <3>1 DEF OpenSession, Move, TypeOK, Places, SignOn
  <2>4. CASE CreateSession(t)
    BY <1>18, <2>1, <2>4 DEF CreateSession
  <2> QED BY <1>7, <2>2, <2>3, <2>4
<1>19. ASSUME NEW t \in Tabs, ReadAccount(t) PROVE TypeOK'
  <2>1. owner[call[t].token] \in Users
    <3>1. call[t].token \in 1..issued
      BY <1>0, <1>19 DEF ReadAccount, Spending, SpentIsDead, TypeOK, NoToken
    <3> QED BY <1>0, <3>1 DEF TypeOK
  <2>2. entry' \in [Tabs -> EntryType]
    <3>1. mail[owner[call[t].token]] \in Emails \cup {NoMail}
      BY <2>1 DEF TypeOK
    <3> QED BY <1>17, <1>19, <2>1, <3>1 DEF ReadAccount
  <2> QED BY <1>1, <1>19, <2>2 DEF ReadAccount, Move, TypeOK, Places, EntryType
<1>8. ASSUME NEW t \in Tabs, AskRefresh(t) PROVE TypeOK'
  <2>1. [try |-> Candidates(t), token |-> NoToken] \in [try : Seq(Nat), token : 0..issued]
    BY <1>0, CandidatesTypes DEF NoToken
  <2>2. call' \in [Tabs -> [try : Seq(Nat), token : 0..issued]]
    BY <1>8, <2>1 DEF AskRefresh, TypeOK
  <2>3. at' \in [Tabs -> Places]
    BY <1>8 DEF AskRefresh, Move, TypeOK, Places
  <2> QED BY <1>8, <2>2, <2>3 DEF AskRefresh, TypeOK, issued
<1>9. ASSUME NEW t \in Tabs, FindToken(t) PROVE TypeOK'
  <2>1. CASE TryNext(t) /\ UNCHANGED raced
    BY <1>9, <2>1, TryNextTypes DEF FindToken, TypeOK, CallType, issued
  <2>2. CASE Head(call[t].try) \in live /\ Found(t, Head(call[t].try))
    <3>1. Head(call[t].try) \in 0..issued /\ Head(call[t].try) \in Nat
      <4>1. live \subseteq 1..issued
        BY DEF TypeOK
      <4>2. Head(call[t].try) \in 1..issued
        BY <2>2, <4>1
      <4> QED BY <1>0, <4>2
    <3>2. call' \in [Tabs -> [try : Seq(Nat), token : 0..issued]]
      BY <2>2, <3>1, FoundTypes DEF Found, CallType
    <3>3. raced' \subseteq Nat /\ at' \in [Tabs -> Places]
      BY <2>2, <3>1 DEF Found, Move, TypeOK, Places
    <3> QED BY <1>9, <3>2, <3>3 DEF FindToken, TypeOK, issued
  <2> QED BY <1>9, <2>1, <2>2 DEF FindToken
<1>10. ASSUME NEW t \in Tabs, RefreshFails(t) PROVE TypeOK'
  <2>1. call' \in [Tabs -> CallType] /\ at' \in [Tabs -> Places]
    BY <1>10, TryNextTypes DEF RefreshFails, Spending
  <2>2. spent' \in 0..MaxSpent /\ faults' \subseteq Faults
    BY <1>0, <1>10 DEF RefreshFails, TypeOK
  <2> QED BY <1>10, <2>1, <2>2 DEF RefreshFails, TypeOK, CallType, issued
<1>11. ASSUME NEW t \in Tabs, RevokeToken(t) PROVE TypeOK'
  BY <1>11 DEF RevokeToken, Move, TypeOK, Places, issued
<1>12. ASSUME NEW t \in Tabs, Answer(t) \/ AnswerLost(t) PROVE TypeOK'
  <2>1. NoCall \in [try : Seq(Nat), token : 0..issued] /\ call[t].token \in 0..issued
    BY <1>0 DEF NoCall, NoToken, TypeOK
  <2>2. call' \in [Tabs -> [try : Seq(Nat), token : 0..issued]] /\ at' \in [Tabs -> Places]
    <3>1. call' = [call EXCEPT ![t] = NoCall] /\ at' = [at EXCEPT ![t] = "idle"]
      BY <1>12 DEF Answer, AnswerLost, Move
    <3>2. /\ call \in [Tabs -> [try : Seq(Nat), token : 0..issued]]
          /\ at \in [Tabs -> Places] /\ "idle" \in Places
      BY DEF TypeOK, Places
    <3> QED BY <2>1, <3>1, <3>2
  <2>3. CASE Answer(t)
    BY <2>1, <2>2, <2>3 DEF Answer, TypeOK, issued
  <2>4. CASE AnswerLost(t)
    BY <1>0, <2>2, <2>4 DEF AnswerLost, TypeOK, issued
  <2> QED BY <1>12, <2>3, <2>4
<1>13. ASSUME NEW t \in Tabs, Reload(t) PROVE TypeOK'
  BY <1>13 DEF Reload, TypeOK, issued
<1>14. CASE RevokeSession
  BY <1>0, <1>14 DEF RevokeSession, TypeOK, issued
<1>15. CASE UNCHANGED vars
  BY <1>1, <1>15 DEF vars, TypeOK
<1> QED
  BY <1>2, <1>3, <1>4, <1>6, <1>7, <1>8, <1>9, <1>10, <1>11, <1>12, <1>13, <1>14, <1>15,
     <1>19 DEF Next, Refresh

-----------------------------------------------------------------------------
(* Who spends which token. *)

\* Sign-ons and what the browser does concern no token of a call.
Quiet ==
  /\ UNCHANGED <<parent, live, raced, call>>
  /\ \A t \in Tabs : at'[t] \in {"find"} \cup Spending => at'[t] = at[t]

LEMMA QuietSteps ==
  ASSUME TypeOK, NEW t \in Tabs,
         \/ StartSignOn(t) \/ FindAccount(t) \/ SignOnFails(t) \/ StartLogin(t)
         \/ AccessExpires(t) \/ Reload(t) \/ SignOut(t)
  PROVE  Quiet
<1> USE DEF Quiet, Spending, Move, TypeOK, accountVars, tokenVars, browserVars, historyVars,
            Accounts, Spend, Goes
<1>1. CASE StartSignOn(t)    BY <1>1 DEF StartSignOn, VerifyToken
<1>2. CASE FindAccount(t)
  BY <1>2 DEF FindAccount, Account, LookUp, Takes, InsertStudent, UpdateStudent, LinkIdentity
<1>3. CASE SignOnFails(t)
  BY <1>3 DEF SignOnFails, LookUpFails, Takes, LinkFails, SignOnThrows
<1>4. CASE StartLogin(t)     BY <1>4 DEF StartLogin
<1>5. CASE AccessExpires(t) \/ Reload(t) \/ SignOut(t)
  BY <1>5 DEF AccessExpires, Reload, SignOut
<1> QED BY <1>1, <1>2, <1>3, <1>4, <1>5

\* A session is opened for the token old, or for none, by the call of t.
Opens(t, old) == /\ \E u \in Users : Issue(t, old, u)
                 /\ at' = [at EXCEPT ![t] = IF at[t] = "open" THEN "link" ELSE "answer"]
                 /\ UNCHANGED <<cookie, stored, memory, faults, raced>>

Opening(t) == OpenLogin(t) \/ OpenSession(t) \/ CreateSession(t)

Old(t) == IF at[t] = "create" THEN call[t].token ELSE NoToken

LEMMA OpeningOpens ==
  ASSUME TypeOK, TokenInv, HasUser, NEW t \in Tabs, Opening(t)
  PROVE  /\ Old(t) \in Nat /\ Opens(t, Old(t)) /\ at[t] # "answer"
         /\ at[t] = "create" => Old(t) # NoToken
<1>0. /\ NoToken \in Nat /\ call[t].token \in Nat
      /\ entry[t].mail \in Emails \cup {NoMail}
  BY DEF NoToken, TypeOK, issued
<1> USE DEF historyVars, browserVars, Opens, Old
<1>1. CASE OpenLogin(t)
  BY <1>0, <1>1, VLabOpens DEF OpenLogin
<1>2. CASE OpenSession(t)
  BY <1>0, <1>2 DEF OpenSession, HasUser, Move
<1>3. CASE CreateSession(t)
  BY <1>0, <1>3, VLabOpens DEF CreateSession, TokenInv, SpentIsDead, Spending
<1> QED BY <1>1, <1>2, <1>3 DEF Opening

LEMMA TokenStep == TypeOK /\ TokenInv /\ HasUser /\ [Next]_vars => TokenInv'
<1> SUFFICES ASSUME TypeOK, TokenInv, HasUser, [Next]_vars PROVE TokenInv'
  OBVIOUS
<1> USE DEF TokenInv
<1>0. issued \in Nat /\ at \in [Tabs -> Places] /\ parent \in Seq(Nat)
      /\ call \in [Tabs -> CallType] /\ live \subseteq 1..issued
  BY DEF TypeOK, issued, CallType
<1>1. ASSUME Quiet PROVE TokenInv'
  BY <1>1 DEF Quiet, Trying, SpentIsDead, OneSpender, ParentIssued, Spends, Spending, issued
<1>2. ASSUME NEW t \in Tabs, AskRefresh(t) PROVE TokenInv'
  BY <1>0, <1>2 DEF AskRefresh, Move, Trying, SpentIsDead, OneSpender, ParentIssued, Spends,
     Spending, issued, tokenVars, historyVars
<1>3. ASSUME NEW t \in Tabs, at[t] \in {"find"} \cup Spending, TryNext(t),
             UNCHANGED <<parent, live, raced>>
      PROVE  TokenInv'
  <2>1. at'[t] \in {"find", "idle"} /\ \A s \in Tabs \ {t} : at'[s] = at[s] /\ call'[s] = call[s]
    BY <1>0, <1>3 DEF TryNext, Move
  <2>2. at'[t] = "find" => call'[t].try # <<>>
    <3>1. call[t].try \in Seq(Nat) /\ call[t].try # <<>>
      BY <1>0, <1>3 DEF CallType, Trying
    <3>2. at'[t] = "find" => Len(call[t].try) > 1
      BY <1>0, <1>3 DEF TryNext, Move
    <3>3. call'[t].try = Tail(call[t].try)
      BY <1>0, <1>3 DEF TryNext
    <3> QED BY <3>1, <3>2, <3>3, TailIsLeft
  <2>3. Trying'
    BY <2>1, <2>2 DEF Trying, Spending
  <2>4. SpentIsDead' /\ OneSpender' /\ ParentIssued'
    BY <1>3, <2>1 DEF SpentIsDead, OneSpender, ParentIssued, Spends, Spending, issued
  <2> QED BY <2>3, <2>4
<1>4. ASSUME NEW t \in Tabs, at[t] = "find", Head(call[t].try) \in live,
             Found(t, Head(call[t].try)), UNCHANGED <<parent, live>>
      PROVE  TokenInv'
  <2> DEFINE k == Head(call[t].try)
  <2>1. k \in 1..issued
    BY <1>0, <1>4
  <2>2. /\ at'[t] = "revoke" /\ call'[t] = [call[t] EXCEPT !.token = k]
        /\ \A s \in Tabs \ {t} : at'[s] = at[s] /\ call'[s] = call[s]
    BY <1>0, <1>4 DEF Found, Move
  <2>3. call'[t].token = k /\ call'[t].try = call[t].try
    BY <1>0, <2>2 DEF CallType
  <2>4. raced \subseteq raced'
        /\ \A s \in Tabs \ {t} : at[s] = "revoke" /\ call[s].token = k => k \in raced'
    BY <1>4 DEF Found
  <2>5. Trying' /\ SpentIsDead' /\ ParentIssued'
    <3>1. Trying'
      BY <1>4, <2>2, <2>3 DEF Trying, Spending
    <3>2. k # NoToken
      BY <1>0, <2>1 DEF NoToken
    <3>3. SpentIsDead'
      BY <1>4, <2>2, <2>3, <3>2 DEF SpentIsDead, Spending, issued
    <3>4. ParentIssued'
      BY <1>4 DEF ParentIssued, issued
    <3> QED BY <3>1, <3>3, <3>4
  \* k is not revoked, so only a call that found it too can be spending it.
  <2>6. /\ \A s \in Tabs \ {t} : Spends(s, k) => k \in raced'
        /\ \A n \in 1..issued : parent[n] # k
    BY <1>4, <2>4 DEF SpentIsDead, Spends, Spending
  <2>7. OneSpender'
    <3>1. \A j, s : s \in Tabs => (Spends(s, j)' <=> IF s = t THEN j = k ELSE Spends(s, j))
      BY <2>2, <2>3 DEF Spends, Spending
    <3>2. ASSUME NEW j \in Nat \ {NoToken}, j \notin raced'
          PROVE  /\ \A r, s \in Tabs : Spends(r, j)' /\ Spends(s, j)' => r = s
                 /\ \A s \in Tabs, n \in 1..issued : ~(Spends(s, j)' /\ parent[n] = j)
                 /\ \A m, n \in 1..issued : parent[m] = j /\ parent[n] = j => m = n
      <4> HIDE DEF k
      <4>1. CASE j = k
        BY <2>4, <2>6, <3>1, <3>2, <4>1 DEF OneSpender
      <4>2. CASE j # k
        BY <2>4, <3>1, <3>2, <4>2 DEF OneSpender
      <4> QED BY <4>1, <4>2
    <3>3. parent' = parent /\ issued' = issued /\ NoToken' = NoToken
      BY <1>4 DEF issued, NoToken
    <3> QED BY <3>2, <3>3 DEF OneSpender
  <2> QED BY <2>5, <2>7
<1>5. ASSUME NEW t \in Tabs, RevokeToken(t) \/ ReadAccount(t) PROVE TokenInv'
  <2>1. CASE RevokeToken(t)
    BY <1>0, <2>1 DEF RevokeToken, Move, Trying, SpentIsDead, OneSpender, ParentIssued, Spends,
       Spending, issued, historyVars
  <2>2. CASE ReadAccount(t)
    BY <1>0, <2>2 DEF ReadAccount, Move, Trying, SpentIsDead, OneSpender, ParentIssued, Spends,
       Spending, issued, historyVars, tokenVars
  <2> QED BY <1>5, <2>1, <2>2
<1>6. ASSUME NEW t \in Tabs, Opening(t) PROVE TokenInv'
  <2> DEFINE old == Old(t)
  <2>0. /\ old \in Nat /\ Opens(t, old)
        /\ old # NoToken => at[t] = "create" /\ old = call[t].token
        /\ old = NoToken => at[t] # "create"
    BY <1>6, OpeningOpens DEF Old
  <2> HIDE DEF old
  <2> PICK w \in Users : Issue(t, old, w)
    BY <2>0 DEF Opens
  <2>1. /\ issued' = issued + 1 /\ parent'[issued + 1] = old
        /\ \A n \in 1..issued : parent'[n] = parent[n]
    BY <2>0, IssueTypes
  <2>2. /\ at'[t] \in Answering /\ live' = live \cup {issued + 1}
        /\ \A s \in Tabs \ {t} : at'[s] = at[s] /\ call'[s] = call[s]
    BY <1>0, <2>0 DEF Opens, Issue, Answering
  <2>3. old \in 0..issued /\ (old # NoToken => old \notin live /\ Spends(t, old))
    BY <1>0, <2>0 DEF SpentIsDead, Spends, Spending, CallType, NoToken
  <2>4. Trying' /\ ParentIssued'
    <3>1. Trying'
      BY <2>2 DEF Trying, Spending, Answering
    <3>2. ParentIssued'
      <4>1. ASSUME NEW n \in 1..issued' PROVE parent'[n] \in 0..issued'
        <5>1. CASE n = issued + 1
          BY <1>0, <2>1, <2>3, <5>1
        <5>2. CASE n \in 1..issued
          BY <1>0, <2>1, <5>2 DEF ParentIssued
        <5> QED BY <1>0, <2>1, <5>1, <5>2
      <4> QED BY <4>1 DEF ParentIssued
    <3> QED BY <3>1, <3>2
  <2>5. SpentIsDead'
    <3>1. \A n \in 1..issued' : parent'[n] \notin live'
      <4>1. 0 \notin live /\ issued + 1 \notin 0..issued
        BY <1>0
      <4>2. parent'[issued + 1] \notin live'
        BY <2>1, <2>2, <2>3, <4>1 DEF NoToken
      <4>3. \A n \in 1..issued : parent'[n] \notin live'
        BY <2>1, <2>2, <4>1 DEF SpentIsDead, ParentIssued
      <4>4. \A n \in 1..issued' : n = issued + 1 \/ n \in 1..issued
        BY <1>0, <2>1
      <4> QED BY <4>2, <4>3, <4>4
    <3>2. \A s \in Tabs : call[s].token \in 0..issued
      BY <1>0 DEF CallType
    <3> QED BY <1>0, <2>2, <3>1, <3>2 DEF SpentIsDead, Spending, Answering, NoToken
  <2>6. OneSpender'
    <3>1. \A n \in 1..issued' : parent'[n] = IF n = issued + 1 THEN old ELSE parent[n]
      BY <1>0, <2>1
    <3>2. \A j, s : s \in Tabs => (Spends(s, j)' <=> s # t /\ Spends(s, j))
      BY <2>2 DEF Spends, Spending, Answering
    <3>3. raced' = raced /\ NoToken' = NoToken
      BY <2>0 DEF Opens, NoToken
    <3>4. ASSUME NEW j \in Nat \ {NoToken}, j \notin raced
          PROVE  /\ \A r, s \in Tabs : Spends(r, j)' /\ Spends(s, j)' => r = s
                 /\ \A s \in Tabs, n \in 1..issued' : ~(Spends(s, j)' /\ parent'[n] = j)
                 /\ \A m, n \in 1..issued' : parent'[m] = j /\ parent'[n] = j => m = n
      <4>1. CASE j = old
        BY <1>0, <2>1, <2>3, <3>1, <3>2, <3>4, <4>1 DEF OneSpender
      <4>2. CASE j # old
        BY <1>0, <2>1, <3>1, <3>2, <3>4, <4>2 DEF OneSpender
      <4> QED BY <4>1, <4>2
    <3> QED BY <3>3, <3>4 DEF OneSpender
  <2> QED BY <2>4, <2>5, <2>6
<1>7. ASSUME NEW t \in Tabs, at' = [at EXCEPT ![t] = "idle"],
             call' = [call EXCEPT ![t] = NoCall], UNCHANGED <<parent, live, raced>>
      PROVE  TokenInv'
  BY <1>0, <1>7 DEF Trying, SpentIsDead, OneSpender, ParentIssued, Spends, Spending, issued
<1>8. ASSUME UNCHANGED <<at, parent, call, raced>>, live' \subseteq live
      PROVE  TokenInv'
  BY <1>0, <1>8 DEF Trying, SpentIsDead, OneSpender, ParentIssued, Spends, Spending, issued
<1>9. ASSUME NEW t \in Tabs, FindToken(t) \/ RefreshFails(t) PROVE TokenInv'
  <2>1. CASE RefreshFails(t)
    BY <1>3, <2>1 DEF RefreshFails, Goes, tokenVars, Spending
  <2>2. CASE FindToken(t) /\ TryNext(t) /\ UNCHANGED raced
    BY <1>3, <2>2 DEF FindToken, tokenVars
  <2>3. CASE FindToken(t) /\ Head(call[t].try) \in live /\ Found(t, Head(call[t].try))
    BY <1>4, <2>3 DEF FindToken, tokenVars
  <2> QED BY <1>9, <2>1, <2>2, <2>3 DEF FindToken
<1>10. ASSUME NEW t \in Tabs, Answer(t) \/ AnswerLost(t) PROVE TokenInv'
  BY <1>7, <1>10 DEF Answer, AnswerLost, Move, Goes, tokenVars, historyVars
<1>11. CASE RevokeSession \/ UNCHANGED vars
  BY <1>8, <1>11 DEF RevokeSession, Goes, vars, tokenVars, historyVars
<1> QED
  BY <1>1, <1>2, <1>5, <1>6, <1>9, <1>10, <1>11, QuietSteps DEF Next, Refresh, Opening

-----------------------------------------------------------------------------
(* Accounts. *)

\* Steps that neither concern an account nor read its e-mail.
NoSignOn ==
  /\ UNCHANGED <<accountVars, entry, parent, owner>>
  /\ \A t \in Tabs : /\ at[t] \in SignOn \/ at'[t] \in SignOn => at'[t] = at[t]
                     /\ at'[t] \in {"create", "password"} => at'[t] = at[t]

Signs(t) ==
  \/ StartSignOn(t) \/ FindAccount(t) \/ SignOnFails(t) \/ OpenSession(t)
  \/ StartLogin(t) \/ OpenLogin(t) \/ ReadAccount(t) \/ CreateSession(t)

LEMMA NoSignOnSteps ==
  ASSUME TypeOK, [Next]_vars, ~ \E t \in Tabs : Signs(t)
  PROVE  NoSignOn
<1> USE DEF NoSignOn, SignOn, Move, TypeOK, Accounts, Spend, Goes, tokenVars
<1>1. ASSUME NEW t \in Tabs, Refresh(t), ~Signs(t) PROVE NoSignOn
  BY <1>1 DEF Refresh, Signs, AskRefresh, FindToken, Found, TryNext, RevokeToken, Answer
<1>2. ASSUME NEW t \in Tabs, RefreshFails(t) \/ AnswerLost(t) PROVE NoSignOn
  BY <1>2 DEF RefreshFails, TryNext, AnswerLost
<1>3. ASSUME NEW t \in Tabs, AccessExpires(t) \/ Reload(t) \/ SignOut(t) PROVE NoSignOn
  BY <1>3 DEF AccessExpires, Reload, SignOut
<1>4. CASE RevokeSession \/ UNCHANGED vars
  BY <1>4 DEF RevokeSession, vars
<1> QED BY <1>1, <1>2, <1>3, <1>4 DEF Next, Signs

LEMMA UserStep == TypeOK /\ HasUser /\ [Next]_vars => HasUser'
<1> SUFFICES ASSUME TypeOK, HasUser, [Next]_vars PROVE HasUser'
  OBVIOUS
<1> USE DEF HasUser, SignOn, Move
<1>0. at \in [Tabs -> Places] /\ entry \in [Tabs -> EntryType]
  BY DEF TypeOK, EntryType
<1>1. CASE NoSignOn
  BY <1>0, <1>1 DEF NoSignOn, accountVars
<1>2. ASSUME NEW t \in Tabs, StartSignOn(t) PROVE HasUser'
  BY <1>0, <1>2 DEF StartSignOn, VerifyToken
<1>6. ASSUME NEW t \in Tabs, NEW u \in Users \cup {NoUser}, Takes(t, u), at[t] = "lookup",
             direct' = direct
      PROVE  HasUser'
  <2>1. /\ entry' = [entry EXCEPT ![t].user = u]
        /\ at' = [at EXCEPT ![t] = IF u = NoUser THEN "insert" ELSE "update"]
    BY <1>6 DEF Takes
  <2>2. entry'[t].mail = entry[t].mail /\ entry'[t].user = u
    BY <1>0, <2>1 DEF EntryType
  <2> QED BY <1>0, <1>6, <2>1, <2>2
<1>3. ASSUME NEW t \in Tabs, FindAccount(t) PROVE HasUser'
  <2>1. CASE LookUp(t)
    BY <1>6, <2>1 DEF LookUp, accountVars
  <2>2. CASE InsertStudent(t)
    <3>1. CASE UNCHANGED entry /\ at' = [at EXCEPT ![t] = "idle"]
      BY <1>0, <2>2, <3>1 DEF InsertStudent
    <3>2. ASSUME NEW u \in Users, entry' = [entry EXCEPT ![t].user = u],
                 at' = [at EXCEPT ![t] = "open"], at[t] = "insert", direct' = direct
          PROVE  HasUser'
      <4>1. entry'[t].mail = entry[t].mail /\ entry'[t].user = u
        BY <1>0, <3>2 DEF EntryType
      <4> QED BY <1>0, <3>2, <4>1
    <3> QED BY <2>2, <3>1, <3>2 DEF InsertStudent
  <2>3. CASE UpdateStudent(t) \/ LinkIdentity(t)
    BY <1>0, <2>3 DEF UpdateStudent, LinkIdentity
  <2> QED BY <1>3, <2>1, <2>2, <2>3 DEF FindAccount, Account
<1>4. ASSUME NEW t \in Tabs, SignOnFails(t) PROVE HasUser'
  <2>1. CASE LookUpFails(t)
    BY <1>6, <2>1 DEF LookUpFails
  <2>2. CASE LinkFails(t) \/ SignOnThrows(t)
    BY <1>0, <2>2 DEF LinkFails, SignOnThrows
  <2> QED BY <1>4, <2>1, <2>2 DEF SignOnFails
<1>5. ASSUME NEW t \in Tabs, OpenSession(t) \/ StartLogin(t) \/ ReadAccount(t) PROVE HasUser'
  BY <1>0, <1>5 DEF OpenSession, StartLogin, ReadAccount, accountVars
<1>7. ASSUME NEW t \in Tabs, OpenLogin(t) \/ CreateSession(t) PROVE HasUser'
  BY <1>0, <1>7 DEF OpenLogin, CreateSession, CreateVLabSession
<1> QED BY <1>1, <1>2, <1>3, <1>4, <1>5, <1>7, NoSignOnSteps DEF Signs

\* Where nobody has an account there is no token to spend.
LEMMA NobodyCreates ==
  ASSUME TypeOK, TokenInv, Nobody, NEW t \in Tabs
  PROVE  at[t] \notin Spending
<1>1. call[t].token \in 0..0
  BY DEF Nobody, TypeOK
<1> QED BY <1>1 DEF TokenInv, SpentIsDead, NoToken

\* Opening a session for the only account.
LEMMA SoleOpens ==
  ASSUME TypeOK, NEW t \in Tabs, NEW old \in Nat, NEW u \in Users, Sole(u),
         Issue(t, old, u), UNCHANGED <<mail, entry>>,
         \A s \in Tabs : at'[s] = "create" => at[s] = "create"
  PROVE  Sole(u)'
<1>1. \A n \in 1..issued' : owner'[n] = u
  <2>1. /\ issued \in Nat /\ issued' = issued + 1
        /\ \A n \in 1..issued' : owner'[n] = IF n = issued + 1 THEN u ELSE owner[n]
    BY IssueTypes
  <2>2. \A n \in 1..issued' : n = issued + 1 \/ n \in 1..issued
    BY <2>1
  <2> QED BY <2>1, <2>2 DEF Sole
<1> QED BY <1>1 DEF Sole

LEMMA AccountStep == TypeOK /\ TokenInv /\ HasUser /\ AccountInv /\ [Next]_vars => AccountInv'
<1> SUFFICES ASSUME TypeOK, TokenInv, HasUser, AccountInv, [Next]_vars,
                    ~split', ~direct'
             PROVE  AccountInv'
  BY DEF AccountInv
<1>0. /\ at \in [Tabs -> Places] /\ entry \in [Tabs -> EntryType] /\ NoMail \notin Emails
      /\ mail \in [Users -> Emails \cup {NoMail}] /\ identity \in Users \cup {NoUser}
      /\ NoUser \notin Users /\ issued \in Nat
  BY DEF TypeOK, EntryType, NoUser, Users, issued
<1> USE DEF SignOn, Move
<1>1. CASE NoSignOn
  BY <1>0, <1>1 DEF NoSignOn, accountVars, AccountInv, OneAccount, Sole, Nobody, FirstSignOn, issued
<1>2. ASSUME NEW t \in Tabs, StartSignOn(t) PROVE AccountInv'
  <2>1. /\ at[t] = "idle" /\ at' = [at EXCEPT ![t] = "lookup"] /\ ~split /\ ~direct
        /\ identity = NoUser => \A s \in Tabs \ {t} : at[s] \notin SignOn
        /\ UNCHANGED <<mail, identity, direct, parent, owner>>
        /\ \A s \in Tabs \ {t} : entry'[s] = entry[s]
    BY <1>0, <1>2 DEF StartSignOn, VerifyToken, tokenVars
  <2>2. CASE identity # NoUser /\ OneAccount(identity)
    BY <1>0, <2>1, <2>2 DEF AccountInv, OneAccount, Sole, issued
  <2>3. CASE identity = NoUser
    <3>1. Nobody /\ \A s \in Tabs : at[s] \notin SignOn
      BY <2>1, <2>3 DEF AccountInv
    <3>2. FirstSignOn(t)' /\ at'[t] \in SignOn
      BY <1>0, <2>1, <3>1 DEF FirstSignOn, Nobody, issued
    <3> QED BY <2>1, <2>3, <3>2 DEF AccountInv
  <2> QED BY <2>1, <2>2, <2>3 DEF AccountInv
<1>3. ASSUME NEW t \in Tabs, NEW u \in Users \cup {NoUser}, at[t] = "lookup", Takes(t, u),
             \/ u \in Owner(entry[t].mail)
             \/ Owner(entry[t].mail) = {} /\ u = identity,
             ~split, ~direct, UNCHANGED <<mail, identity, direct, parent, owner>>
      PROVE  AccountInv'
  <2>1. /\ entry'[t].user = u /\ \A s \in Tabs \ {t} : entry'[s] = entry[s]
        /\ at' = [at EXCEPT ![t] = IF u = NoUser THEN "insert" ELSE "update"]
    BY <1>0, <1>3 DEF EntryType, Takes
  <2>2. entry[t].mail \in Emails
    BY <1>3 DEF HasUser
  <2>3. CASE identity # NoUser /\ OneAccount(identity)
    \* Whoever has the e-mail is the account that is linked.
    <3>1. u = identity
      BY <1>0, <1>3, <2>2, <2>3 DEF Owner, OneAccount, Sole
    <3> QED BY <1>0, <1>3, <2>1, <2>3, <3>1 DEF AccountInv, OneAccount, Sole, issued
  <2>4. CASE identity = NoUser
    <3>1. Nobody /\ \A s \in Tabs : at[s] \in SignOn => s = t
      BY <1>3, <2>4 DEF AccountInv, FirstSignOn
    <3>2. u = NoUser
      BY <1>0, <1>3, <2>2, <2>4, <3>1 DEF Owner, Nobody
    <3>3. FirstSignOn(t)' /\ at'[t] \in SignOn
      BY <1>0, <1>3, <2>1, <3>1, <3>2 DEF FirstSignOn, Nobody, issued
    <3> QED BY <1>3, <2>4, <3>3 DEF AccountInv
  <2> QED BY <1>3, <2>3, <2>4 DEF AccountInv
<1>4. ASSUME NEW t \in Tabs, FindAccount(t) PROVE AccountInv'
  <2>0. /\ UNCHANGED <<parent, owner>> /\ ~split /\ ~direct
        /\ \/ identity # NoUser /\ OneAccount(identity)
           \/ identity = NoUser
    <3>1. UNCHANGED <<parent, owner>> /\ Account(t)
      BY <1>4 DEF FindAccount, tokenVars
    <3>2. (split => split') /\ direct' = direct
      <4>1. CASE LookUp(t) \/ InsertStudent(t) \/ LinkIdentity(t)
        BY <4>1 DEF LookUp, InsertStudent, LinkIdentity, accountVars
      <4>2. CASE UpdateStudent(t)
        <5>1. split' = split \/ split' = (split \/ BeingRead(entry[t].user))
          BY <4>2 DEF UpdateStudent
        <5>2. split => split'
          BY <5>1, Zenon
        <5> QED BY <4>2, <5>2 DEF UpdateStudent
      <4> QED BY <3>1, <4>1, <4>2 DEF Account
    <3> QED BY <3>1, <3>2 DEF AccountInv
  <2>1. CASE LookUp(t)
    BY <1>3, <2>0, <2>1 DEF LookUp, accountVars
  <2>2. CASE InsertStudent(t)
    <3>1. at[t] = "insert" /\ UNCHANGED <<identity, direct, split>>
      BY <2>2 DEF InsertStudent
    <3>2. identity = NoUser /\ Nobody /\ \A s \in Tabs : at[s] \in SignOn => s = t
      BY <2>0, <3>1 DEF AccountInv, OneAccount, FirstSignOn
    <3>3. Owner(entry[t].mail) = {} /\ entry[t].mail \in Emails
      BY <1>0, <3>1, <3>2 DEF Owner, HasUser, Nobody
    <3>4. PICK u \in Users : /\ mail' = [mail EXCEPT ![u] = entry[t].mail]
                             /\ entry' = [entry EXCEPT ![t].user = u]
                             /\ at' = [at EXCEPT ![t] = "open"]
      BY <2>2, <3>3 DEF InsertStudent, InsertUser
    <3>5. entry'[t].user = u
      BY <1>0, <3>4 DEF EntryType
    <3>6. Sole(u)'
      <4>1. mail'[u] # NoMail /\ \A v \in Users : mail'[v] # NoMail => v = u
        BY <1>0, <3>2, <3>3, <3>4 DEF Nobody
      <4>2. issued' = 0
        BY <2>0, <3>2 DEF Nobody, issued
      <4>3. \A s \in Tabs : at'[s] # "create"
        BY <1>0, <3>2, <3>4, NobodyCreates DEF Spending
      <4> QED BY <4>1, <4>2, <4>3 DEF Sole
    <3> QED BY <1>0, <3>1, <3>2, <3>4, <3>5, <3>6 DEF AccountInv, FirstSignOn
  <2>3. CASE UpdateStudent(t)
    <3>1. /\ at[t] = "update" /\ entry[t].user \in Users /\ entry[t].mail \in Emails
          /\ UNCHANGED <<identity, direct, entry>> /\ at' = [at EXCEPT ![t] = "open"]
      BY <2>3 DEF UpdateStudent, HasUser
    <3>2. identity # NoUser /\ OneAccount(identity) /\ entry[t].user = identity
      BY <2>0, <3>1 DEF AccountInv, OneAccount, FirstSignOn
    <3>3. \/ mail' = mail
          \/ /\ mail' = [mail EXCEPT ![identity] = entry[t].mail]
             /\ \A s \in Tabs : at[s] = "create" => entry[s].user # identity
      BY <2>3, <3>2 DEF UpdateStudent, BeingRead
    <3>4. Sole(identity)'
      <4>1. CASE mail' = mail
        BY <1>0, <2>0, <3>1, <3>2, <4>1 DEF OneAccount, Sole, issued
      <4>2. CASE /\ mail' = [mail EXCEPT ![identity] = entry[t].mail]
                 /\ \A s \in Tabs : at[s] = "create" => entry[s].user # identity
        <5>1. mail'[identity] # NoMail /\ \A v \in Users : mail'[v] # NoMail => v = identity
          BY <1>0, <3>1, <3>2, <4>2 DEF OneAccount, Sole
        <5>2. \A s \in Tabs : at'[s] # "create"
          BY <1>0, <3>1, <3>2, <4>2 DEF OneAccount, Sole
        <5> QED BY <2>0, <3>1, <3>2, <5>1, <5>2 DEF OneAccount, Sole, issued
      <4> QED BY <3>3, <4>1, <4>2
    <3> QED BY <1>0, <3>1, <3>2, <3>4 DEF AccountInv, OneAccount
  <2>4. CASE LinkIdentity(t)
    <3>1. /\ at[t] = "link" /\ at' = [at EXCEPT ![t] = "answer"] /\ identity' = entry[t].user
          /\ UNCHANGED <<mail, entry, direct, split>> /\ entry[t].user \in Users
      BY <2>4 DEF LinkIdentity, HasUser
    <3>2. Sole(entry[t].user)
      BY <2>0, <3>1 DEF AccountInv, OneAccount, FirstSignOn
    <3>3. \A s \in Tabs \ {t} : /\ at[s] \in {"update", "open", "link"} => entry[s].user = entry[t].user
                               /\ at[s] # "insert"
      BY <2>0, <3>1 DEF AccountInv, OneAccount, FirstSignOn
    <3>4. OneAccount(entry[t].user)'
      BY <1>0, <2>0, <3>1, <3>2, <3>3 DEF OneAccount, Sole, issued
    <3> QED BY <1>0, <3>1, <3>4 DEF AccountInv
  <2> QED BY <1>4, <2>1, <2>2, <2>3, <2>4 DEF FindAccount, Account
<1>5. ASSUME NEW t \in Tabs, SignOnFails(t) PROVE AccountInv'
  <2>0. UNCHANGED <<parent, owner>>
    BY <1>5 DEF SignOnFails, tokenVars
  <2>1. CASE LookUpFails(t)
    BY <1>0, <1>3, <2>0, <2>1 DEF LookUpFails
  <2>2. CASE LinkFails(t)
    BY <2>2 DEF LinkFails
  <2>3. CASE SignOnThrows(t)
    <3>1. /\ at[t] \in {"lookup", "insert", "update", "open"} /\ at' = [at EXCEPT ![t] = "idle"]
          /\ at[t] = "open" => identity # NoUser
          /\ UNCHANGED <<mail, identity, entry, direct>> /\ ~split /\ ~direct
      BY <2>3 DEF SignOnThrows
    <3>2. CASE identity # NoUser /\ OneAccount(identity)
      BY <1>0, <2>0, <3>1, <3>2 DEF AccountInv, OneAccount, Sole, issued
    <3>3. CASE identity = NoUser
      <4>1. Nobody /\ \A s \in Tabs : at[s] \in SignOn => s = t
        BY <3>1, <3>3 DEF AccountInv, FirstSignOn
      <4> QED BY <1>0, <2>0, <3>1, <3>3, <4>1 DEF AccountInv, Nobody, issued
    <3> QED BY <3>1, <3>2, <3>3 DEF AccountInv
  <2> QED BY <1>5, <2>1, <2>2, <2>3 DEF SignOnFails
<1>6. ASSUME NEW t \in Tabs, OpenSession(t) PROVE AccountInv'
  <2> DEFINE u == entry[t].user
  <2>1. /\ at[t] = "open" /\ at' = [at EXCEPT ![t] = "link"] /\ u \in Users
        /\ Issue(t, NoToken, u) /\ UNCHANGED <<mail, identity, direct, split, entry>>
    BY <1>6 DEF OpenSession, accountVars, HasUser
  <2>2. Sole(u)
    BY <2>1 DEF AccountInv, OneAccount, FirstSignOn
  <2>3. Sole(u)'
    BY <1>0, <2>1, <2>2, SoleOpens DEF NoToken
  <2>4. CASE identity # NoUser /\ OneAccount(identity)
    BY <1>0, <2>1, <2>3, <2>4 DEF AccountInv, OneAccount
  <2>5. CASE identity = NoUser
    BY <1>0, <2>1, <2>3, <2>5 DEF AccountInv, FirstSignOn
  <2> QED BY <2>1, <2>4, <2>5 DEF AccountInv
<1>7. ASSUME NEW t \in Tabs, StartLogin(t) \/ OpenLogin(t) PROVE AccountInv'
  BY <1>7 DEF StartLogin, OpenLogin, CreateVLabSession, HasUser, accountVars
<1>8. ASSUME NEW t \in Tabs, ReadAccount(t) PROVE AccountInv'
  <2> DEFINE u == owner[call[t].token]
  <2>1. /\ at[t] = "account" /\ at' = [at EXCEPT ![t] = "create"]
        /\ entry'[t] = [mail |-> mail[u], user |-> u]
        /\ \A s \in Tabs \ {t} : entry'[s] = entry[s]
        /\ UNCHANGED <<mail, identity, direct, split, parent, owner>>
    BY <1>0, <1>8 DEF ReadAccount, accountVars, tokenVars
  <2>2. call[t].token \in 1..issued
    BY <1>0, <2>1 DEF Spending, TokenInv, SpentIsDead, TypeOK, NoToken
  <2>3. ASSUME NEW v, Sole(v) PROVE Sole(v)'
    <3>1. u = v
      BY <2>2, <2>3 DEF Sole
    <3> HIDE DEF u
    <3> QED BY <1>0, <2>1, <2>3, <3>1 DEF Sole, issued
  <2>4. ~Nobody
    BY <2>1, NobodyCreates DEF Spending
  <2> HIDE DEF u
  <2>5. CASE identity # NoUser /\ OneAccount(identity)
    BY <1>0, <2>1, <2>3, <2>5 DEF AccountInv, OneAccount
  <2>6. ASSUME NEW s \in Tabs, identity = NoUser, at[s] \in SignOn, FirstSignOn(s)
        PROVE  AccountInv'
    <3>1. s # t /\ at'[s] = at[s] /\ entry'[s] = entry[s]
      BY <1>0, <2>1, <2>6
    <3>2. FirstSignOn(s)'
      BY <1>0, <2>1, <2>3, <2>4, <2>6, <3>1 DEF FirstSignOn
    <3> QED BY <2>1, <2>6, <3>1, <3>2 DEF AccountInv
  <2> QED BY <2>1, <2>4, <2>5, <2>6 DEF AccountInv
<1>9. ASSUME NEW t \in Tabs, CreateSession(t) PROVE AccountInv'
  <2>0. /\ at[t] = "create" /\ CreateVLabSession(t, call[t].token) /\ call[t].token \in Nat
        /\ entry[t].mail \in Emails \cup {NoMail}
    BY <1>9 DEF CreateSession, TypeOK, issued
  <2>1. PICK u \in Users :
          /\ Issue(t, call[t].token, u)
          /\ \/ mail[u] = entry[t].mail /\ mail' = mail
             \/ /\ \A v \in Users : mail[v] # entry[t].mail
                /\ mail' = [mail EXCEPT ![u] = entry[t].mail]
    BY <2>0, VLabOpens
  <2>2. at' = [at EXCEPT ![t] = "answer"] /\ UNCHANGED <<identity, direct, split, entry>>
    BY <2>0, VLabOpens
  <2>3. ASSUME NEW v \in Users, Sole(v) PROVE Sole(v)' /\ mail' = mail
    <3>1. entry[t].mail = mail[v] /\ mail[v] # NoMail
      BY <2>0, <2>3 DEF Sole
    <3>2. u = v /\ mail' = mail
      BY <1>0, <2>1, <2>3, <3>1 DEF Sole
    <3> QED BY <1>0, <2>0, <2>1, <2>2, <2>3, <3>2, SoleOpens
  <2>4. ~Nobody
    BY <2>0, NobodyCreates DEF Spending
  <2>5. CASE identity # NoUser /\ OneAccount(identity)
    BY <1>0, <2>0, <2>2, <2>3, <2>5 DEF AccountInv, OneAccount
  <2>6. ASSUME NEW s \in Tabs, identity = NoUser, at[s] \in SignOn, FirstSignOn(s)
        PROVE  AccountInv'
    <3>1. s # t /\ at'[s] = at[s] /\ entry'[s] = entry[s]
      BY <1>0, <2>0, <2>2, <2>6
    <3>2. at[s] \in {"open", "link"} /\ entry[s].user \in Users
      BY <2>4, <2>6 DEF FirstSignOn, HasUser
    <3>3. FirstSignOn(s)'
      BY <1>0, <2>2, <2>3, <2>6, <3>1, <3>2 DEF FirstSignOn
    <3> QED BY <2>2, <2>6, <3>1, <3>3 DEF AccountInv
  <2> QED BY <2>2, <2>4, <2>5, <2>6 DEF AccountInv
<1> QED BY <1>1, <1>2, <1>4, <1>5, <1>6, <1>7, <1>8, <1>9, NoSignOnSteps DEF Signs

-----------------------------------------------------------------------------
(* The browser's copies of the tokens. *)

\* The copies only move, and no call gets or loses an answer.
CopiesMove ==
  /\ UNCHANGED <<parent, live, cookie, call>> /\ faults \subseteq faults'
  /\ stored' \in {stored, NoToken}
  /\ \A t \in Tabs : /\ memory'[t] \in {memory[t], stored, NoToken}
                     /\ at'[t] \in Answering => at[t] \in Answering
                     /\ at[t] \in {"account", "create", "answer"} => at'[t] = at[t]

LEMMA CopiesMoveSteps ==
  ASSUME TypeOK, NEW t \in Tabs,
         \/ StartSignOn(t) \/ FindAccount(t) \/ SignOnFails(t) \/ StartLogin(t)
         \/ AccessExpires(t) \/ Reload(t) \/ SignOut(t)
  PROVE  CopiesMove
<1> USE DEF CopiesMove, Answering, Move, TypeOK, accountVars, tokenVars, browserVars,
            historyVars, Accounts, Spend, Goes
<1>1. CASE StartSignOn(t)    BY <1>1 DEF StartSignOn, VerifyToken
<1>2. CASE FindAccount(t)
  BY <1>2 DEF FindAccount, Account, LookUp, Takes, InsertStudent, UpdateStudent, LinkIdentity
<1>3. CASE SignOnFails(t)
  BY <1>3 DEF SignOnFails, LookUpFails, Takes, LinkFails, SignOnThrows
<1>4. CASE StartLogin(t)     BY <1>4 DEF StartLogin
<1>5. CASE AccessExpires(t)  BY <1>5 DEF AccessExpires
<1>6. CASE Reload(t)         BY <1>6 DEF Reload
<1>7. CASE SignOut(t)        BY <1>7 DEF SignOut
<1> QED BY <1>1, <1>2, <1>3, <1>4, <1>5, <1>6, <1>7

\* What t does leaves the token of another call unheard of.
LEMMA FreshKept ==
  ASSUME NEW t \in Tabs, NEW s \in Tabs \ {t}, Fresh(s),
         \A u \in Tabs \ {t} : call'[u] = call[u],
         cookie' # call[s].token, stored' # call[s].token,
         \A u \in Tabs : memory'[u] # call[s].token,
         call'[t].token # call[s].token,
         \A i \in 1..Len(call'[t].try) : call'[t].try[i] # call[s].token
  PROVE  Fresh(s)'
<1> DEFINE n == call[s].token
<1>1. call'[s].token = n
  OBVIOUS
<1>2. n # NoToken' /\ n # cookie' /\ n # stored' /\ \A u \in Tabs : n # memory'[u]
  BY DEF Fresh, NoToken
<1>3. \A u \in Tabs : u # s => call'[u].token # n
  BY DEF Fresh
<1>4. \A u \in Tabs : \A i \in 1..Len(call'[u].try) : call'[u].try[i] # n
  BY DEF Fresh
<1> HIDE DEF n
<1> QED BY <1>1, <1>2, <1>3, <1>4 DEF Fresh

LEMMA BrowserStep ==
  TypeOK /\ TokenInv /\ HasUser /\ BrowserInv /\ [Next]_vars => BrowserInv'
<1> SUFFICES ASSUME TypeOK, TokenInv, HasUser, BrowserInv, [Next]_vars PROVE BrowserInv'
  OBVIOUS
<1> USE DEF BrowserInv
<1>0. /\ issued \in Nat /\ at \in [Tabs -> Places] /\ call \in [Tabs -> CallType]
      /\ live \subseteq 1..issued /\ memory \in [Tabs -> 0..issued]
      /\ cookie \in 0..issued /\ stored \in 0..issued
  BY DEF TypeOK, issued, CallType
<1>1. CASE CopiesMove
  BY <1>0, <1>1 DEF CopiesMove, Known, Unheard, Fresh, AnswerLives, CookieFollowed, Answering,
     NoToken, issued
<1>2. ASSUME NEW t \in Tabs, AskRefresh(t) PROVE BrowserInv'
  <2>1. /\ call' = [call EXCEPT ![t] = [try |-> Candidates(t), token |-> NoToken]]
        /\ at' = [at EXCEPT ![t] = "find"] /\ at[t] = "idle"
        /\ UNCHANGED <<parent, live, cookie, stored, memory, faults>>
    BY <1>2 DEF AskRefresh, Move, tokenVars, browserVars, historyVars
  <2>2. \A i \in 1..Len(Candidates(t)) :
          /\ Candidates(t)[i] \in {cookie, stored} \cup {memory[t]}
          /\ Candidates(t)[i] \in 1..issued
    BY <1>0, CandidatesTypes DEF NoToken
  <2>3. \A s \in Tabs : call'[s] = IF s = t THEN [try |-> Candidates(t), token |-> NoToken]
                                  ELSE call[s]
    BY <1>0, <2>1
  <2>4. Known'
    BY <2>1, <2>2, <2>3 DEF Known, issued
  <2>5. Unheard'
    BY <1>0, <2>1, <2>2, <2>3 DEF Unheard, Fresh, Answering, NoToken
  <2>6. AnswerLives' /\ CookieFollowed'
    BY <1>0, <2>1, <2>3 DEF AnswerLives, CookieFollowed, Answering, NoToken
  <2> QED BY <2>4, <2>5, <2>6
<1>3. ASSUME NEW t \in Tabs, at[t] \in {"find"} \cup Spending, TryNext(t),
             UNCHANGED <<parent, live, cookie, stored, memory>>,
             faults' = IF at[t] = "find" THEN faults ELSE faults \cup {"db"}
      PROVE  BrowserInv'
  <2>1. /\ at'[t] \in {"find", "idle"}
        /\ call'[t] = [try |-> Tail(call[t].try), token |-> NoToken]
        /\ \A s \in Tabs \ {t} : at'[s] = at[s] /\ call'[s] = call[s]
    BY <1>0, <1>3 DEF TryNext, Move
  <2>2. \A i \in 1..Len(call'[t].try) : \E j \in 1..Len(call[t].try) :
            call'[t].try[i] = call[t].try[j]
    <3>1. call[t].try \in Seq(Nat) /\ call[t].try # <<>>
      BY <1>0, <1>3 DEF CallType, TokenInv, Trying
    <3> QED BY <2>1, <3>1, TailIsPart
  <2>3. Known'
    BY <1>3, <2>1, <2>2 DEF Known, issued
  <2>4. Unheard'
    <3> SUFFICES ASSUME NEW s \in Tabs, at'[s] \in Answering PROVE Fresh(s)'
      BY DEF Unheard, Answering
    <3>1. s \in Tabs \ {t} /\ Fresh(s)
      BY <2>1 DEF Unheard, Answering
    <3>2. \A i \in 1..Len(call'[t].try) : call'[t].try[i] # call[s].token
      BY <2>2, <3>1 DEF Fresh
    <3>3. /\ cookie' # call[s].token /\ stored' # call[s].token
          /\ call'[t].token # call[s].token /\ \A u \in Tabs : memory'[u] # call[s].token
      BY <1>3, <2>1, <3>1 DEF Fresh
    <3> QED BY <2>1, <3>1, <3>2, <3>3, FreshKept
  <2>5. AnswerLives'
    BY <1>3, <2>1 DEF AnswerLives, Answering
  <2>6. CookieFollowed'
    BY <1>3, <2>1 DEF CookieFollowed, NoToken
  <2> QED BY <2>3, <2>4, <2>5, <2>6
<1>4. ASSUME NEW t \in Tabs, at[t] = "find", Head(call[t].try) \in live,
             Found(t, Head(call[t].try)), UNCHANGED <<parent, live, cookie, stored, memory, faults>>
      PROVE  BrowserInv'
  <2> DEFINE k == Head(call[t].try)
  <2>1. /\ at'[t] = "revoke" /\ call'[t] = [call[t] EXCEPT !.token = k]
        /\ \A s \in Tabs \ {t} : at'[s] = at[s] /\ call'[s] = call[s]
    BY <1>0, <1>4 DEF Found, Move
  <2>2. call'[t].token = k /\ call'[t].try = call[t].try
    BY <1>0, <2>1 DEF CallType
  <2>3. k = call[t].try[1] /\ 1 \in 1..Len(call[t].try)
    <3>1. call[t].try \in Seq(Nat) /\ call[t].try # <<>>
      BY <1>0, <1>4 DEF CallType, TokenInv, Trying
    <3>2. Len(call[t].try) \in Nat \ {0}
      BY <3>1, EmptySeq
    <3> QED BY <3>1, <3>2
  <2> HIDE DEF k
  <2>4. Known'
    BY <1>4, <2>1, <2>2 DEF Known, issued
  <2>5. Unheard'
    <3> SUFFICES ASSUME NEW s \in Tabs, at'[s] \in Answering PROVE Fresh(s)'
      BY DEF Unheard, Answering
    <3>1. s \in Tabs \ {t} /\ Fresh(s)
      BY <2>1 DEF Unheard, Answering
    <3>2. \A i \in 1..Len(call'[t].try) : call'[t].try[i] # call[s].token
      BY <2>2, <3>1 DEF Fresh
    <3>3. /\ cookie' # call[s].token /\ stored' # call[s].token
          /\ call'[t].token # call[s].token /\ \A u \in Tabs : memory'[u] # call[s].token
      BY <1>4, <2>2, <2>3, <3>1 DEF Fresh
    <3> QED BY <2>1, <3>1, <3>2, <3>3, FreshKept
  <2>6. AnswerLives' /\ CookieFollowed'
    BY <1>4, <2>1 DEF AnswerLives, CookieFollowed, Answering, NoToken
  <2> QED BY <2>4, <2>5, <2>6
<1>5. ASSUME NEW t \in Tabs, RevokeToken(t) \/ ReadAccount(t) PROVE BrowserInv'
  <2>1. /\ \/ at[t] = "revoke" /\ at' = [at EXCEPT ![t] = "account"]
              /\ live' = live \ {call[t].token}
           \/ at[t] = "account" /\ at' = [at EXCEPT ![t] = "create"] /\ live' = live
        /\ UNCHANGED <<parent, cookie, stored, memory, call, faults>>
    BY <1>5 DEF RevokeToken, ReadAccount, Move, tokenVars, browserVars, historyVars
  <2>2. Known'
    BY <2>1 DEF Known, issued
  <2>3. Unheard'
    BY <1>0, <2>1 DEF Unheard, Fresh, Answering, NoToken
  <2>4. AnswerLives' /\ CookieFollowed'
    BY <1>0, <2>1 DEF AnswerLives, CookieFollowed, Unheard, Fresh, Answering, NoToken
  <2> QED BY <2>2, <2>3, <2>4
<1>6. ASSUME NEW t \in Tabs, Opening(t) PROVE BrowserInv'
  <2>0. /\ Old(t) \in Nat /\ Opens(t, Old(t))
        /\ UNCHANGED <<cookie, stored, memory, faults>> /\ at[t] # "answer"
    BY <1>6, OpeningOpens DEF Opens
  <2> PICK w \in Users : Issue(t, Old(t), w)
    BY <2>0 DEF Opens
  <2>1. issued' = issued + 1
    BY <2>0, IssueTypes
  <2>2. /\ at'[t] \in Answering /\ (at[t] # "open" => at'[t] = "answer")
        /\ live' = live \cup {issued + 1}
        /\ call'[t] = [try |-> <<>>, token |-> issued + 1]
        /\ \A s \in Tabs \ {t} : at'[s] = at[s] /\ call'[s] = call[s]
    BY <1>0, <2>0 DEF Opens, Issue, Answering
  <2>3. /\ \A s \in Tabs : call[s].token \in 0..issued /\ memory[s] \in 0..issued
        /\ \A n \in 0..issued : n # issued + 1
    BY <1>0 DEF CallType
  <2>4. Known'
    BY <1>0, <2>1, <2>2 DEF Known
  <2>5. Fresh(t)'
    <3> DEFINE n == issued + 1
    <3>1. call'[t].token = n /\ n # NoToken' /\ n # cookie' /\ n # stored'
      BY <1>0, <2>0, <2>2 DEF NoToken
    <3>2. \A u \in Tabs : memory'[u] # n /\ (u # t => call'[u].token # n)
      BY <2>0, <2>2, <2>3
    <3>3. \A i \in 1..Len(call'[t].try) : call'[t].try[i] # n
      BY <2>2
    <3>4. \A u \in Tabs \ {t} : \A i \in 1..Len(call'[u].try) : call'[u].try[i] # n
      BY <1>0, <2>2 DEF Known
    <3> HIDE DEF n
    <3> QED BY <3>1, <3>2, <3>3, <3>4 DEF Fresh
  <2>6. Unheard'
    <3> SUFFICES ASSUME NEW s \in Tabs \ {t}, at'[s] \in Answering PROVE Fresh(s)'
      BY <2>5 DEF Unheard, Answering
    <3>1. Fresh(s)
      BY <2>2 DEF Unheard, Answering
    <3>2. call'[t].token # call[s].token
      BY <2>2, <2>3
    <3>3. \A i \in 1..Len(call'[t].try) : call'[t].try[i] # call[s].token
      BY <2>2
    <3> QED BY <2>0, <2>2, <3>1, <3>2, <3>3, FreshKept DEF Fresh
  <2>7. AnswerLives'
    BY <2>0, <2>2 DEF AnswerLives, Answering
  <2>8. CookieFollowed'
    BY <2>0, <2>2 DEF CookieFollowed, NoToken
  <2> QED BY <2>4, <2>6, <2>7, <2>8
<1>7. ASSUME NEW t \in Tabs, Answer(t) \/ AnswerLost(t) PROVE BrowserInv'
  <2>1. /\ at[t] = "answer" /\ at'[t] = "idle" /\ call'[t] = [try |-> <<>>, token |-> NoToken]
        /\ \A s \in Tabs \ {t} : at'[s] = at[s] /\ call'[s] = call[s]
        /\ UNCHANGED <<parent, live>>
    BY <1>0, <1>7 DEF Answer, AnswerLost, Move, NoCall, tokenVars
  <2>2. Known'
    BY <1>0, <2>1 DEF Known, issued
  <2>3. \/ UNCHANGED <<cookie, stored, memory>> /\ faults' = faults \cup {"lost"}
        \/ /\ cookie' = call[t].token /\ stored' = call[t].token
           /\ memory' = [memory EXCEPT ![t] = call[t].token] /\ faults' = faults
    BY <1>7 DEF Answer, AnswerLost, Goes, browserVars, historyVars
  <2>4. Unheard'
    <3> SUFFICES ASSUME NEW s \in Tabs, at'[s] \in Answering PROVE Fresh(s)'
      BY DEF Unheard, Answering
    <3>1. s \in Tabs \ {t} /\ Fresh(s)
      BY <2>1 DEF Unheard, Answering
    <3>2. \A i \in 1..Len(call'[t].try) : call'[t].try[i] # call[s].token
      BY <2>1
    <3>3. \A u \in Tabs : memory'[u] # call[s].token
      BY <1>0, <2>3, <3>1 DEF Fresh
    <3> QED BY <2>1, <2>3, <3>1, <3>2, <3>3, FreshKept DEF Fresh
  <2>5. AnswerLives' /\ CookieFollowed'
    BY <2>1, <2>3 DEF AnswerLives, CookieFollowed, Answering, NoToken
  <2> QED BY <2>2, <2>4, <2>5
<1>8. CASE RevokeSession
  BY <1>8 DEF RevokeSession, Goes, browserVars, Accounts, Known, Unheard, Fresh, AnswerLives,
     CookieFollowed, NoToken, issued
<1>9. CASE UNCHANGED vars
  BY <1>9 DEF vars, tokenVars, browserVars, historyVars, Known, Unheard, Fresh, AnswerLives,
     CookieFollowed, NoToken, issued
<1>10. ASSUME NEW t \in Tabs, FindToken(t) \/ RefreshFails(t) PROVE BrowserInv'
  <2>1. CASE RefreshFails(t)
    BY <1>3, <2>1 DEF RefreshFails, Goes, tokenVars, browserVars, Spending
  <2>2. CASE FindToken(t) /\ TryNext(t) /\ UNCHANGED raced
    BY <1>3, <2>2 DEF FindToken, tokenVars, browserVars
  <2>3. CASE FindToken(t) /\ Head(call[t].try) \in live /\ Found(t, Head(call[t].try))
    BY <1>4, <2>3 DEF FindToken, tokenVars, browserVars
  <2> QED BY <1>10, <2>1, <2>2, <2>3 DEF FindToken
<1> QED
  BY <1>1, <1>2, <1>5, <1>6, <1>7, <1>8, <1>9, <1>10, CopiesMoveSteps
     DEF Next, Refresh, Opening

-----------------------------------------------------------------------------
LEMMA LoginInvariant == Spec => []IInv
<1>1. IInv /\ [Next]_vars => IInv'
  BY TypeStep, TokenStep, BrowserStep, UserStep, AccountStep DEF IInv, TokenInv
<1> QED BY InitIInv, <1>1, PTL DEF Spec

\* Every reachable state is well typed, whatever the tabs do and what fails.
THEOREM LoginTypes == Spec => []TypeOK
  BY LoginInvariant, PTL DEF IInv

\* A refresh token opens one session, or two calls had found it before either
\* revoked it (AuthService.js:477-485).
THEOREM OpensOnce == Spec => []TokenOpensOnce
<1>1. IInv => TokenOpensOnce
  <2> SUFFICES ASSUME IInv, NEW m \in 1..issued, NEW n \in 1..issued,
                      m # n, parent[m] = parent[n], parent[m] # NoToken,
                      parent[m] \notin raced
               PROVE  FALSE
    BY DEF TokenOpensOnce
  <2>1. parent[m] \in Nat
    BY DEF IInv, TypeOK, issued
  <2> QED BY <2>1 DEF IInv, TokenInv, OneSpender
<1> QED BY <1>1, LoginInvariant, PTL

\* The cookie holds a token that works when no refresh is under way, unless
\* a refresh failed, its answer was lost or the session was revoked.
THEOREM CookieWorks == Spec => []CookieIsLive
<1>1. IInv => CookieIsLive
  BY DEF IInv, BrowserInv, CookieFollowed, CookieIsLive
<1> QED BY <1>1, LoginInvariant, PTL

\* A student of the LMS has one account for all tokens of sign-ons and of
\* refreshes, whatever e-mails the sign-ons bring (SsoService.js:224-229,
\* AuthService.js:44-61), unless the account had one of the e-mails before or
\* one of the things that "split" records came to pass.
THEOREM OneAccountOnly == Spec => []OneAccountPerStudent
<1>1. IInv => OneAccountPerStudent
  <2> SUFFICES ASSUME IInv, ~split, ~direct, NEW m \in 1..issued, NEW n \in 1..issued
               PROVE  owner[m] = owner[n]
    BY DEF OneAccountPerStudent
  <2>1. issued # 0
    BY DEF IInv, TypeOK, issued
  <2>2. CASE \E u : Sole(u)
    BY <2>2 DEF Sole
  <2>3. \E u : Sole(u)
    BY <2>1 DEF IInv, AccountInv, OneAccount, Nobody, FirstSignOn, SignOn, HasUser
  <2> QED BY <2>2, <2>3
<1> QED BY <1>1, LoginInvariant, PTL
=============================================================================
