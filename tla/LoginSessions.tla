--------------------------- MODULE LoginSessions ---------------------------
(***************************************************************************)
(* Login sessions and their refresh tokens: sign-on, refresh, sign-out and *)
(* revocation (AuthService, SessionService, handlers/auth.js), and the     *)
(* tabs of the browser that hold the tokens (GetApiHandler.js,             *)
(* auth-store.ts).                                                         *)
(*                                                                         *)
(* A token is opened together with its session and has its number.  The    *)
(* browser keeps a token in three places: in the memory of each tab, in    *)
(* the storage that the tabs share, and in the httpOnly cookie.  A refresh *)
(* sends the first that a tab finds of the former two, and the cookie.     *)
(***************************************************************************)
EXTENDS SingleSignOn, Sequences

CONSTANTS
  Faults,     \* of "db", "lost", "link", "lookup", "open", "revoke"
  MaxSpent    \* bound on sign-ons, expiries and faults: every token needs one

ASSUME MaxSpentAssumption == MaxSpent \in Nat

VARIABLES
  parent,     \* the token that was spent for each token, 0 for a sign-on
  owner,      \* the user of each token
  live,       \* the tokens that are not revoked
  cookie, stored, memory,  \* the browser's copies; 0 is none
  access,     \* the access token in a tab's memory
  call,       \* locals of a refresh: tokens to try, the token it has found
  signedOut,  \* the tabs that signed out and did not sign in again
  spent,      \* of the bound
  faults, raced   \* history: what went wrong; tokens two calls held at once

tokenVars == <<parent, owner, live>>
browserVars == <<cookie, stored, memory, access, signedOut>>
historyVars == <<spent, faults, raced>>
vars == <<accountVars, at, entry, tokenVars, browserVars, call, historyVars>>

\* Tokens 1..issued have been issued.
issued == Len(parent)
NoToken == 0
NoCall == [try |-> <<>>, token |-> NoToken]

Init ==
  /\ SsoInit
  /\ parent = <<>> /\ owner = <<>> /\ live = {}
  /\ cookie = NoToken /\ stored = NoToken /\ memory = [t \in Tabs |-> NoToken]
  /\ access = [t \in Tabs |-> "none"] /\ signedOut = {}
  /\ call = [t \in Tabs |-> NoCall]
  /\ spent = 0 /\ faults = {} /\ raced = {}

Spend == spent < MaxSpent /\ spent' = spent + 1
Goes(f) == /\ f \in Faults /\ Spend /\ faults' = faults \cup {f} /\ UNCHANGED raced

-----------------------------------------------------------------------------
(* Sign-on. *)

StartSignOn(t) ==
  /\ access[t] = "none" /\ VerifyToken(t) /\ Spend
  /\ UNCHANGED <<tokenVars, browserVars, call, faults, raced>>

FindAccount(t) ==
  Account(t) /\ UNCHANGED <<tokenVars, browserVars, call, historyVars>>

\* What goes wrong in a sign-on: an error that is swallowed, or one that ends it.
SignOnFails(t) ==
  /\ \/ LookUpFails(t) /\ Goes("lookup")
     \/ LinkFails(t) /\ Goes("link")
     \/ SignOnThrows(t) /\ Goes("open")
  /\ UNCHANGED <<tokenVars, browserVars, call>>

\* Session and token in one transaction, for the token that was spent.
Issue(t, old, u) ==
  /\ parent' = Append(parent, old) /\ owner' = Append(owner, u)
  /\ live' = live \cup {issued + 1}
  /\ call' = [call EXCEPT ![t] = [try |-> <<>>, token |-> issued + 1]]

\* createVLabSession: the account is looked up by its e-mail, and inserted
\* when nobody has that e-mail any more.
CreateVLabSession(t, old) ==
  /\ \E u \in Users :
       /\ \/ u \in Owner(entry[t].mail) /\ UNCHANGED mail
          \/ InsertUser(u, entry[t].mail)
       /\ Issue(t, old, u)
  /\ Move(t, "answer")
  /\ UNCHANGED <<identity, direct, split, entry, browserVars, historyVars>>

\* A login with a password, of the account that is not of the LMS.
StartLogin(t) ==
  /\ at[t] = "idle" /\ access[t] = "none" /\ direct /\ Move(t, "password") /\ Spend
  /\ entry' = [entry EXCEPT ![t] = [mail |-> mail[1], user |-> 1]]
  /\ UNCHANGED <<accountVars, tokenVars, browserVars, call, faults, raced>>

OpenLogin(t) == at[t] = "password" /\ CreateVLabSession(t, NoToken)

OpenSession(t) ==
  /\ at[t] = "open" /\ Move(t, "link") /\ Issue(t, NoToken, entry[t].user)
  /\ UNCHANGED <<accountVars, entry, browserVars, historyVars>>

-----------------------------------------------------------------------------
(* Refresh: one at a time in a tab, tried again at its next request. *)

Accounts == UNCHANGED <<accountVars, entry>>

\* Mutant: the handler does not look at the cookie.
CandidatesOfTab(t) ==
  LET own == IF memory[t] # NoToken THEN memory[t] ELSE stored
  IN  IF own = NoToken THEN <<>> ELSE <<own>>
Candidates(t) ==
  LET own == IF memory[t] # NoToken THEN memory[t] ELSE stored
  IN  IF own = NoToken \/ own = cookie
      THEN (IF cookie = NoToken THEN <<>> ELSE <<cookie>>)
      ELSE (IF cookie = NoToken THEN <<own>> ELSE <<own, cookie>>)

\* A 401 on a request that carries the access token.
AskRefresh(t) ==
  /\ at[t] = "idle" /\ access[t] = "expired" /\ Candidates(t) # <<>>
  /\ call' = [call EXCEPT ![t] = [try |-> Candidates(t), token |-> NoToken]]
  /\ Move(t, "find")
  /\ Accounts /\ UNCHANGED <<tokenVars, browserVars, historyVars>>

\* The next candidate, or the 401 that ends the refresh without a change.
TryNext(t) ==
  /\ call' = [call EXCEPT ![t] = [try |-> Tail(@.try), token |-> NoToken]]
  /\ Move(t, IF Len(call[t].try) > 1 THEN "find" ELSE "idle")

Found(t, n) ==
  /\ call' = [call EXCEPT ![t].token = n] /\ Move(t, "revoke")
  /\ raced' = IF \E s \in Tabs \ {t} : at[s] = "revoke" /\ call[s].token = n
              THEN raced \cup {n} ELSE raced

\* findByTokenHash, without a lock.
\* Mutant: RevokedAt is not looked at.
FindRevokedToo(t) ==
  /\ at[t] = "find" /\ Found(t, Head(call[t].try))
  /\ Accounts /\ UNCHANGED <<tokenVars, browserVars, spent, faults>>
FindToken(t) ==
  /\ at[t] = "find"
  /\ \/ Head(call[t].try) \in live /\ Found(t, Head(call[t].try))
     \/ Head(call[t].try) \notin live /\ TryNext(t) /\ UNCHANGED raced
  /\ Accounts /\ UNCHANGED <<tokenVars, browserVars, spent, faults>>

\* The update has no condition: it revokes also what is revoked already.
RevokeToken(t) ==
  /\ at[t] = "revoke" /\ Move(t, "account")
  /\ live' = live \ {call[t].token}
  /\ Accounts /\ UNCHANGED <<parent, owner, browserVars, call, historyVars>>

\* findById: the payload has the e-mail the account has now.
ReadAccount(t) ==
  /\ at[t] = "account" /\ Move(t, "create")
  /\ LET u == owner[call[t].token]
     IN  entry' = [entry EXCEPT ![t] = [mail |-> mail[u], user |-> u]]
  /\ UNCHANGED <<accountVars, tokenVars, browserVars, call, historyVars>>

CreateSession(t) == at[t] = "create" /\ CreateVLabSession(t, call[t].token)

\* A database error: the token that was found may be revoked by now.
RefreshFails(t) ==
  /\ at[t] \in {"revoke", "account", "create"} /\ TryNext(t) /\ Goes("db")
  /\ Accounts /\ UNCHANGED <<tokenVars, browserVars>>

-----------------------------------------------------------------------------
(* The browser. *)

\* The answer of a sign-on or of a refresh: the browser takes the cookie,
\* the tab writes its memory and the storage.
\* Mutant: the answer of a refresh sets no cookie.
AnswerWithoutCookie(t) ==
  /\ at[t] = "answer" /\ Move(t, "idle")
  /\ cookie' = IF parent[call[t].token] = NoToken THEN call[t].token ELSE cookie
  /\ stored' = call[t].token
  /\ memory' = [memory EXCEPT ![t] = call[t].token]
  /\ access' = [access EXCEPT ![t] = "fresh"]
  /\ signedOut' = IF parent[call[t].token] = NoToken THEN signedOut \ {t} ELSE signedOut
  /\ call' = [call EXCEPT ![t] = NoCall]
  /\ Accounts /\ UNCHANGED <<tokenVars, historyVars>>
Answer(t) ==
  /\ at[t] = "answer" /\ Move(t, "idle")
  /\ cookie' = call[t].token /\ stored' = call[t].token
  /\ memory' = [memory EXCEPT ![t] = call[t].token]
  /\ access' = [access EXCEPT ![t] = "fresh"]
  /\ signedOut' = IF parent[call[t].token] = NoToken THEN signedOut \ {t} ELSE signedOut
  /\ call' = [call EXCEPT ![t] = NoCall]
  /\ Accounts /\ UNCHANGED <<tokenVars, historyVars>>

AnswerLost(t) ==
  /\ at[t] = "answer" /\ Move(t, "idle") /\ Goes("lost")
  /\ call' = [call EXCEPT ![t] = NoCall]
  /\ Accounts /\ UNCHANGED <<tokenVars, browserVars>>

AccessExpires(t) ==
  /\ access[t] = "fresh" /\ access' = [access EXCEPT ![t] = "expired"] /\ Spend
  /\ Accounts
  /\ UNCHANGED <<at, tokenVars, cookie, stored, memory, signedOut, call, faults, raced>>

\* The page is loaded again: memory comes from the storage.
Reload(t) ==
  /\ at[t] = "idle" /\ memory[t] # stored
  /\ memory' = [memory EXCEPT ![t] = stored]
  /\ access' = [access EXCEPT ![t] = IF stored = NoToken THEN "none" ELSE "fresh"]
  /\ Accounts
  /\ UNCHANGED <<at, tokenVars, cookie, stored, signedOut, call, historyVars>>

\* logoutUser, whose error is ignored, and reset.  The handler takes the
\* refresh token for a session id, calls a method that does not exist and
\* answers 500: the token stays live and the cookie stays where it is.
SignOut(t) ==
  /\ access[t] # "none" /\ Spend
  /\ access' = [access EXCEPT ![t] = "none"]
  /\ memory' = [memory EXCEPT ![t] = NoToken] /\ stored' = NoToken
  /\ signedOut' = signedOut \cup {t}
  /\ Accounts
  /\ UNCHANGED <<at, tokenVars, cookie, call, faults, raced>>

\* revokeSession, by the student on another device or by an administrator.
RevokeSession ==
  /\ Goes("revoke") /\ \E n \in live : live' = live \ {n}
  /\ Accounts /\ UNCHANGED <<at, parent, owner, browserVars, call>>

-----------------------------------------------------------------------------
Refresh(t) ==
  \/ AskRefresh(t) \/ FindToken(t) \/ RevokeToken(t)
  \/ ReadAccount(t) \/ CreateSession(t) \/ Answer(t)

Next ==
  \/ \E t \in Tabs :
       \/ StartSignOn(t) \/ FindAccount(t) \/ SignOnFails(t) \/ OpenSession(t)
       \/ StartLogin(t) \/ OpenLogin(t)
       \/ Refresh(t) \/ RefreshFails(t) \/ AnswerLost(t)
       \/ AccessExpires(t) \/ Reload(t) \/ SignOut(t)
  \/ RevokeSession

Spec == Init /\ [][Next]_vars

\* A page that is open keeps sending requests, and calls are carried on.
FairSpec == Spec /\ \A t \in Tabs : WF_vars(Refresh(t))

-----------------------------------------------------------------------------
Places ==
  SignOn \cup {"idle", "password", "find", "revoke", "account", "create", "answer"}

\* Every variable stays within its type.
TypeOK ==
  /\ mail \in [Users -> Emails \cup {NoMail}] /\ identity \in Users \cup {NoUser}
  /\ at \in [Tabs -> Places]
  /\ entry \in [Tabs -> [mail : Emails \cup {NoMail}, user : Users \cup {NoUser}]]
  /\ direct \in BOOLEAN /\ split \in BOOLEAN
  /\ parent \in Seq(Nat) /\ owner \in Seq(Users) /\ Len(owner) = issued /\ live \subseteq 1..issued
  /\ cookie \in 0..issued /\ stored \in 0..issued
  /\ memory \in [Tabs -> 0..issued]
  /\ access \in [Tabs -> {"none", "fresh", "expired"}] /\ signedOut \subseteq Tabs
  /\ call \in [Tabs -> [try : Seq(Nat), token : 0..issued]]
  /\ spent \in 0..MaxSpent /\ faults \subseteq Faults /\ raced \subseteq Nat

\* A student of the LMS has one account here, for every token of a sign-on or
\* of a refresh, whatever e-mail each sign-on comes with: the identity is
\* linked to it (SsoService.js:224-229), and a refresh, which knows only the
\* e-mail (AuthService.js:44-61), finds it by the e-mail it has at that time.
\* The exceptions are an account with one of the e-mails that is not of the
\* LMS, and what "split" records: two first sign-ons that overlap, one that
\* ends after its account was committed, errors of findBySubject and of the
\* link that are swallowed, and an e-mail that changes between the two
\* statements of a refresh.
OneAccountPerStudent ==
  split \/ direct \/ \A m, n \in 1..issued : owner[m] = owner[n]

\* Whatever the tabs refresh at the same time and in whatever order their
\* answers arrive, the cookie holds a token that still works once no refresh
\* is under way; only a failure in the middle of a refresh, a lost answer or
\* a revocation leaves the browser with a spent one (AuthService.js:485).
CookieIsLive ==
  (\A t \in Tabs : at[t] \notin {"revoke", "account", "create", "answer"})
    => cookie \in live \cup {NoToken} \/ faults \cap {"db", "lost", "revoke"} # {}

\* One refresh token opens one session, unless two calls had found it before
\* either revoked it: the check and the revocation are not one step
\* (AuthService.js:477-485; sessionPolicy.js, RefreshRotationEnabled).
TokenOpensOnce ==
  \A m, n \in 1..issued :
    m # n /\ parent[m] = parent[n] /\ parent[m] # NoToken => parent[m] \in raced

\* A tab whose access token has expired gets a new one, also when another
\* tab has spent the refresh token it remembers, because the cookie is tried
\* next (auth.js:294-302); or it is signed out, or something went wrong.
TabRecovers ==
  \A t \in Tabs :
    access[t] = "expired" ~> access[t] # "expired" \/ faults # {}

\* sign-out-dialog.tsx: "You will need to sign in again to access your
\* account."
SignedOutStaysOut == \A t \in signedOut : access[t] = "none"
=============================================================================
