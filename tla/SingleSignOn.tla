---------------------------- MODULE SingleSignOn ----------------------------
(***************************************************************************)
(* Sign-on of one LMS student (SsoService.verifyLmsToken) from several     *)
(* tabs: the account is looked up by e-mail and by the linked identity,    *)
(* inserted or updated, the login session is opened (LoginSessions), and   *)
(* only then is the identity linked.                                       *)
(*                                                                         *)
(* The e-mail comes from the profile of the LMS, from the token when the   *)
(* profile cannot be fetched, or is made up from the subject: it may       *)
(* differ from one sign-on to the next.  A refresh and a login with a      *)
(* password (LoginSessions) know the account by its e-mail only.           *)
(***************************************************************************)
EXTENDS Integers, FiniteSets

CONSTANTS
  Tabs,       \* tabs of the student's browser
  Emails,     \* e-mail addresses the sign-ons may come with
  NoMail,     \* the e-mail of a user that does not exist
  MaxUsers    \* bound on the rows of Users

ASSUME NoMailAssumption == NoMail \notin Emails
ASSUME MaxUsersAssumption == MaxUsers \in Nat \ {0}

Users == 1..MaxUsers
NoUser == 0

VARIABLES
  mail,       \* Users.Email, which is unique
  identity,   \* external_identities: the user the subject is linked to
  at,         \* where the request of a tab is
  entry,      \* its e-mail, and the user it has found
  direct,     \* an account that did not come from the LMS has such an e-mail
  split       \* history: what may give the student a second account

accountVars == <<mail, identity, direct, split>>

\* Where the request of a tab can be in verifyLmsToken.
SignOn == {"lookup", "insert", "update", "open", "link"}

SsoInit ==
  /\ direct \in BOOLEAN
  /\ \E m \in Emails :
       mail = [u \in Users |-> IF direct /\ u = 1 THEN m ELSE NoMail]
  /\ identity = NoUser /\ at = [t \in Tabs |-> "idle"]
  /\ entry = [t \in Tabs |-> [mail |-> NoMail, user |-> NoUser]]
  /\ split = FALSE

Move(t, to) == at' = [at EXCEPT ![t] = to]
Owner(m) == {u \in Users : mail[u] = m}

\* The next row of Users, for an e-mail that nobody has.
InsertUser(u, m) ==
  /\ Owner(m) = {}
  /\ u \in Owner(NoMail) /\ \A v \in Owner(NoMail) : u <= v
  /\ mail' = [mail EXCEPT ![u] = m]

\* The token is verified and the profile fetched.
VerifyToken(t) ==
  /\ at[t] = "idle"
  /\ \E m \in Emails : entry' = [entry EXCEPT ![t] = [mail |-> m, user |-> NoUser]]
  /\ Move(t, "lookup")
  /\ split' = (split \/ (/\ identity = NoUser
                         /\ \E s \in Tabs \ {t} : at[s] \in SignOn))
  /\ UNCHANGED <<mail, identity, direct>>

\* One snapshot: by e-mail first, then by the identity.
Takes(t, u) ==
  /\ entry' = [entry EXCEPT ![t].user = u]
  /\ Move(t, IF u = NoUser THEN "insert" ELSE "update")

\* Mutant: the identity is not looked at.
LookUpByMail(t) ==
  /\ at[t] = "lookup"
  /\ \E u \in Users \cup {NoUser} :
       /\ u \in Owner(entry[t].mail) \/ (u = NoUser /\ Owner(entry[t].mail) = {})
       /\ Takes(t, u)
  /\ UNCHANGED accountVars
LookUp(t) ==
  /\ at[t] = "lookup"
  /\ \E u \in Users \cup {NoUser} :
       /\ u \in Owner(entry[t].mail) \/ (u = identity /\ Owner(entry[t].mail) = {})
       /\ Takes(t, u)
  /\ UNCHANGED accountVars

\* findBySubject fails and its error is swallowed: there is no identity.
LookUpFails(t) ==
  /\ at[t] = "lookup"
  /\ \E u \in Users \cup {NoUser} :
       /\ u \in Owner(entry[t].mail) \/ (u = NoUser /\ Owner(entry[t].mail) = {})
       /\ Takes(t, u)
       /\ split' = (split \/ (u = NoUser /\ identity # NoUser))
  /\ UNCHANGED <<mail, identity, direct>>

\* insertStudent and its commit.  After ER_DUP_ENTRY the e-mail is looked up
\* in the old snapshot, which does not have it: the sign-on fails.
InsertStudent(t) ==
  /\ at[t] = "insert"
  /\ \/ /\ Owner(entry[t].mail) # {} /\ Move(t, "idle")
        /\ UNCHANGED <<mail, entry>>
     \/ \E u \in Users :
          /\ InsertUser(u, entry[t].mail)
          /\ entry' = [entry EXCEPT ![t].user = u] /\ Move(t, "open")
  /\ UNCHANGED <<identity, direct, split>>

\* A call has read the e-mail of the account, and opens a session for it.
BeingRead(u) == \E s \in Tabs : at[s] = "create" /\ entry[s].user = u

\* The account takes the e-mail of this sign-on, unless another has it.
UpdateStudent(t) ==
  /\ at[t] = "update" /\ Move(t, "open")
  /\ \/ Owner(entry[t].mail) # {} /\ UNCHANGED <<mail, split>>
     \/ /\ Owner(entry[t].mail) = {}
        /\ mail' = [mail EXCEPT ![entry[t].user] = entry[t].mail]
        /\ split' = (split \/ BeingRead(entry[t].user))
  /\ UNCHANGED <<identity, entry, direct>>

\* After the session: the identity, in a statement whose error is swallowed.
LinkIdentity(t) ==
  /\ at[t] = "link" /\ Move(t, "answer")
  /\ identity' = entry[t].user
  /\ UNCHANGED <<mail, entry, direct, split>>
LinkFails(t) ==
  /\ at[t] = "link" /\ Move(t, "answer") /\ split' = TRUE
  /\ UNCHANGED <<mail, identity, entry, direct>>

\* A statement throws.  What was committed before the session stays, so a
\* first sign-on leaves an account that is not linked.
SignOnThrows(t) ==
  /\ at[t] \in {"lookup", "insert", "update", "open"} /\ Move(t, "idle")
  /\ split' = (split \/ (at[t] = "open" /\ identity = NoUser))
  /\ UNCHANGED <<mail, identity, entry, direct>>

Account(t) == LookUp(t) \/ InsertStudent(t) \/ UpdateStudent(t) \/ LinkIdentity(t)

=============================================================================
