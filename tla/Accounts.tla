------------------------------ MODULE Accounts ------------------------------
(* The accounts of the API server: first setup, registration, sign-in and the *)
(* administration of roles, over the identity store.  A transaction of        *)
(* AuthStore is one step; the handlers await one call after another, so that  *)
(* the steps of two requests interleave between them.  A password is right or *)
(* wrong, a session lives until it is revoked or expires.                     *)
EXTENDS Naturals, FiniteSets

CONSTANTS
  Account,        \* user names
  FirstAccount,   \* initial_admin_username
  Token,          \* slots for sessions
  Job,            \* slots for requests in progress
  Nobody

ASSUME AccountsAssumption ==
  /\ FirstAccount \in Account
  /\ Nobody \notin Account \cup Token

VARIABLES
  role, disabled,   \* auth_users
  session,          \* auth_sessions: the account of each live session
  owner,            \* the owner of the content from before the accounts
  job               \* requests in progress

authVars == <<role, disabled, session, owner, job>>

Legacy == {"chats", "tasks"}
Free   == [at |-> "free", for |-> Nobody, by |-> Nobody, role |-> "keep", disable |-> "keep"]
Steps  == {"free", "bootstrap", "register", "add", "chats", "tasks", "login", "open",
           "role", "disable", "password", "revoke"}

AccountsTypeOK ==
  /\ role \in [Account -> {"none", "user", "admin"}]
  /\ disabled \in [Account -> BOOLEAN]
  /\ session \in [Token -> Account \cup {Nobody}]
  /\ owner \in [Legacy -> Account \cup {Nobody}]
  /\ job \in [Job -> [at : Steps, for : Account \cup {Nobody}, by : Account \cup Token \cup {Nobody},
                      role : {"keep", "user", "admin"}, disable : {"keep", "yes", "no"}]]

AccountsInit ==
  /\ role = [a \in Account |-> "none"] /\ disabled = [a \in Account |-> FALSE]
  /\ session = [t \in Token |-> Nobody]
  /\ owner = [l \in Legacy |-> Nobody]
  /\ job = [j \in Job |-> Free]

Registered == {a \in Account : role[a] # "none"}
Enabled(a) == role[a] # "none" /\ ~disabled[a]
Administrators == {a \in Account : role[a] = "admin" /\ ~disabled[a]}

------------------------------------------------------------------------------
(* Requests: what a handler checks before its first await on the store.      *)

Accept(j, at, a, b) ==
  /\ job[j].at = "free"
  /\ job' = [job EXCEPT ![j] = [Free EXCEPT !.at = at, !.for = a, !.by = b]]
  /\ UNCHANGED <<role, disabled, session, owner>>

(* session_for_token: the account of a live session must be enabled.         *)
Principal(t, a) == a \in Account /\ session[t] = a /\ Enabled(a)
Administrator(t, a) == Principal(t, a) /\ role[a] = "admin"

AuthBootstrap(j) == Registered = {} /\ Accept(j, "bootstrap", FirstAccount, Nobody)

AuthRegister(j, a) ==
  /\ Registered # {} \/ a = FirstAccount
  /\ Accept(j, "register", a, Nobody)

AuthLogin(j, a) == Accept(j, "login", a, Nobody)

AuthChangePassword(j, t, a) == Principal(t, a) /\ Accept(j, "password", a, t)

AuthCreateUser(j, t, b, a, newRole) ==
  /\ Administrator(t, b) /\ job[j].at = "free"
  /\ job' = [job EXCEPT ![j] = [Free EXCEPT !.at = "add", !.for = a, !.by = b,
                                            !.role = newRole]]
  /\ UNCHANGED <<role, disabled, session, owner>>

AuthUpdateUser(j, t, b, a, newRole, disable) ==
  /\ Administrator(t, b) /\ job[j].at = "free"
  /\ a \in Registered
  /\ newRole # "keep" \/ disable # "keep"
  /\ job' = [job EXCEPT ![j] = [at |-> IF newRole # "keep" THEN "role" ELSE "disable",
                                for |-> a, by |-> b, role |-> newRole, disable |-> disable]]
  /\ UNCHANGED <<role, disabled, session, owner>>

AdminRevokeSessions(j, t, b, a) ==
  /\ Administrator(t, b) /\ a \in Registered /\ a # b
  /\ Accept(j, "revoke", a, b)

------------------------------------------------------------------------------
(* The steps of a request, one transaction each.                             *)

Reached(j, step) == job[j].at = step
GoesTo(j, step) == job' = [job EXCEPT ![j].at = step]
Ends(j) == job' = [job EXCEPT ![j] = Free]

NewRole(j) ==
  CASE Reached(j, "bootstrap") -> "admin"
    [] Reached(j, "register")  -> IF Registered = {} THEN "admin" ELSE "user"
    [] Reached(j, "add")       -> job[j].role

CreateUser(j) ==
  /\ Reached(j, "bootstrap") \/ Reached(j, "register") \/ Reached(j, "add")
  /\ IF (Reached(j, "bootstrap") /\ Registered # {}) \/ job[j].for \in Registered
     THEN Ends(j) /\ UNCHANGED <<role, disabled>>
     ELSE /\ role' = [role EXCEPT ![job[j].for] = NewRole(j)]
          /\ disabled' = [disabled EXCEPT ![job[j].for] = FALSE]
          /\ CASE Reached(j, "add") -> Ends(j)
               [] Reached(j, "register") /\ NewRole(j) = "user" -> GoesTo(j, "login")
               [] OTHER -> GoesTo(j, "chats")
  /\ UNCHANGED <<session, owner>>

Claimed(l, a) == [owner EXCEPT ![l] = IF @ = Nobody THEN a ELSE @]

ClaimUnowned(j) ==
  /\ \/ Reached(j, "chats") /\ owner' = Claimed("chats", job[j].for) /\ GoesTo(j, "tasks")
     \/ Reached(j, "tasks") /\ owner' = Claimed("tasks", job[j].for) /\ GoesTo(j, "login")
  /\ UNCHANGED <<role, disabled, session>>

(* authenticate: the row is read and verified, the session inserted later.   *)
Authenticate(j) ==
  /\ Reached(j, "login")
  /\ \/ Enabled(job[j].for) /\ GoesTo(j, "open")
     \/ Ends(j)
  /\ UNCHANGED <<role, disabled, session, owner>>

OpenSession(j, t) ==
  /\ Reached(j, "open") /\ session[t] = Nobody
  /\ session' = [session EXCEPT ![t] = job[j].for]
  /\ Ends(j)
  /\ UNCHANGED <<role, disabled, owner>>

AnyOtherAdministrator(a) == {b \in Account : role[b] = "admin"} \subseteq {a}

LastAdministrator(a) == Administrators \subseteq {a}

SetUserRole(j) ==
  /\ Reached(j, "role")
  /\ LET a == job[j].for
         refused == /\ role[a] = "admin" /\ job[j].role # "admin" /\ ~disabled[a]
                    /\ LastAdministrator(a)
     IN  /\ role' = [role EXCEPT ![a] = IF refused THEN @ ELSE job[j].role]
         /\ IF refused \/ job[j].disable = "keep" THEN Ends(j) ELSE GoesTo(j, "disable")
  /\ UNCHANGED <<disabled, session, owner>>

WithoutSessions(accounts) ==
  [t \in Token |-> IF session[t] \in accounts THEN Nobody ELSE session[t]]

SetUserDisabled(j) ==
  /\ Reached(j, "disable")
  /\ LET a == job[j].for
         disable == job[j].disable = "yes"
         refused == \/ disable /\ a = job[j].by
                    \/ disable /\ role[a] = "admin" /\ ~disabled[a] /\ LastAdministrator(a)
     IN  IF refused THEN UNCHANGED <<disabled, session>>
         ELSE /\ disabled' = [disabled EXCEPT ![a] = disable]
              /\ session' = IF disable THEN WithoutSessions({a}) ELSE session
  /\ Ends(j)
  /\ UNCHANGED <<role, owner>>

(* change_password keeps the session the request came by.                    *)
ChangePassword(j) ==
  /\ Reached(j, "password")
  /\ \/ UNCHANGED session   \* the current password is wrong
     \/ session' = [WithoutSessions({job[j].for}) EXCEPT ![job[j].by] = session[job[j].by]]
  /\ Ends(j)
  /\ UNCHANGED <<role, disabled, owner>>

RevokeUserSessions(j) ==
  /\ Reached(j, "revoke")
  /\ session' = WithoutSessions({job[j].for})
  /\ Ends(j)
  /\ UNCHANGED <<role, disabled, owner>>

(* A session is revoked by signing out, or expires.                          *)
SessionEnds(t) ==
  /\ session[t] # Nobody
  /\ session' = [session EXCEPT ![t] = Nobody]
  /\ UNCHANGED <<role, disabled, owner, job>>

(* The server stops or dies: what is committed stays.                        *)
ServerDies ==
  /\ \E j \in Job : job[j].at # "free"
  /\ job' = [j \in Job |-> Free]
  /\ UNCHANGED <<role, disabled, session, owner>>

Handles(j) ==
  \/ CreateUser(j) \/ ClaimUnowned(j) \/ Authenticate(j) \/ SetUserRole(j)
  \/ SetUserDisabled(j) \/ ChangePassword(j) \/ RevokeUserSessions(j)
  \/ \E t \in Token : OpenSession(j, t)

Requests(j) ==
  \/ AuthBootstrap(j)
  \/ \E a \in Account : AuthRegister(j, a) \/ AuthLogin(j, a)
  \/ \E t \in Token, a, b \in Account :
       \/ AuthChangePassword(j, t, a)
       \/ \E newRole \in {"user", "admin"} : AuthCreateUser(j, t, b, a, newRole)
       \/ \E newRole \in {"keep", "user", "admin"}, disable \in {"keep", "yes", "no"} :
            AuthUpdateUser(j, t, b, a, newRole, disable)
       \/ AdminRevokeSessions(j, t, b, a)

AccountsNext ==
  \/ \E j \in Job : Requests(j) \/ Handles(j)
  \/ \E t \in Token : SessionEnds(t)
  \/ ServerDies

AccountsSpec == AccountsInit /\ [][AccountsNext]_authVars

------------------------------------------------------------------------------
(* Once there is an account there is an enabled administrator, whatever two  *)
(* administrators do to each other at the same time (AuthStore.create_user,  *)
(* set_user_role, set_user_disabled).                                        *)
AdministratorRemains == Registered # {} => Administrators # {}

(* Content from before the accounts goes to the first account and to no      *)
(* other (auth_bootstrap, auth_register with their two claims).              *)
LegacyGoesToTheFirst ==
  /\ Registered # {} => FirstAccount \in Registered
  /\ \A l \in Legacy : owner[l] \in {Nobody, FirstAccount}
=============================================================================
