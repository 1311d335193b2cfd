---------------------------- MODULE Server_proofs ----------------------------
(* Proofs about the accounts, the video calls and the microphone daemon, each
   of its own component, for any accounts, callers and requests. *)
EXTENDS Accounts, VideoCall, MicrophoneDaemon, TLAPS

------------------------------------------------------------------------------
(* Accounts and sessions.                                                   *)

(* What a request in progress knows: who is added or changed exists, and the *)
(* content is claimed only for the first account.  A registration that finds *)
(* no account at its first look may be overtaken by another; then its account *)
(* is an ordinary one.                                                       *)
JobsAreBacked ==
  \A j \in Job :
    /\ job[j].at # "free" => job[j].for \in Account
    /\ job[j].at \in {"bootstrap", "chats", "tasks"} => job[j].for = FirstAccount
    /\ job[j].at = "register" /\ Registered = {} => job[j].for = FirstAccount
    /\ job[j].at = "add" => Registered # {} /\ job[j].role # "keep"
    /\ job[j].at \in {"role", "disable"} => job[j].for \in Registered
    /\ job[j].at = "role" => job[j].role # "keep"
    /\ job[j].at = "password" => job[j].by \in Token

AInv == AccountsTypeOK /\ AdministratorRemains /\ LegacyGoesToTheFirst /\ JobsAreBacked

------------------------------------------------------------------------------

LEMMA InitAInv == AccountsInit => AInv
BY AccountsAssumption
DEF AccountsInit, AInv, AccountsTypeOK, AdministratorRemains, LegacyGoesToTheFirst,
    JobsAreBacked, Registered, Administrators, Free, Steps, Legacy

(* Accepting a request and ending one change nothing but the slot.           *)
LEMMA Accepting ==
  ASSUME AInv, NEW j \in Job, Requests(j)
  PROVE  AInv'
<1>1. CASE AuthBootstrap(j)
  BY <1>1, AccountsAssumption DEF AuthBootstrap, Accept, AInv, AccountsTypeOK,
     AdministratorRemains, LegacyGoesToTheFirst, JobsAreBacked, Registered, Administrators,
     Free, Steps
<1>2. ASSUME NEW a \in Account, AuthRegister(j, a) PROVE AInv'
  BY <1>2, AccountsAssumption DEF AuthRegister, Accept, AInv, AccountsTypeOK,
     AdministratorRemains, LegacyGoesToTheFirst, JobsAreBacked, Registered, Administrators,
     Free, Steps
<1>3. ASSUME NEW a \in Account, AuthLogin(j, a) PROVE AInv'
  BY <1>3, AccountsAssumption DEF AuthLogin, Accept, AInv, AccountsTypeOK,
     AdministratorRemains, LegacyGoesToTheFirst, JobsAreBacked, Registered, Administrators,
     Free, Steps
<1>4. ASSUME NEW t \in Token, NEW a \in Account, AuthChangePassword(j, t, a) PROVE AInv'
  BY <1>4, AccountsAssumption DEF AuthChangePassword, Accept, AInv, AccountsTypeOK,
     AdministratorRemains, LegacyGoesToTheFirst, JobsAreBacked, Registered, Administrators,
     Free, Steps
<1>5. ASSUME NEW t \in Token, NEW a \in Account, NEW b \in Account,
             NEW newRole \in {"user", "admin"}, AuthCreateUser(j, t, b, a, newRole)
      PROVE  AInv'
  BY <1>5, AccountsAssumption DEF AuthCreateUser, Administrator, Principal, Enabled, AInv,
     AccountsTypeOK, AdministratorRemains, LegacyGoesToTheFirst, JobsAreBacked, Registered,
     Administrators, Free, Steps
<1>6. ASSUME NEW t \in Token, NEW a \in Account, NEW b \in Account,
             NEW newRole \in {"keep", "user", "admin"}, NEW disable \in {"keep", "yes", "no"},
             AuthUpdateUser(j, t, b, a, newRole, disable)
      PROVE  AInv'
  BY <1>6, AccountsAssumption DEF AuthUpdateUser, AInv, AccountsTypeOK, AdministratorRemains,
     LegacyGoesToTheFirst, JobsAreBacked, Registered, Administrators, Free, Steps
<1>7. ASSUME NEW t \in Token, NEW a \in Account, NEW b \in Account,
             AdminRevokeSessions(j, t, b, a)
      PROVE  AInv'
  BY <1>7, AccountsAssumption DEF AdminRevokeSessions, Accept, AInv, AccountsTypeOK,
     AdministratorRemains, LegacyGoesToTheFirst, JobsAreBacked, Registered, Administrators,
     Free, Steps
<1>. QED BY <1>1, <1>2, <1>3, <1>4, <1>5, <1>6, <1>7 DEF Requests

(* The four transactions that write accounts or their content.               *)
LEMMA Creating ==
  ASSUME AInv, NEW j \in Job, CreateUser(j)
  PROVE  AInv'
<1> USE AccountsAssumption DEF Reached, Ends, GoesTo, Free, Steps
<1>1. AccountsTypeOK'
  <2>1. NewRole(j) \in {"user", "admin"}
    BY DEF CreateUser, NewRole, AInv, AccountsTypeOK, JobsAreBacked
  <2>2. role' \in [Account -> {"none", "user", "admin"}] /\ disabled' \in [Account -> BOOLEAN]
    BY <2>1 DEF CreateUser, AInv, AccountsTypeOK
  <2>3. Ends(j) \/ GoesTo(j, "login") \/ GoesTo(j, "chats")
    BY DEF CreateUser
  <2>4. UNCHANGED <<session, owner>>
    BY DEF CreateUser
  <2>5. QED
    BY <2>2, <2>3, <2>4 DEF AInv, AccountsTypeOK
<1>2. AdministratorRemains'
  <2>1. CASE UNCHANGED <<role, disabled>>
    BY <2>1 DEF AInv, AdministratorRemains, Registered, Administrators
  <2>2. ASSUME role' = [role EXCEPT ![job[j].for] = NewRole(j)],
               disabled' = [disabled EXCEPT ![job[j].for] = FALSE],
               job[j].for \notin Registered
        PROVE  AdministratorRemains'
    <3>1. job[j].for \in Account /\ NewRole(j) \in {"user", "admin"}
      BY DEF CreateUser, NewRole, AInv, AccountsTypeOK, JobsAreBacked
    <3>2. Registered = {} => NewRole(j) = "admin"
      BY DEF CreateUser, NewRole, AInv, JobsAreBacked
    <3>3. CASE Registered = {}
      BY <2>2, <3>1, <3>2, <3>3 DEF AInv, AccountsTypeOK, AdministratorRemains, Administrators
    <3>4. ASSUME NEW a \in Account, role[a] = "admin", ~disabled[a]
          PROVE  role'[a] = "admin" /\ ~disabled'[a]
      BY <2>2, <3>1, <3>4 DEF AInv, AccountsTypeOK, Registered
    <3>5. QED
      BY <3>3, <3>4 DEF AInv, AdministratorRemains, Administrators
  <2>3. QED
    BY <2>1, <2>2 DEF CreateUser
<1>3. LegacyGoesToTheFirst'
  BY DEF CreateUser, NewRole, AInv, AccountsTypeOK, JobsAreBacked, LegacyGoesToTheFirst,
         Registered
<1>4. JobsAreBacked'
  BY DEF CreateUser, NewRole, AInv, AccountsTypeOK, JobsAreBacked, Registered
<1>. QED BY <1>1, <1>2, <1>3, <1>4 DEF AInv

LEMMA Claiming ==
  ASSUME AInv, NEW j \in Job, ClaimUnowned(j)
  PROVE  AInv'
<1>1. PICK l \in Legacy : Reached(j, l) /\ owner' = Claimed(l, job[j].for)
  BY DEF ClaimUnowned, Legacy
<1>2. job[j].at \in {"chats", "tasks"} /\ job[j].for = FirstAccount
  BY <1>1 DEF Reached, Legacy, AInv, JobsAreBacked
<1>3. /\ UNCHANGED <<role, disabled, session>>
      /\ \E next \in {"tasks", "login"} : GoesTo(j, next)
  BY DEF ClaimUnowned
<1>4. job' \in [Job -> [at : Steps, for : Account \cup {Nobody},
                      by : Account \cup Token \cup {Nobody},
                      role : {"keep", "user", "admin"}, disable : {"keep", "yes", "no"}]]
  BY <1>3 DEF GoesTo, Steps, AInv, AccountsTypeOK
<1>5. owner' \in [Legacy -> Account \cup {Nobody}]
  BY <1>1, <1>2, AccountsAssumption DEF Claimed, AInv, AccountsTypeOK
<1>6. AccountsTypeOK'
  BY <1>3, <1>4, <1>5 DEF AInv, AccountsTypeOK
<1>7. Registered' = Registered /\ Administrators' = Administrators
  BY <1>3 DEF Registered, Administrators
<1>8. AdministratorRemains'
  BY <1>7 DEF AInv, AdministratorRemains
<1>9. LegacyGoesToTheFirst'
  <2>1. \A m \in Legacy : owner'[m] \in {owner[m], FirstAccount}
    BY <1>1, <1>2 DEF Claimed, AInv, AccountsTypeOK
  <2>. QED BY <2>1, <1>7 DEF AInv, LegacyGoesToTheFirst
<1>10. JobsAreBacked'
  <2>1. PICK next \in {"tasks", "login"} : job' = [job EXCEPT ![j].at = next]
    BY <1>3 DEF GoesTo
  <2>2. /\ job'[j].at = next /\ job'[j].for = FirstAccount
        /\ \A k \in Job \ {j} : job'[k] = job[k]
    BY <2>1, <1>2 DEF AInv, AccountsTypeOK
  <2>. QED BY <2>2, <1>7, AccountsAssumption DEF AInv, JobsAreBacked
<1>. QED BY <1>6, <1>8, <1>9, <1>10 DEF AInv

LEMMA SettingRole ==
  ASSUME AInv, NEW j \in Job, SetUserRole(j)
  PROVE  AInv'
<1> USE AccountsAssumption DEF Reached, Ends, GoesTo, Free, Steps
<1>1. AccountsTypeOK'
  BY DEF SetUserRole, AInv, AccountsTypeOK, JobsAreBacked
<1>2. AdministratorRemains'
  BY DEF SetUserRole, AInv, AccountsTypeOK, JobsAreBacked, AdministratorRemains,
         LastAdministrator, Registered, Administrators
<1>3. LegacyGoesToTheFirst'
  BY DEF SetUserRole, AInv, AccountsTypeOK, JobsAreBacked, LegacyGoesToTheFirst, Registered
<1>4. JobsAreBacked'
  BY DEF SetUserRole, AInv, AccountsTypeOK, JobsAreBacked, Registered
<1>. QED BY <1>1, <1>2, <1>3, <1>4 DEF AInv

LEMMA SettingDisabled ==
  ASSUME AInv, NEW j \in Job, SetUserDisabled(j)
  PROVE  AInv'
<1> USE AccountsAssumption DEF Reached, Ends, Free, Steps
<1>1. AccountsTypeOK'
  <2>1. disabled' \in [Account -> BOOLEAN]
    BY DEF SetUserDisabled, AInv, AccountsTypeOK
  <2>2. session' \in [Token -> Account \cup {Nobody}]
    BY DEF SetUserDisabled, WithoutSessions, AInv, AccountsTypeOK
  <2>3. UNCHANGED <<role, owner>> /\ Ends(j)
    BY DEF SetUserDisabled
  <2>4. QED
    BY <2>1, <2>2, <2>3 DEF AInv, AccountsTypeOK
<1>2. AdministratorRemains'
  BY DEF SetUserDisabled, AInv, AccountsTypeOK, JobsAreBacked, AdministratorRemains,
         LastAdministrator, Registered, Administrators
<1>3. LegacyGoesToTheFirst' /\ JobsAreBacked'
  BY DEF SetUserDisabled, AInv, AccountsTypeOK, JobsAreBacked, LegacyGoesToTheFirst, Registered
<1>. QED BY <1>1, <1>2, <1>3 DEF AInv

(* The steps that touch sessions alone.                                      *)
LEMMA Signing ==
  ASSUME AInv, NEW j \in Job,
         Authenticate(j) \/ ChangePassword(j) \/ RevokeUserSessions(j)
           \/ \E t \in Token : OpenSession(j, t)
  PROVE  AInv'
<1>1. /\ UNCHANGED <<role, disabled, owner>>
      /\ session' \in [Token -> Account \cup {Nobody}]
      /\ (GoesTo(j, "open") /\ Reached(j, "login")) \/ Ends(j)
  BY DEF Authenticate, ChangePassword, RevokeUserSessions, OpenSession, WithoutSessions,
         AInv, AccountsTypeOK, JobsAreBacked, Reached
<1>. QED
  BY <1>1, AccountsAssumption DEF GoesTo, Reached, Ends, AInv, AccountsTypeOK, AdministratorRemains,
     LegacyGoesToTheFirst, JobsAreBacked, Registered, Administrators, Free, Steps

LEMMA NextAInv == AInv /\ [AccountsNext]_authVars => AInv'
<1> SUFFICES ASSUME AInv, [AccountsNext]_authVars PROVE AInv'
  OBVIOUS
<1>1. ASSUME NEW j \in Job, Requests(j) PROVE AInv'
  BY <1>1, Accepting
<1>2. ASSUME NEW j \in Job, Handles(j) PROVE AInv'
  BY <1>2, Creating, Claiming, SettingRole, SettingDisabled, Signing DEF Handles
<1>3. ASSUME NEW t \in Token, SessionEnds(t) PROVE AInv'
  BY <1>3 DEF SessionEnds, AInv, AccountsTypeOK, AdministratorRemains, LegacyGoesToTheFirst,
     JobsAreBacked, Registered, Administrators
<1>4. CASE ServerDies
  BY <1>4, AccountsAssumption DEF ServerDies, AInv, AccountsTypeOK, AdministratorRemains,
     LegacyGoesToTheFirst, JobsAreBacked, Registered, Administrators, Free, Steps
<1>5. CASE UNCHANGED authVars
  BY <1>5 DEF authVars, AInv, AccountsTypeOK, AdministratorRemains, LegacyGoesToTheFirst,
     JobsAreBacked, Registered, Administrators
<1>. QED BY <1>1, <1>2, <1>3, <1>4, <1>5 DEF AccountsNext

THEOREM AccountsInv == AccountsSpec => []AInv
BY InitAInv, NextAInv, PTL DEF AccountsSpec

------------------------------------------------------------------------------
(* Roles, sessions and requests stay what they are (AuthStore).              *)
THEOREM AccountsTyped == AccountsSpec => []AccountsTypeOK
<1>1. AInv => AccountsTypeOK
  BY DEF AInv
<1>. QED BY <1>1, AccountsInv, PTL

(* The last enabled administrator can be neither demoted nor disabled, by any *)
(* number of administrators at once (set_user_role, set_user_disabled).      *)
THEOREM AnAdministratorRemains == AccountsSpec => []AdministratorRemains
<1>1. AInv => AdministratorRemains
  BY DEF AInv
<1>. QED BY <1>1, AccountsInv, PTL

(* What was there before the accounts goes to the first of them, however     *)
(* many registrations race for it (auth_bootstrap, auth_register).           *)
THEOREM LegacyIsInherited == AccountsSpec => []LegacyGoesToTheFirst
<1>1. AInv => LegacyGoesToTheFirst
  BY DEF AInv
<1>. QED BY <1>1, AccountsInv, PTL

------------------------------------------------------------------------------
(* Video calls.                                                             *)

(* The call in the server's seat, and what close_session holds of others.     *)
SeatIsWhole ==
  callSession # NoCall =>
    /\ call[callSession].at \notin {"free", "replacing"}
    /\ \/ call[callSession].camera = "on"
       \/ call[callSession].camera = "none" /\ call[callSession].at = "over"
    /\ call[callSession].pc \in {"open", "failed"}
    /\ call[callSession].microphone \notin {"closed", "late"}

(* A close is of a call that has been seated and has left its seat for good,  *)
(* and the offer it lets in has nothing yet.                                  *)
CloseIsOfAnother ==
  /\ closing.at = "no" <=> closing.of = NoCall
  /\ closing.of # NoCall => /\ closing.of # callSession
                            /\ call[closing.of].at \notin {"free", "replacing"}
  /\ closing.then # NoCall => call[closing.then].at = "replacing"
  /\ closing.at = "no" => closing.then = NoCall

CallInv == CallTypeOK /\ SeatIsWhole /\ CloseIsOfAnother

LEMMA InitCallInv == CallInit => CallInv
<1> USE CallAssumption DEF CallInit
<1>1. CallInit => CallTypeOK
  <2>1. CallInit => closing \in Closings
    BY DEF Closings, NotClosing
  <2>2. CallInit => call \in [Caller -> Calls]
    BY DEF Calls, Unmade
  <2>. QED BY <2>1, <2>2 DEF CallTypeOK
<1>2. CallInit => SeatIsWhole /\ CloseIsOfAnother
  BY DEF SeatIsWhole, CloseIsOfAnother, NotClosing
<1>. QED BY <1>1, <1>2 DEF CallInv

(* What close_session does to the seat when it is called from any handler.    *)
LEMMA Closing ==
  ASSUME CallInv, NEW closeView \in BOOLEAN, NEW then \in Caller \cup {NoCall},
         CloseSession(closeView, then)
  PROVE  /\ callSession' \in {callSession, NoCall}
         /\ awaited' \in BOOLEAN /\ view' \in BOOLEAN /\ frames' \subseteq Caller
         /\ closing' \in Closings
         /\ \/ UNCHANGED closing
            \/ /\ closing.at = "no" /\ callSession # NoCall /\ callSession' = NoCall
               /\ closing' = [at |-> "media", of |-> callSession, view |-> closeView, then |-> then]
<1>1. awaited' \in BOOLEAN
  BY DEF CloseSession, CallInv, CallTypeOK
<1>2. view' \in BOOLEAN
  <2>1. UNCHANGED view \/ view' = (view /\ ~closeView)
    BY DEF CloseSession
  <2>. QED BY <2>1, Zenon DEF CallInv, CallTypeOK
<1>3. frames' \subseteq Caller
  BY DEF CloseSession, CallInv, CallTypeOK
<1>4. callSession' \in {callSession, NoCall}
  BY DEF CloseSession
<1>5. \/ UNCHANGED closing
      \/ /\ closing.at = "no" /\ callSession # NoCall /\ callSession' = NoCall
         /\ closing' = [at |-> "media", of |-> callSession, view |-> closeView, then |-> then]
  BY DEF CloseSession
<1>6. closing' \in Closings
  BY <1>5 DEF Closings, CallInv, CallTypeOK
<1>. QED BY <1>1, <1>2, <1>3, <1>4, <1>5, <1>6

(* The steps of a close, whose call has left its seat.                        *)
LEMMA ClosesOn ==
  ASSUME CallInv, StopsMedia \/ StopsDevices \/ ClosesConnection
  PROVE  CallInv'
<1> USE CallAssumption DEF StopsMedia, StopsDevices, ClosesConnection, CallInv
<1>1. closing.of \in Caller /\ closing.of # callSession
  BY DEF CallTypeOK, Closings, CloseIsOfAnother
<1>2. closing' \in Closings
  BY DEF CallTypeOK, Closings
<1>3. call' \in [Caller -> Calls]
  <2>1. CASE StopsMedia
    <3>1. call[closing.of] \in Calls
      BY <1>1 DEF CallTypeOK
    <3>2. [call[closing.of] EXCEPT !.speaker = FALSE] \in Calls
      BY <3>1 DEF Calls
    <3>3. call' = [call EXCEPT ![closing.of] = [call[closing.of] EXCEPT !.speaker = FALSE]]
      BY <2>1
    <3>. QED BY <1>1, <3>2, <3>3 DEF CallTypeOK
  <2>2. CASE ClosesConnection
    <3>1. call[closing.of] \in Calls
      BY <1>1 DEF CallTypeOK
    <3>2. [call[closing.of] EXCEPT !.pc = "closed"] \in Calls
      BY <3>1 DEF Calls
    <3>3. call' = [call EXCEPT ![closing.of] = [call[closing.of] EXCEPT !.pc = "closed"]]
      BY <2>2
    <3>. QED BY <1>1, <3>2, <3>3 DEF CallTypeOK
  <2>3. CASE StopsDevices
    <3> DEFINE m == IF call[closing.of].microphone = "starting" THEN "late" ELSE "closed"
    <3>1. call[closing.of] \in Calls /\ m \in {"late", "closed"}
      BY <1>1 DEF CallTypeOK
    <3>2. call' = [call EXCEPT ![closing.of] = [[call[closing.of] EXCEPT !.camera = "off"] EXCEPT !.microphone = m]]
      BY <1>1, <2>3 DEF CallTypeOK
    <3> HIDE DEF m
    <3>3. [[call[closing.of] EXCEPT !.camera = "off"] EXCEPT !.microphone = m] \in Calls
      BY <3>1 DEF Calls
    <3>. QED BY <1>1, <3>2, <3>3 DEF CallTypeOK
  <2>. QED BY <2>1, <2>2, <2>3
<1>4. ended' \subseteq Caller /\ UNCHANGED <<callSession, awaited, frames, view>>
  BY <1>1 DEF CallTypeOK
<1>5. CallTypeOK'
  BY <1>2, <1>3, <1>4 DEF CallTypeOK
<1>6. SeatIsWhole'
  <2>1. \A o \in Caller \ {closing.of} : call'[o] = call[o]
    BY DEF CallTypeOK
  <2>. QED BY <1>1, <1>4, <2>1 DEF SeatIsWhole, CallTypeOK
<1>7. CloseIsOfAnother'
  <2>1. /\ closing.at # "no" /\ closing'.at # "no"
        /\ closing'.of = closing.of /\ closing'.then = closing.then
    BY DEF CallTypeOK, Closings
  <2>2. \A o \in Caller : call'[o].at = call[o].at
    BY <1>1 DEF CallTypeOK, Calls
  <2>3. closing.then \in Caller \cup {NoCall}
    BY DEF CallTypeOK, Closings
  <2>. QED BY <1>1, <1>4, <2>1, <2>2, <2>3 DEF CloseIsOfAnother
<1>. QED BY <1>5, <1>6, <1>7

(* Handlers change one call, one step of it at a time.                        *)
LEMMA HandlersGoOn ==
  ASSUME CallInv, NEW o \in Caller,
         \/ RemoteSet(o) \/ LocalSet(o) \/ Answers(o) \/ StartsRecorder(o)
         \/ RecorderStarted(o) \/ ConnectionFails(o)
  PROVE  CallInv'
<1> USE CallAssumption
    DEF RemoteSet, LocalSet, Answers, StartsRecorder, RecorderStarted, ConnectionFails, Live
<1>1. call' \in [Caller -> Calls]
  BY DEF CallInv, CallTypeOK, Calls
<1>2. frames' \subseteq Caller /\ ended' \subseteq Caller /\ view' \in BOOLEAN
  BY DEF CallInv, CallTypeOK
<1>3. UNCHANGED <<callSession, awaited, closing>>
  OBVIOUS
<1>4. CallTypeOK'
  BY <1>1, <1>2, <1>3 DEF CallInv, CallTypeOK
<1>5. SeatIsWhole'
  BY <1>3 DEF CallInv, CallTypeOK, Calls, SeatIsWhole
<1>6. CloseIsOfAnother'
  <2>1. \A q \in Caller : /\ call'[q].at = "replacing" <=> call[q].at = "replacing"
                          /\ call'[q].at = "free" <=> call[q].at = "free"
    BY DEF CallInv, CallTypeOK, Calls
  <2>2. closing \in Closings
    BY DEF CallInv, CallTypeOK
  <2>. QED BY <1>3, <2>1, <2>2 DEF CallInv, CloseIsOfAnother, Closings
<1>. QED BY <1>4, <1>5, <1>6 DEF CallInv

(* A handler that ends with a close, or ends nothing but the close's call.    *)
LEMMA ClosesFrom ==
  ASSUME CallInv, NEW closeView \in BOOLEAN, CloseSession(closeView, NoCall),
         ended' \subseteq Caller,
         \/ UNCHANGED call
         \/ \E o \in Caller : /\ call[o].at \in {"remote", "local"}
                              /\ call' = [call EXCEPT ![o].at = "over"]
  PROVE  CallInv'
<1>1. call' \in [Caller -> Calls]
  BY DEF CallInv, CallTypeOK, Calls
<1>2. /\ callSession' \in {callSession, NoCall}
      /\ awaited' \in BOOLEAN /\ view' \in BOOLEAN /\ frames' \subseteq Caller
      /\ closing' \in Closings
      /\ \/ UNCHANGED closing
         \/ /\ closing.at = "no" /\ callSession # NoCall /\ callSession' = NoCall
            /\ closing' = [at |-> "media", of |-> callSession, view |-> closeView, then |-> NoCall]
  BY Closing
<1>3. CallTypeOK'
  BY <1>1, <1>2, CallAssumption DEF CallInv, CallTypeOK
<1>4. \A q \in Caller : /\ call[q].at \notin {"free", "replacing"} => call'[q].at \notin {"free", "replacing"}
                        /\ call[q].at = "replacing" => call'[q].at = "replacing"
                        /\ call[q].at = "over" => call'[q].at = "over"
                        /\ call'[q].camera = call[q].camera /\ call'[q].pc = call[q].pc
                        /\ call'[q].microphone = call[q].microphone
  BY DEF CallInv, CallTypeOK, Calls
<1>5. SeatIsWhole'
  BY <1>2, <1>4, CallAssumption DEF CallInv, CallTypeOK, SeatIsWhole
<1>6. CloseIsOfAnother'
  <2>1. CASE UNCHANGED closing
    BY <2>1, <1>2, <1>4 DEF CallInv, CallTypeOK, Closings, CloseIsOfAnother
  <2>2. CASE ~UNCHANGED closing
    BY <2>2, <1>2, <1>4, CallAssumption DEF CallInv, CallTypeOK, SeatIsWhole, CloseIsOfAnother
  <2>. QED BY <2>1, <2>2
<1>. QED BY <1>3, <1>5, <1>6 DEF CallInv

(* The call of an offer that has just been seated, with its camera or without.*)
LEMMA SeatedCall ==
  ASSUME CallTypeOK, NEW o \in Caller, NEW opens \in BOOLEAN
  PROVE  /\ Seated(o, opens) \in [Caller -> Calls]
         /\ \/ Seated(o, opens)[o].at = "remote" /\ Seated(o, opens)[o].camera = "on"
            \/ Seated(o, opens)[o].at = "over" /\ Seated(o, opens)[o].camera = "none"
         /\ Seated(o, opens)[o].pc = "open" /\ Seated(o, opens)[o].microphone = "idle"
         /\ \A q \in Caller \ {o} : Seated(o, opens)[q] = call[q]
<1> DEFINE at == IF opens THEN "remote" ELSE "over"
           camera == IF opens THEN "on" ELSE "none"
           seated == [at |-> at, pc |-> "open", camera |-> camera, speaker |-> FALSE, microphone |-> "idle"]
<1>1. (at = "remote" /\ camera = "on") \/ (at = "over" /\ camera = "none")
  OBVIOUS
<1>2. call \in [Caller -> Calls] /\ Seated(o, opens) = [call EXCEPT ![o] = seated]
  BY DEF CallTypeOK, Seated
<1> HIDE DEF at, camera
<1>3. seated \in Calls
  BY <1>1 DEF Calls
<1>4. seated.at = at /\ seated.camera = camera /\ seated.pc = "open" /\ seated.microphone = "idle"
  OBVIOUS
<1> HIDE DEF seated
<1>5. Seated(o, opens) \in [Caller -> Calls] /\ Seated(o, opens)[o] = seated
  BY <1>2, <1>3
<1>6. \A q \in Caller \ {o} : Seated(o, opens)[q] = call[q]
  BY <1>2
<1>. QED BY <1>1, <1>4, <1>5, <1>6

(* Whoever takes the seat has it whole, or leaves it at once to a close of    *)
(* its own, or is refused while the close that is running goes on.            *)
LEMMA TakingSeat ==
  ASSUME CallInv, NEW o \in Caller, NEW running \in Closings, NEW opens \in BOOLEAN,
         TakesSeat(o, running, opens),
         UNCHANGED ended, view' \in BOOLEAN,
         running.at = "no" <=> running.of = NoCall,
         running.at = "no" => running.then = NoCall,
         running.of # NoCall => /\ running.of # o
                                /\ call[running.of].at \notin {"free", "replacing"},
         running.then # NoCall => running.then # o /\ call[running.then].at = "replacing"
  PROVE  CallInv'
<1> USE CallAssumption DEF CallInv
<1>1. /\ call' = Seated(o, opens) /\ awaited' = FALSE /\ frames' = {}
      /\ \/ callSession' = o /\ closing' = running
         \/ /\ callSession' = NoCall
            /\ closing' = [at |-> "media", of |-> o, view |-> TRUE, then |-> NoCall]
  BY DEF TakesSeat
<1>2. closing' \in Closings
  <2>1. [at |-> "media", of |-> o, view |-> TRUE, then |-> NoCall] \in Closings
    BY DEF Closings
  <2>. QED BY <1>1, <2>1
<1>3. /\ call' \in [Caller -> Calls] /\ \A q \in Caller \ {o} : call'[q] = call[q]
      /\ \/ call'[o].at = "remote" /\ call'[o].camera = "on"
         \/ call'[o].at = "over" /\ call'[o].camera = "none"
      /\ call'[o].pc = "open" /\ call'[o].microphone = "idle"
  BY <1>1, SeatedCall
<1>4. CallTypeOK'
  BY <1>1, <1>2, <1>3 DEF CallTypeOK
<1>5. SeatIsWhole'
  BY <1>1, <1>3 DEF SeatIsWhole
<1>6. CloseIsOfAnother'
  <2>1. CASE callSession' = o /\ closing' = running
    <3>1. running.of \in Caller \cup {NoCall} /\ running.then \in Caller \cup {NoCall}
      BY DEF Closings
    <3>. QED BY <2>1, <3>1, <1>3 DEF CloseIsOfAnother
  <2>2. CASE /\ callSession' = NoCall
             /\ closing' = [at |-> "media", of |-> o, view |-> TRUE, then |-> NoCall]
    BY <2>2, <1>3 DEF CloseIsOfAnother
  <2>. QED BY <1>1, <2>1, <2>2
<1>. QED BY <1>4, <1>5, <1>6

(* An offer takes the seat at once, while another close runs or with nothing  *)
(* to close, or starts the close of the call before.                          *)
LEMMA Seating ==
  ASSUME CallInv, NEW o \in Caller, Offers(o)
  PROVE  CallInv'
<1> USE CallAssumption DEF CallInv, Offers
<1>1. CASE callSession = NoCall \/ closing.at # "no"
  <2>1. PICK opens \in BOOLEAN : TakesSeat(o, closing, opens) /\ UNCHANGED <<view, ended>>
    BY <1>1
  <2>2. closing \in Closings /\ view \in BOOLEAN /\ call[o].at = "free"
    BY DEF CallTypeOK
  <2>. QED BY <2>1, <2>2, TakingSeat DEF CloseIsOfAnother
<1>2. CASE callSession # NoCall /\ closing.at = "no"
  <2>1. call' \in [Caller -> Calls]
    BY <1>2 DEF CallTypeOK, Calls
  <2>2. /\ callSession' = NoCall /\ awaited' = FALSE /\ UNCHANGED <<ended, frames, view>>
        /\ closing' = [at |-> "media", of |-> callSession, view |-> FALSE, then |-> o]
    BY <1>2 DEF CloseSession
  <2>3. closing' \in Closings
    BY <2>2 DEF CallTypeOK, Closings
  <2>4. CallTypeOK'
    BY <2>1, <2>2, <2>3 DEF CallTypeOK
  <2>5. SeatIsWhole'
    BY <2>2 DEF SeatIsWhole
  <2>6. CloseIsOfAnother'
    <3>1. callSession \in Caller /\ callSession # o /\ call[callSession].at \notin {"free", "replacing"}
      BY <1>2 DEF CallTypeOK, SeatIsWhole
    <3>2. call'[o].at = "replacing" /\ call'[callSession] = call[callSession]
      BY <1>2, <3>1 DEF CallTypeOK, Calls
    <3>. QED BY <2>2, <3>1, <3>2 DEF CloseIsOfAnother
  <2>. QED BY <2>4, <2>5, <2>6
<1>. QED BY <1>1, <1>2

(* The end of a close seats the offer it let in, whoever has the seat by now. *)
LEMMA ClosingEnds ==
  ASSUME CallInv, CloseEnds
  PROVE  CallInv'
<1> USE CallAssumption DEF CallInv, CloseEnds
<1>1. NotClosing \in Closings /\ NotClosing.at = "no" /\ NotClosing.of = NoCall /\ NotClosing.then = NoCall
  BY DEF Closings, NotClosing
<1>2. view' \in BOOLEAN /\ UNCHANGED ended
  <2>1. view' = (view /\ ~closing.view)
    OBVIOUS
  <2>. QED BY <2>1, Zenon
<1>3. CASE closing.then # NoCall
  <2>1. closing.then \in Caller
    BY <1>3 DEF CallTypeOK, Closings
  <2>2. PICK opens \in BOOLEAN : TakesSeat(closing.then, NotClosing, opens)
    BY <1>3
  <2>. QED BY <1>1, <1>2, <2>1, <2>2, TakingSeat
<1>4. CASE closing.then = NoCall
  <2>1. closing' = NotClosing /\ frames' = {} /\ UNCHANGED <<callSession, awaited, call>>
    BY <1>4
  <2>2. CallTypeOK' /\ SeatIsWhole'
    BY <1>1, <1>2, <2>1 DEF CallTypeOK, SeatIsWhole
  <2>3. CloseIsOfAnother'
    BY <1>1, <2>1 DEF CloseIsOfAnother
  <2>. QED BY <2>2, <2>3
<1>. QED BY <1>3, <1>4

LEMMA NextCallInv == CallInv /\ [CallNext]_callVars => CallInv'
<1> SUFFICES ASSUME CallInv, [CallNext]_callVars PROVE CallInv'
  OBVIOUS
<1>1. CASE StopsMedia \/ StopsDevices \/ ClosesConnection
  BY <1>1, ClosesOn
<1>2. CASE CloseEnds
  BY <1>2, ClosingEnds
<1>3. CASE Hangup
  BY <1>3, ClosesFrom DEF Hangup, CallInv, CallTypeOK
<1>4. CASE Activate
  BY <1>4 DEF Activate, CallInv, CallTypeOK, SeatIsWhole, CloseIsOfAnother
<1>5. ASSUME NEW o \in Caller,
             \/ RemoteSet(o) \/ LocalSet(o) \/ Answers(o) \/ StartsRecorder(o)
             \/ RecorderStarted(o) \/ ConnectionFails(o)
      PROVE  CallInv'
  BY <1>5, HandlersGoOn
<1>6. ASSUME NEW o \in Caller, Offers(o) PROVE CallInv'
  BY <1>6, Seating
<1>7. ASSUME NEW o \in Caller, OfferFails(o) PROVE CallInv'
  BY <1>7, ClosesFrom DEF OfferFails, CallInv, CallTypeOK
<1>8. ASSUME NEW o \in Caller, ConnectionEnded(o) PROVE CallInv'
  BY <1>8, ClosesFrom DEF ConnectionEnded, CallInv, CallTypeOK
<1>9. CASE UNCHANGED callVars
  BY <1>9 DEF callVars, CallInv, CallTypeOK, SeatIsWhole, CloseIsOfAnother
<1>. QED BY <1>1, <1>2, <1>3, <1>4, <1>5, <1>6, <1>7, <1>8, <1>9 DEF CallNext

THEOREM CallInvariant == CallSpec => []CallInv
BY InitCallInv, NextCallInv, PTL DEF CallSpec

------------------------------------------------------------------------------
(* Whatever offers, hang-ups, failures and ends of connections overlap, the   *)
(* call in the server's seat is not the one a close is taking apart           *)
(* (close_session, accept_offer).                                             *)
THEOREM TheCallIsWhole == CallSpec => []CurrentCallIsWhole
<1>1. CallInv => CurrentCallIsWhole
  BY CallAssumption DEF CallInv, CallTypeOK, SeatIsWhole, CloseIsOfAnother, CurrentCallIsWhole
<1>. QED BY <1>1, CallInvariant, PTL

------------------------------------------------------------------------------
(* The microphone daemon.                                                   *)

Messages == [kind : {"control", "handshake", "wake"}, id : Nat]

(* Only a request that is registered holds anything, and an answer it holds   *)
(* is its own.                                                                *)
HoldersAreRegistered ==
  \A a \in Asker :
    /\ asks[a] \in {"idle", "numbered", "done"} => holder[a] = Nothing
    /\ holder[a].kind = "control" => holder[a].id = number[a]

(* A command that went out earlier than the port is open has been told of.    *)
LostAreTold ==
  \A a \in Asker :
    asks[a] = "waiting" /\ (sentOn[a] < connects \/ serial = "closed") => holder[a] # Nothing

DaemonInv ==
  /\ DaemonTypeOK /\ line \in Seq(Messages)
  /\ HoldersAreRegistered /\ LostAreTold
  /\ \A a \in Asker : sentOn[a] <= connects
  /\ portOpen => serial \in {"greeting", "reading", "lost"}

LEMMA InitDaemonInv == DaemonInit => DaemonInv
<1> SUFFICES ASSUME DaemonInit PROVE DaemonInv
  OBVIOUS
<1> USE DaemonAssumption DEF DaemonInit
<1>1. line \in Seq(Messages) /\ Len(line) <= MaxLine /\ spoken \in 0..MaxSpoken
  OBVIOUS
<1>2. holder \in [Asker -> [kind : {"nothing", "disconnected", "control"}, id : Nat]]
  BY DEF Nothing
<1>3. connects \in 0..MaxConnects
  OBVIOUS
<1>4. portOpen \in BOOLEAN
  OBVIOUS
<1>5. /\ asks \in [Asker -> {"idle", "numbered", "registered", "waiting", "done"}]
      /\ number \in [Asker -> Nat] /\ sentOn \in [Asker -> 0..MaxConnects]
  OBVIOUS
<1>6. DaemonTypeOK
  BY <1>1, <1>2, <1>3, <1>4, <1>5 DEF DaemonTypeOK
<1>7. HoldersAreRegistered /\ LostAreTold
  BY DEF HoldersAreRegistered, LostAreTold, Nothing
<1>. QED BY <1>1, <1>6, <1>7 DEF DaemonInv

(* serial_loop, as far as it hears and tells nobody.                          *)
LEMMA SerialLoop ==
  ASSUME DaemonInv, Connects \/ Greets \/ Fails \/ DropsMessages
  PROVE  DaemonInv'
<1> USE DaemonAssumption
    DEF Connects, Greets, Fails, DropsMessages, AsksVersion, thread, asker, array, DaemonInv
<1>1. line' \in Seq(Messages) /\ Len(line') <= MaxLine
  <2>1. CASE UNCHANGED line
    BY <2>1 DEF DaemonTypeOK
  <2>2. CASE DropsMessages
    <3>1. PICK n \in 1..Len(line) : line' = SubSeq(line, n + 1, Len(line))
      BY <2>2
    <3>. QED BY <3>1 DEF DaemonTypeOK
  <2>. QED BY <2>1, <2>2
<1>2. DaemonTypeOK'
  <2>1. serial' \in {"greeting", "reading", "lost"} /\ connects' \in 0..MaxConnects
    BY DEF DaemonTypeOK
  <2>2. portOpen' \in BOOLEAN
    <3>1. UNCHANGED portOpen \/ portOpen' = TRUE
      OBVIOUS
    <3>. QED BY <3>1 DEF DaemonTypeOK
  <2>3. nextId' \in Nat /\ UNCHANGED <<asks, number, sentOn, holder, owed, spoken>>
    BY DEF DaemonTypeOK
  <2>. QED BY <1>1, <2>1, <2>2, <2>3 DEF DaemonTypeOK
<1>3. HoldersAreRegistered' /\ LostAreTold'
  BY DEF DaemonTypeOK, HoldersAreRegistered, LostAreTold
<1>4. /\ \A a \in Asker : sentOn'[a] <= connects'
      /\ portOpen' => serial' \in {"greeting", "reading", "lost"}
  BY DEF DaemonTypeOK
<1>. QED BY <1>1, <1>2, <1>3, <1>4

(* handle_message.                                                            *)
LEMMA Hearing ==
  ASSUME DaemonInv, HandlesMessage
  PROVE  DaemonInv'
<1> USE DEF HandlesMessage, AsksVersion, Pending, thread, asker, DaemonInv
<1>1. line' \in Seq(Messages) /\ Len(line') <= MaxLine /\ Head(line) \in Messages
  BY DaemonAssumption DEF DaemonTypeOK
<1>2. \A a \in Asker :
        \/ holder'[a] = holder[a]
        \/ /\ holder'[a] = Head(line) /\ Head(line).kind = "control"
           /\ asks[a] \in {"registered", "waiting"} /\ Head(line).id = number[a]
  OBVIOUS
<1>3. holder' \in [Asker -> [kind : {"nothing", "disconnected", "control"}, id : Nat]]
  <2>1. \A a \in Asker : holder'[a] \in [kind : {"nothing", "disconnected", "control"}, id : Nat]
    BY <1>1, <1>2 DEF DaemonTypeOK, Messages
  <2>. QED BY <2>1
<1>4. DaemonTypeOK'
  BY <1>1, <1>3 DEF DaemonTypeOK
<1>5. HoldersAreRegistered' /\ LostAreTold'
  BY <1>2 DEF HoldersAreRegistered, LostAreTold, Nothing
<1>. QED BY <1>1, <1>4, <1>5

(* The end of a connection, in its two steps.                                 *)
LEMMA Ending ==
  ASSUME DaemonInv, Finally
  PROVE  DaemonInv'
<1> USE DEF Finally, asker, array, DaemonInv
<1>1. CASE serial = "lost"
  BY <1>1 DEF DaemonTypeOK, HoldersAreRegistered, LostAreTold
<1>2. CASE serial = "closing"
  <2>1. \A a \in Asker : holder'[a] = IF asks[a] \in {"registered", "waiting"}
                                        THEN Disconnected ELSE holder[a]
    BY <1>2 DEF Tell
  <2>2. holder' \in [Asker -> [kind : {"nothing", "disconnected", "control"}, id : Nat]]
    BY <1>2 DEF Tell, DaemonTypeOK, Disconnected
  <2>3. DaemonTypeOK'
    BY <1>2, <2>2 DEF DaemonTypeOK
  <2>4. HoldersAreRegistered' /\ LostAreTold'
    BY <1>2, <2>1 DEF HoldersAreRegistered, LostAreTold, Disconnected, Nothing
  <2>. QED BY <1>2, <2>3, <2>4
<1>. QED BY <1>1, <1>2

(* send_control, in the thread of a request.                                  *)
LEMMA Asking ==
  ASSUME DaemonInv, NEW a \in Asker,
         TakesNumber(a) \/ Enters(a) \/ Writes(a) \/ Returns(a)
  PROVE  DaemonInv'
<1> USE DEF thread, array, DaemonInv
<1>1. CASE TakesNumber(a)
  BY <1>1 DEF TakesNumber, DaemonTypeOK, HoldersAreRegistered, LostAreTold, Nothing
<1>2. CASE Enters(a)
  BY <1>2 DEF Enters, DaemonTypeOK, HoldersAreRegistered, LostAreTold
<1>3. CASE Writes(a) /\ ~Forgets(a)
  <2>1. /\ portOpen /\ asks[a] = "registered" /\ asks' = [asks EXCEPT ![a] = "waiting"]
        /\ sentOn' = [sentOn EXCEPT ![a] = connects] /\ owed' = owed \cup {number[a]}
        /\ UNCHANGED <<serial, portOpen, connects, nextId, number, holder, line, spoken>>
    BY <1>3 DEF Writes
  <2>2. DaemonTypeOK'
    BY <2>1 DEF DaemonTypeOK
  <2>3. HoldersAreRegistered' /\ LostAreTold'
    BY <2>1 DEF DaemonTypeOK, HoldersAreRegistered, LostAreTold
  <2>4. \A b \in Asker : sentOn'[b] <= connects'
    BY <2>1 DEF DaemonTypeOK
  <2>. QED BY <2>1, <2>2, <2>3, <2>4
<1>4. CASE (Writes(a) \/ Returns(a)) /\ Forgets(a)
  <2>1. /\ asks' = [asks EXCEPT ![a] = "done"] /\ number' = [number EXCEPT ![a] = 0]
        /\ sentOn' = [sentOn EXCEPT ![a] = 0] /\ holder' = [holder EXCEPT ![a] = Nothing]
        /\ owed' \subseteq Nat
        /\ UNCHANGED <<serial, portOpen, connects, nextId, line, spoken>>
    BY <1>4 DEF Writes, Returns, Forgets, DaemonTypeOK
  <2>2. Nothing \in [kind : {"nothing", "disconnected", "control"}, id : Nat] /\ Nothing.kind = "nothing"
    BY DEF Nothing
  <2>3. DaemonTypeOK'
    BY <2>1, <2>2, DaemonAssumption DEF DaemonTypeOK
  <2>4. HoldersAreRegistered' /\ LostAreTold'
    BY <2>1, <2>2 DEF DaemonTypeOK, HoldersAreRegistered, LostAreTold
  <2>5. \A b \in Asker : sentOn'[b] <= connects'
    BY <2>1 DEF DaemonTypeOK
  <2>. QED BY <2>1, <2>3, <2>4, <2>5
<1>. QED BY <1>1, <1>2, <1>3, <1>4 DEF Returns

(* The device answers, or speaks of its own accord.                           *)
LEMMA Answering ==
  ASSUME DaemonInv, Replies \/ Speaks
  PROVE  DaemonInv'
<1> USE DEF thread, asker, DaemonInv
<1>1. \E m \in Messages : Sends(m)
  <2>1. CASE Replies
    <3>1. PICK i \in owed : Sends([kind |-> "control", id |-> i])
      BY <2>1 DEF Replies
    <3>2. [kind |-> "control", id |-> i] \in Messages
      BY DEF Messages, DaemonTypeOK
    <3>. QED BY <3>1, <3>2
  <2>2. CASE Speaks
    <3>1. \E k \in {"control", "handshake", "wake"} : \E i \in Nat : Sends([kind |-> k, id |-> i])
      BY <2>2 DEF Speaks, DaemonTypeOK
    <3>. QED BY <3>1 DEF Messages
  <2>. QED BY <2>1, <2>2
<1>2. line' \in Seq(Messages) /\ Len(line') <= MaxLine
  <2>1. PICK m \in Messages : Sends(m)
    BY <1>1
  <2>. QED BY <2>1, DaemonAssumption DEF Sends, DaemonTypeOK
<1>3. owed' \subseteq Nat /\ UNCHANGED <<thread, asker, nextId, holder>>
  BY DEF Replies, Speaks, DaemonTypeOK
<1>4. spoken' \in 0..MaxSpoken
  BY DaemonAssumption DEF Replies, Speaks, DaemonTypeOK
<1>5. DaemonTypeOK'
  BY <1>2, <1>3, <1>4 DEF DaemonTypeOK
<1>. QED BY <1>2, <1>3, <1>5 DEF HoldersAreRegistered, LostAreTold

LEMMA NextDaemonInv == DaemonInv /\ [DaemonNext]_daemonVars => DaemonInv'
<1> SUFFICES ASSUME DaemonInv, [DaemonNext]_daemonVars PROVE DaemonInv'
  OBVIOUS
<1>1. CASE DaemonNext
  BY <1>1, SerialLoop, Hearing, Ending, Asking, Answering DEF DaemonNext
<1>2. CASE UNCHANGED daemonVars
  BY <1>2 DEF daemonVars, thread, asker, array, DaemonInv, DaemonTypeOK, HoldersAreRegistered, LostAreTold
<1>. QED BY <1>1, <1>2

THEOREM DaemonInvariant == DaemonSpec => []DaemonInv
BY InitDaemonInv, NextDaemonInv, PTL DEF DaemonSpec

(* Whoever asks the array hears the own answer or none, and is told when the  *)
(* connection of the command has gone (send_control, handle_message,          *)
(* serial_loop's finally).                                                    *)
THEOREM TheAskersAreTold == DaemonSpec => []AskersAreTold
<1>1. DaemonInv => AskersAreTold
  BY DEF DaemonInv, HoldersAreRegistered, LostAreTold, AskersAreTold
<1>. QED BY <1>1, DaemonInvariant, PTL
==============================================================================
