--------------------------- MODULE PlatformAdmins ---------------------------
(****************************************************************************)
(* Platform administrators: the bootstrap command, applications for access  *)
(* and their review, sign-in, recovery by mail and by command, and the      *)
(* audit trail, which is written in the transaction of what it records.     *)
(****************************************************************************)
EXTENDS Credentials

VARIABLES
  application,  \* status of the latest application of each address
  audits        \* how often each action was recorded of each target

office == <<application, audits>>
Recorded == {"bootstrap_created", "login_succeeded", "password_reset", "access_requested",
             "access_verified", "access_approved", "access_rejected", "access_activated",
             "company_suspended", "company_reactivated"}
Underway == {"awaiting_verification", "pending_review", "approved"}

OfficeInit ==
  /\ application = [a \in Admins |-> "none"]
  /\ audits = [x \in Recorded |-> [a \in Accounts |-> 0]]

Audit(x, a) == audits' = [audits EXCEPT ![x][a] = @ + 1]
Becomes(a, status) == application' = [application EXCEPT ![a] = status]
\* PlatformAdminGuard
Acting(b) == \E token \in tokens : token.of = b /\ Current(token)

Bootstrap(a) ==
  /\ Created(a) /\ Audit("bootstrap_created", a)
  /\ UNCHANGED <<links, calls, tokens, application>>

(****************************************************************************)
(* Applications                                                             *)
(****************************************************************************)
\* The link of an unverified application ran out: it stands in nobody's way.
RanOut(a) ==
  /\ application[a] = "awaiting_verification"
  /\ \A l \in Links : IsFor(l, a, "verify") /\ links[l].held => links[l].expired

RequestAccess(a) ==
  /\ application[a] \notin Underway \/ RanOut(a)
  /\ a \notin registered /\ Room
  /\ Becomes(a, "awaiting_verification")
  /\ links' = WithLink(a, "verify")
  /\ Audit("access_requested", a)
  /\ UNCHANGED <<identity, calls, tokens>>

\* An administrator's own leftover application is closed, and none is made.
RequestByAdmin(a) ==
  /\ a \in registered /\ RanOut(a)
  /\ Becomes(a, "expired") /\ links' = Without(a, "verify")
  /\ UNCHANGED <<identity, calls, tokens, audits>>

\* Wrong: whatever application of this address waits is closed.
RequestMailFailsByEmail(l) ==
  LET a == links[l].to IN
  /\ MayFail(l, "verify")
  /\ IF application[a] = "awaiting_verification"
     THEN Becomes(a, "expired") /\ links' = [Without(a, "verify") EXCEPT ![l].failed = TRUE]
     ELSE links' = [links EXCEPT ![l].failed = TRUE] /\ UNCHANGED application
  /\ UNCHANGED <<identity, calls, tokens, audits>>

RequestMailFails(l) ==
  /\ MayFail(l, "verify")
  /\ IF links[l].held THEN Becomes(links[l].to, "expired") ELSE UNCHANGED application
  /\ links' = [links EXCEPT ![l] = [Dropped(@) EXCEPT !.failed = TRUE]]
  /\ UNCHANGED <<identity, calls, tokens, audits>>

VerifyAccess(l) ==
  LET a == links[l].to IN
  /\ Valid(l, "verify")
  /\ Becomes(a, "pending_review") /\ links' = [links EXCEPT ![l] = Used(@)]
  /\ Audit("access_verified", a)
  /\ UNCHANGED <<identity, calls, tokens>>

Decide(b, a) ==
  /\ Acting(b) /\ application[a] = "pending_review"
  /\ \/ /\ Room /\ Becomes(a, "approved") /\ links' = WithLink(a, "setup")
        /\ Audit("access_approved", a)
     \/ Becomes(a, "rejected") /\ Audit("access_rejected", a) /\ UNCHANGED links
  /\ UNCHANGED <<identity, calls, tokens>>

ResendSetup(b, a) ==
  /\ Acting(b) /\ application[a] = "approved" /\ Room
  /\ links' = WithLink(a, "setup")
  /\ UNCHANGED <<identity, calls, tokens, office>>

\* Wrong: the application is closed although the account exists already.
SetupAnyway(l) ==
  LET a == links[l].to IN
  /\ Valid(l, "setup")
  /\ Created(a) \/ (a \in registered /\ UNCHANGED identity)
  /\ Becomes(a, "activated") /\ links' = [links EXCEPT ![l] = Used(@)]
  /\ Audit("access_activated", a)
  /\ UNCHANGED <<calls, tokens>>

\* An address that is an administrator by now aborts the transaction.
Setup(l) ==
  LET a == links[l].to IN
  /\ Valid(l, "setup") /\ Created(a)
  /\ Becomes(a, "activated") /\ links' = [links EXCEPT ![l] = Used(@)]
  /\ Audit("access_activated", a)
  /\ UNCHANGED <<calls, tokens>>

(****************************************************************************)
(* Sign-in and recovery                                                     *)
(****************************************************************************)
AdminSignIn(a) == SignInReads(a) /\ UNCHANGED office

\* The sign-in is recorded before its token is signed; when it cannot be
\* recorded nobody gets in.
AdminSignInRecorded(call) ==
  /\ call.does = "signIn" /\ call.of \in Admins /\ UNCHANGED application
  /\ \/ Refused(call) /\ UNCHANGED audits
     \/ /\ MapThenSumSet(LAMBDA a : audits["login_succeeded"][a], Admins) < MaxSignIns
        /\ calls' = (calls \ {call}) \cup {[call EXCEPT !.does = "sign"]}
        /\ Audit("login_succeeded", call.of)
        /\ UNCHANGED <<identity, links, tokens>>

\* The token is signed, or the process stops before it is.
AdminSignInEnds(call) ==
  /\ call.does = "sign" /\ UNCHANGED office
  /\ Signed(call) \/ Refused(call)

AdminForgot(a) == Forgot(a) /\ UNCHANGED office

AdminReset(l) ==
  LET a == links[l].to IN
  /\ Valid(l, "reset") /\ a \in Admins
  /\ PasswordReset(a) /\ links' = [links EXCEPT ![l] = Used(@)]
  /\ Audit("password_reset", a)
  /\ UNCHANGED <<calls, tokens, application>>

\* The command admin:reset-password
ResetByCommand(a) ==
  /\ a \in registered /\ PasswordReset(a)
  /\ links' = Void(a, "reset")
  /\ Audit("password_reset", a)
  /\ UNCHANGED <<calls, tokens, application>>

OfficeNext ==
  \/ \E a \in Admins :
       \/ Bootstrap(a) \/ RequestAccess(a) \/ RequestByAdmin(a) \/ AdminSignIn(a)
       \/ AdminForgot(a) \/ ResetByCommand(a)
       \/ \E b \in Admins : Decide(b, a) \/ ResendSetup(b, a)
  \/ \E l \in Links :
       RequestMailFails(l) \/ VerifyAccess(l) \/ Setup(l) \/ AdminReset(l)
  \/ \E call \in calls : AdminSignInRecorded(call) \/ AdminSignInEnds(call)
=============================================================================
