------------------------------ MODULE Accounts ------------------------------
(****************************************************************************)
(* Workspace accounts and platform administration together: administrators  *)
(* suspend and reactivate the companies whose owners sign in meanwhile.     *)
(****************************************************************************)
EXTENDS TenantAccounts, PlatformAdmins

CONSTANT MaxStatusChanges  \* bound: suspensions and reactivations of a company

vars == <<credentials, tenancy, office>>
Init == CredentialsInit /\ TenantsInit /\ OfficeInit

Suspensions(u) == audits["company_suspended"][u]
Reactivations(u) == audits["company_reactivated"][u]

\* Wrong: a company may be suspended again.
ChangeCompanyStatusAgain(b, u) ==
  /\ Acting(b) /\ u \in registered
  /\ Suspensions(u) + Reactivations(u) < MaxStatusChanges
  /\ \/ suspended' = suspended \cup {u} /\ Audit("company_suspended", u)
     \/ suspended' = suspended \ {u} /\ Audit("company_reactivated", u)
  /\ UNCHANGED <<credentials, activated, application>>

ChangeCompanyStatus(b, u) ==
  /\ Acting(b) /\ u \in registered
  /\ Suspensions(u) + Reactivations(u) < MaxStatusChanges
  /\ \/ /\ u \notin suspended /\ suspended' = suspended \cup {u}
        /\ Audit("company_suspended", u)
     \/ /\ u \in suspended /\ suspended' = suspended \ {u}
        /\ Audit("company_reactivated", u)
  /\ UNCHANGED <<credentials, activated, application>>

\* The command refuses a company with any platform history.
Cleanup(u) == CleanupDisposable(u, Suspensions(u) > 0) /\ UNCHANGED office

Next ==
  \/ TenantNext /\ UNCHANGED office
  \/ OfficeNext /\ UNCHANGED tenancy
  \/ \E l \in Links : (ResetMailFails(l) \/ LinkExpires(l)) /\ UNCHANGED <<tenancy, office>>
  \/ \E u \in Owners : Cleanup(u) \/ \E b \in Admins : ChangeCompanyStatus(b, u)

Spec == Init /\ [][Next]_vars
-----------------------------------------------------------------------------
\* "A reset ends every session": a token that a guard lets through, and that
\* was had for a password, was had for one set since the last reset, however
\* the sign-in, the reset and a change of password overlapped.
SessionsEndWithReset ==
  \A token \in tokens :
    Current(token) /\ token.how = "password" => token.secret >= since[token.of]

\* "The link works once": no link has two effects, whatever calls hold it at
\* the same time.
LinksWorkOnce == \A l \in Links : links[l].uses <= 1

\* The newest link of its kind, on its way or with its reader, works until it is
\* used, runs out or a command makes it void, unless its own mail was reported
\* as failed: the clean-up after the mail of an older request (the catch of
\* forgotPassword and of request) never takes it back, however late it runs.  A
\* mail that arrives although it was reported as failed brings a dead link.
NewestLinkWorks ==
  \A l \in Links :
    LET a == links[l].to
        k == links[l].for IN
    /\ ~links[l].failed /\ ~links[l].expired /\ links[l].uses = 0
    /\ \A m \in Links : m > l => ~IsFor(m, a, k)
    => links[l].held

\* Tokens an administrator has, or that a recorded sign-in is about to sign.
Told(a) ==
  {token \in tokens : token.of = a}
    \cup {TokenFor(call) : call \in {c \in calls : c.does = "sign" /\ c.of = a}}

\* The audit trail and the state tell the same story: resets, accounts, decisions
\* and suspensions are counted in it exactly, no step of an application comes
\* without the one before, and nobody is let in whose sign-in was not recorded
\* (login: "fails closed"); a sign-in that stops before its token leaves its row.
\* Of resendSetup and resendRejection, which write no row, it does not speak.
AuditTellsHistory ==
  /\ \A a \in Admins :
       /\ audits["password_reset"][a] = version[a]
       /\ audits["bootstrap_created"][a] + audits["access_activated"][a]
            = (IF a \in registered THEN 1 ELSE 0)
       /\ audits["access_activated"][a] <= audits["access_approved"][a]
       /\ audits["access_approved"][a] + audits["access_rejected"][a]
            <= audits["access_verified"][a]
       /\ audits["access_verified"][a] <= audits["access_requested"][a]
       /\ Cardinality(Told(a)) <= audits["login_succeeded"][a]
  /\ \A u \in Owners :
       Suspensions(u) = Reactivations(u) + (IF u \in suspended THEN 1 ELSE 0)
=============================================================================
