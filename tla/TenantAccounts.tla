--------------------------- MODULE TenantAccounts ---------------------------
(****************************************************************************)
(* Workspace owners: registration with a mailed activation link or through  *)
(* Google, sign-in, password recovery and change, the guard of every        *)
(* request, and the clean-up command for a company never activated.         *)
(****************************************************************************)
EXTENDS Credentials

VARIABLES
  activated,  \* owners whose company's activatedAt is set
  suspended   \* owners whose company's platformStatus is suspended

tenancy == <<activated, suspended>>
TenantsInit == activated = {} /\ suspended = {}

\* assertTenantAccess
Open(u) == u \in activated /\ u \notin suspended
\* IsAuthGuard
Admits(token) == Current(token) /\ Open(token.of)

SignUp(u) ==
  /\ Created(u) /\ Room
  /\ links' = WithLink(u, "activate")
  /\ UNCHANGED <<calls, tokens, tenancy>>

Verify(l) ==
  LET u == links[l].to IN
  /\ Valid(l, "activate") /\ u \notin activated
  /\ activated' = activated \cup {u}
  /\ links' = [links EXCEPT ![l] = Used(@)]
  /\ UNCHANGED <<identity, calls, tokens, suspended>>

Resend(u) ==
  /\ u \in registered \ activated /\ Room
  /\ links' = WithLink(u, "activate")
  /\ UNCHANGED <<identity, calls, tokens, tenancy>>

ForgotPassword(u) == Open(u) /\ Forgot(u) /\ UNCHANGED tenancy

\* resetPassword: the link is looked up, the new password hashed, then the
\* link looked for again by the write.  One link may be in several calls.
ResetReads(l) ==
  /\ Valid(l, "reset") /\ links[l].to \in Owners /\ Open(links[l].to)
  /\ \E i \in 1..MaxCalls : Begin([does |-> "reset", of |-> links[l].to, link |-> l, twin |-> i])
  /\ UNCHANGED <<identity, links, tokens, tenancy>>

\* Wrong: the write looks for the user alone.
ResetWritesById(call) ==
  /\ call.does = "reset" /\ End(call)
  /\ PasswordReset(call.of)
  /\ links' = [links EXCEPT ![call.link] = Used(@)]
  /\ UNCHANGED <<tokens, tenancy>>

ResetWrites(call) ==
  /\ call.does = "reset" /\ End(call)
  /\ \/ /\ Valid(call.link, "reset") /\ PasswordReset(call.of)
        /\ links' = [links EXCEPT ![call.link] = Used(@)]
     \/ ~Valid(call.link, "reset") /\ UNCHANGED <<identity, links>>
  /\ UNCHANGED <<tokens, tenancy>>

\* changePassword: the write wants the hash that was compared.
ChangeReads(token) ==
  /\ Admits(token) /\ secret[token.of] # 0
  /\ Begin([does |-> "change", of |-> token.of, secret |-> secret[token.of]])
  /\ UNCHANGED <<identity, links, tokens, tenancy>>

ChangeWrites(call) ==
  /\ call.does = "change" /\ End(call)
  /\ IF secret[call.of] = call.secret THEN NewPassword(call.of) ELSE UNCHANGED secret
  /\ UNCHANGED <<registered, since, version, links, tokens, tenancy>>

SignIn(u) == SignInReads(u) /\ UNCHANGED tenancy

SignInEnds(call) ==
  /\ call.does = "signIn" /\ call.of \in Owners
  /\ IF Open(call.of) THEN Signed(call) ELSE Refused(call)
  /\ UNCHANGED tenancy

(****************************************************************************)
(* Google: a browser that brings its state back, which is deleted then, and *)
(* an address Google vouches for, gets a code for the front end: the first  *)
(* half of a call.  The other half deletes the code, or it runs out.        *)
(****************************************************************************)
Code(u) == [does |-> IF u \in registered THEN "login" ELSE "register", of |-> u]

GoogleReturns(u) ==
  /\ u \in registered => Open(u)
  /\ Begin(Code(u))
  /\ UNCHANGED <<identity, links, tokens, tenancy>>

GoogleExchange(call) ==
  /\ call.does = "login"
  /\ calls' = (calls \ {call}) \cup {SignInCall(call.of, "google")}
  /\ UNCHANGED <<identity, links, tokens, tenancy>>

\* An address in use aborts the transaction, and the code stays.
GoogleRegister(call) ==
  LET u == call.of IN
  /\ call.does = "register" /\ u \notin registered
  /\ calls' = (calls \ {call}) \cup {SignInCall(u, "google")}
  /\ registered' = registered \cup {u}
  /\ activated' = activated \cup {u}
  /\ UNCHANGED <<secret, since, version, links, tokens, suspended>>

CodeExpires(call) ==
  /\ call.does \in {"login", "register"} /\ End(call)
  /\ UNCHANGED <<identity, links, tokens, tenancy>>

\* The clean-up command, with the application stopped: `touched` companies
\* have a history it refuses.
Disposable(u, touched) == u \in registered \ activated /\ ~touched

CleanupDisposable(u, touched) ==
  /\ Disposable(u, touched)
  /\ \A call \in calls : call.does = "register"
  /\ registered' = registered \ {u}
  /\ secret' = [secret EXCEPT ![u] = 0]
  /\ since' = [since EXCEPT ![u] = 0]
  /\ links' = Void(u, "activate")
  /\ UNCHANGED <<version, calls, tokens, tenancy>>

TenantNext ==
  \/ \E u \in Owners : SignUp(u) \/ Resend(u) \/ ForgotPassword(u) \/ SignIn(u) \/ GoogleReturns(u)
  \/ \E l \in Links : Verify(l) \/ ResetReads(l)
  \/ \E call \in calls :
       \/ ResetWrites(call) \/ ChangeWrites(call) \/ SignInEnds(call)
       \/ GoogleExchange(call) \/ GoogleRegister(call) \/ CodeExpires(call)
  \/ \E token \in tokens : ChangeReads(token)
=============================================================================
