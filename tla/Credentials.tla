---------------------------- MODULE Credentials ----------------------------
(****************************************************************************)
(* What workspace users and platform administrators share: a password hash, *)
(* an authVersion that every token carries, and links that are mailed and   *)
(* stored as a hash.  A password is known here by the number of times that  *)
(* its account's password was set.  A call that read an account and goes on *)
(* after an await is a record of `calls`.                                   *)
(****************************************************************************)
EXTENDS Naturals, Sequences, FiniteSets, FiniteSetsExt

CONSTANTS
  Owners,      \* addresses that may own a company
  Admins,      \* addresses that may administer the platform
  MaxLinks,    \* bound: links made
  MaxSecrets,  \* bound: passwords stored, of all accounts together
  MaxTokens,   \* bound: tokens issued
  MaxSignIns,  \* bound: sign-ins of administrators recorded
  MaxCalls     \* bound: calls under way at one time

Accounts == Owners \cup Admins
Purposes == {"activate", "reset", "verify", "setup"}

ASSUME CredentialBounds ==
  /\ Owners \cap Admins = {}
  /\ {MaxLinks, MaxSecrets, MaxTokens, MaxSignIns, MaxCalls} \subseteq Nat

VARIABLES
  registered,  \* accounts that exist
  secret,      \* number of the password stored, 0 for none
  since,       \* number of the first password under this authVersion
  version,     \* authVersion
  links,       \* every link made: for whom, for what, its mail, its standing
  calls,       \* calls that have read and not yet written
  tokens       \* tokens issued: whose, how, with which password and version

credentials == <<registered, secret, since, version, links, calls, tokens>>
identity == <<registered, secret, since, version>>

CredentialsInit ==
  /\ registered = {} /\ links = <<>> /\ calls = {} /\ tokens = {}
  /\ secret = [a \in Accounts |-> 0]
  /\ since = [a \in Accounts |-> 0]
  /\ version = [a \in Accounts |-> 0]

(****************************************************************************)
(* Links.  `held`: the database has the hash; `failed`: the sender of its   *)
(* mail was told, or gave up waiting and believed, that it was not sent,    *)
(* and has run its clean-up.  Whether a mail arrives does not depend on     *)
(* that: any link may be with its reader from the moment it is stored, and  *)
(* be tried at any time; a mail that never arrives is one nobody tries.     *)
(* The minute that has to pass between two mails is over sooner or later: a *)
(* request made too early is one not made.                                  *)
(****************************************************************************)
Links == DOMAIN links
IsFor(l, a, k) == links[l].to = a /\ links[l].for = k
Room == Len(links) < MaxLinks
Valid(l, k) == links[l].for = k /\ links[l].held /\ ~links[l].expired

NewLink(a, k) ==
  [to |-> a, for |-> k, failed |-> FALSE, held |-> TRUE, expired |-> FALSE, uses |-> 0]
Dropped(link) == [link EXCEPT !.held = FALSE]
Used(link) == [Dropped(link) EXCEPT !.uses = @ + 1]

Without(a, k) == [l \in Links |-> IF IsFor(l, a, k) THEN Dropped(links[l]) ELSE links[l]]
\* What the link was for is gone, or done otherwise.
Void(a, k) ==
  [l \in Links |-> IF IsFor(l, a, k) THEN [Dropped(links[l]) EXCEPT !.expired = TRUE] ELSE links[l]]
\* A mailed link takes the place of the one before it; its mail is on the way.
WithLink(a, k) == Append(Without(a, k), NewLink(a, k))

\* A sender hears of its mail, or stops waiting, before the link runs out.
MayFail(l, k) == links[l].for = k /\ ~links[l].failed /\ ~links[l].expired

LinkExpires(l) ==
  /\ links[l].held /\ ~links[l].expired
  /\ links' = [links EXCEPT ![l].expired = TRUE]
  /\ UNCHANGED <<identity, calls, tokens>>

(****************************************************************************)
(* Passwords.  forgotPassword stores a link and mails it; when the mail     *)
(* fails, it takes back the link it stored, and no other.                   *)
(****************************************************************************)
Forgot(a) ==
  /\ a \in registered /\ Room
  /\ links' = WithLink(a, "reset")
  /\ UNCHANGED <<identity, calls, tokens>>

\* Wrong: the account's link goes, whichever it is.
ResetMailFailsById(l) ==
  /\ MayFail(l, "reset")
  /\ links' = [Without(links[l].to, "reset") EXCEPT ![l].failed = TRUE]
  /\ UNCHANGED <<identity, calls, tokens>>

ResetMailFails(l) ==
  /\ MayFail(l, "reset")
  /\ links' = [links EXCEPT ![l] = [Dropped(@) EXCEPT !.failed = TRUE]]
  /\ UNCHANGED <<identity, calls, tokens>>

NewPassword(a) ==
  /\ MapThenSumSet(LAMBDA b : secret[b], Accounts) < MaxSecrets
  /\ secret' = [secret EXCEPT ![a] = @ + 1]

Created(a) ==
  /\ a \notin registered /\ registered' = registered \cup {a}
  /\ NewPassword(a)
  /\ since' = [since EXCEPT ![a] = 1]
  /\ UNCHANGED version

\* A reset also ends the sessions: authVersion is counted up.
PasswordReset(a) ==
  /\ NewPassword(a)
  /\ since' = [since EXCEPT ![a] = secret[a] + 1]
  /\ version' = [version EXCEPT ![a] = @ + 1]
  /\ UNCHANGED registered

Begin(call) == call \notin calls /\ Cardinality(calls) < MaxCalls /\ calls' = calls \cup {call}
End(call) == calls' = calls \ {call}

(****************************************************************************)
(* Signing in: the account is read, its password compared, the token signed *)
(* with the version that was read.                                          *)
(****************************************************************************)
SignInCall(a, how) ==
  [does |-> "signIn", of |-> a, how |-> how, version |-> version[a],
   secret |-> IF how = "password" THEN secret[a] ELSE 0]

SignInReads(a) ==
  /\ a \in registered /\ secret[a] # 0
  /\ Begin(SignInCall(a, "password"))
  /\ UNCHANGED <<identity, links, tokens>>

Refused(call) == End(call) /\ UNCHANGED <<identity, links, tokens>>

\* Wrong: the version is read again for the token.
TokenOfNow(call) ==
  [of |-> call.of, how |-> call.how, secret |-> call.secret, version |-> version[call.of]]

TokenFor(call) ==
  [of |-> call.of, how |-> call.how, secret |-> call.secret, version |-> call.version]

Signed(call) ==
  /\ End(call) /\ tokens' = tokens \cup {TokenFor(call)}
  /\ Cardinality(tokens') <= MaxTokens
  /\ UNCHANGED <<identity, links>>

Current(token) == token.of \in registered /\ token.version = version[token.of]
=============================================================================
