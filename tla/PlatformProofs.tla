---------------------------- MODULE PlatformProofs ----------------------------
(****************************************************************************)
(* Sessions, mailed links and the audit trail of accounts, for any number   *)
(* of owners, administrators, links, passwords, tokens and calls that have  *)
(* read an account and write it later; and what administrators and          *)
(* employees read, for every database, every list and every operation: the  *)
(* figures add up, the lists agree with them and pages partition a list, a  *)
(* copy stays with who asked for it and with its source, and nobody changes *)
(* a file that is not theirs.                                               *)
(****************************************************************************)
EXTENDS Accounts, PlatformReports, FileAccess, FiniteSetTheorems, TLAPS

Link == [to : Accounts, for : Purposes, failed : BOOLEAN,
         held : BOOLEAN, expired : BOOLEAN, uses : Nat]
Token == [of : Accounts, how : {"password", "google"}, secret : Nat, version : Nat]
SignInCalls == [does : {"signIn", "sign"}, of : Accounts, how : {"password", "google"},
                version : Nat, secret : Nat]
ResetCalls == [does : {"reset"}, of : Owners, link : Nat, twin : Nat]
ChangeCalls == [does : {"change"}, of : Owners, secret : Nat]
CodeCalls == [does : {"login", "register"}, of : Owners]
\* A sign-in before and after it is recorded.
Proving(call) == call.does \in {"signIn", "sign"}
Call == SignInCalls \cup ResetCalls \cup ChangeCalls \cup CodeCalls
Statuses == {"none", "awaiting_verification", "pending_review", "approved", "rejected",
             "activated", "expired"}

IdentityOK ==
  /\ registered \subseteq Accounts
  /\ secret \in [Accounts -> Nat]
  /\ since \in [Accounts -> Nat]
  /\ version \in [Accounts -> Nat]

State ==
  /\ IdentityOK
  /\ calls \subseteq Call
  /\ tokens \subseteq Token
  /\ activated \subseteq Owners /\ suspended \subseteq Owners
  /\ application \in [Admins -> Statuses]
  /\ audits \in [Recorded -> [Accounts -> Nat]]

\* A proof of who somebody was: a token, or a sign-in under way, whose password
\* is as new as its version.
Vouched(proof) ==
  /\ proof.version <= version[proof.of]
  /\ proof.how = "password" => proof.secret >= 1
  /\ proof.how = "password" /\ proof.version = version[proof.of] =>
       proof.secret >= since[proof.of]

SessionsAreSound ==
  /\ \A a \in Accounts : since[a] <= secret[a]
  /\ \A token \in tokens : Vouched(token)
  /\ \A call \in calls : Proving(call) => Vouched(call)

\* A link whose reader may hope for an effect.
Promising(link) == ~link.failed /\ ~link.expired /\ link.uses = 0

LinksAreSound ==
  /\ links \in Seq(Link)
  /\ \A call \in calls : call.does = "reset" => call.link \in Links
  /\ \A l \in Links :
       /\ links[l].uses <= 1
       /\ links[l].held => links[l].uses = 0
       /\ links[l].for \in {"verify", "setup"} => links[l].to \in Admins
       /\ links[l].for = "activate" => links[l].to \in Owners
       /\ Promising(links[l]) /\ (\A m \in Links : m > l => ~IsFor(m, links[l].to, links[l].for))
            => links[l].held
       /\ \A m \in Links :
            links[l].held /\ links[m].held /\ IsFor(m, links[l].to, links[l].for) => m = l

Times(x, a) == audits[x][a]
AwaitsClick(a) == \E l \in Links : IsFor(l, a, "verify") /\ links[l].held
WasApproved(a) == \E l \in Links : IsFor(l, a, "setup")

\* Resets and sign-ins; accounts; applications and their links.
SignInsTold(a) ==
  /\ Times("password_reset", a) = version[a]
  /\ IsFiniteSet(Told(a)) /\ Cardinality(Told(a)) <= Times("login_succeeded", a)
AccountTold(a) ==
  /\ Times("bootstrap_created", a) + Times("access_activated", a)
       = (IF a \in registered THEN 1 ELSE 0)
  /\ WasApproved(a) => Times("access_approved", a) >= 1
  /\ Times("access_activated", a) <= Times("access_approved", a)
ApplicationTold(a) ==
  /\ application[a] = "approved" => Times("access_approved", a) >= 1
  /\ Times("access_approved", a) + Times("access_rejected", a)
       + (IF application[a] = "pending_review" THEN 1 ELSE 0) <= Times("access_verified", a)
  /\ Times("access_verified", a) + (IF AwaitsClick(a) THEN 1 ELSE 0)
       <= Times("access_requested", a)
OfficeIsSound(a) == SignInsTold(a) /\ AccountTold(a) /\ ApplicationTold(a)

TrailIsSound ==
  /\ \A a \in Admins : OfficeIsSound(a)
  /\ \A u \in Owners :
       Suspensions(u) = Reactivations(u) + (IF u \in suspended THEN 1 ELSE 0)

AccountsInv == State /\ SessionsAreSound /\ LinksAreSound /\ TrailIsSound

-----------------------------------------------------------------------------
\* What kind of call a record of `calls` is.
LEMMA CallKinds ==
  ASSUME NEW call \in Call
  PROVE  /\ call.of \in Accounts
         /\ Proving(call) => call \in SignInCalls
         /\ call.does = "reset" => call \in ResetCalls
         /\ call.does = "change" => call \in ChangeCalls
         /\ call.does \in {"login", "register"} => call.of \in Owners
BY DEF Call, Proving, SignInCalls, ResetCalls, ChangeCalls, CodeCalls, Accounts

\* A password that is stored has the next number of its account.
LEMMA PasswordGrows ==
  ASSUME IdentityOK, NEW a \in Accounts, NewPassword(a)
  PROVE  /\ secret' \in [Accounts -> Nat] /\ secret'[a] = secret[a] + 1
         /\ \A b \in Accounts : b # a => secret'[b] = secret[b]
BY DEF NewPassword, IdentityOK

LEMMA CreatedIdentity ==
  ASSUME IdentityOK, NEW a \in Accounts, Created(a)
  PROVE  /\ IdentityOK' /\ a \notin registered /\ registered' = registered \cup {a}
         /\ version' = version
         /\ since'[a] = 1 /\ secret'[a] = secret[a] + 1
         /\ \A b \in Accounts : b # a => secret'[b] = secret[b] /\ since'[b] = since[b]
<1>1. NewPassword(a) /\ a \notin registered /\ registered' = registered \cup {a}
      /\ since' = [since EXCEPT ![a] = 1] /\ version' = version
  BY DEF Created
<1> QED BY <1>1, PasswordGrows DEF IdentityOK

LEMMA ResetIdentity ==
  ASSUME IdentityOK, NEW a \in Accounts, PasswordReset(a)
  PROVE  /\ IdentityOK' /\ registered' = registered
         /\ version' = [version EXCEPT ![a] = version[a] + 1]
         /\ since'[a] = secret[a] + 1 /\ secret'[a] = secret[a] + 1
         /\ \A b \in Accounts : b # a => secret'[b] = secret[b] /\ since'[b] = since[b]
<1>1. NewPassword(a) /\ registered' = registered
      /\ since' = [since EXCEPT ![a] = secret[a] + 1]
      /\ version' = [version EXCEPT ![a] = version[a] + 1]
  BY DEF PasswordReset
<1> QED BY <1>1, PasswordGrows DEF IdentityOK
-----------------------------------------------------------------------------
\* Sessions: nobody's password or version changes, and proofs come of proofs.
LEMMA SessionsStay ==
  ASSUME State, State', SessionsAreSound, UNCHANGED <<secret, since, version>>,
         \A token \in tokens' : token \in tokens \/ Vouched(token),
         \A call \in calls' : Proving(call) => call \in calls \/ Vouched(call)
  PROVE  SessionsAreSound'
<1>1. \A p : Vouched(p) => Vouched(p)'
  BY DEF Vouched
<1> QED BY <1>1 DEF SessionsAreSound

\* An account's password is set for the first time.
LEMMA SessionsBegin ==
  ASSUME State, State', SessionsAreSound, NEW a \in Accounts, Created(a),
         UNCHANGED <<calls, tokens>>
  PROVE  SessionsAreSound'
<1>1. /\ version' = version /\ since'[a] = 1 /\ secret'[a] = secret[a] + 1
      /\ \A b \in Accounts : b # a => secret'[b] = secret[b] /\ since'[b] = since[b]
  BY CreatedIdentity DEF State
<1>2. \A p \in SignInCalls \cup Token : Vouched(p) => Vouched(p)'
  <2> SUFFICES ASSUME NEW p \in SignInCalls \cup Token, Vouched(p) PROVE Vouched(p)'
    OBVIOUS
  <2>1. p.of \in Accounts /\ p.secret \in Nat
    BY DEF SignInCalls, Token
  <2> QED BY <1>1, <2>1 DEF Vouched, State, IdentityOK
<1>3. \A call \in calls : Proving(call) => call \in SignInCalls
  BY CallKinds DEF State
<1>4. \A b \in Accounts : since'[b] <= secret'[b]
  BY <1>1 DEF SessionsAreSound, State, IdentityOK
<1> QED BY <1>2, <1>3, <1>4 DEF SessionsAreSound, State

\* A reset: what was had under the version before it is no longer current.
LEMMA SessionsEnd ==
  ASSUME State, State', SessionsAreSound, NEW a \in Accounts, PasswordReset(a),
         calls' \subseteq calls, tokens' = tokens
  PROVE  SessionsAreSound'
<1>1. /\ version' = [version EXCEPT ![a] = version[a] + 1]
      /\ since'[a] = secret[a] + 1 /\ secret'[a] = secret[a] + 1
      /\ \A b \in Accounts : b # a => secret'[b] = secret[b] /\ since'[b] = since[b]
  BY ResetIdentity DEF State
<1>2. \A p \in SignInCalls \cup Token : Vouched(p) => Vouched(p)'
  <2> SUFFICES ASSUME NEW p \in SignInCalls \cup Token, Vouched(p) PROVE Vouched(p)'
    OBVIOUS
  <2>1. p.of \in Accounts /\ p.version \in Nat
    BY DEF SignInCalls, Token
  <2> QED BY <1>1, <2>1 DEF Vouched, State, IdentityOK
<1>3. \A call \in calls : Proving(call) => call \in SignInCalls
  BY CallKinds DEF State
<1>4. \A b \in Accounts : since'[b] <= secret'[b]
  BY <1>1 DEF SessionsAreSound, State, IdentityOK
<1> QED BY <1>2, <1>3, <1>4 DEF SessionsAreSound, State

\* A sign-in that begins now, and the token of one under way, are vouched for.
LEMMA SignInVouched ==
  ASSUME State, SessionsAreSound, NEW a \in Accounts, NEW how \in {"password", "google"},
         how = "password" => secret[a] # 0
  PROVE  SignInCall(a, how) \in SignInCalls /\ Vouched(SignInCall(a, how))
<1>1. secret[a] \in Nat /\ version[a] \in Nat /\ since[a] \in Nat /\ since[a] <= secret[a]
  BY DEF State, IdentityOK, SessionsAreSound
<1> QED BY <1>1 DEF SignInCall, SignInCalls, Vouched

LEMMA TokenVouched ==
  ASSUME State, SessionsAreSound, NEW call \in calls, Proving(call)
  PROVE  TokenFor(call) \in Token /\ Vouched(TokenFor(call))
<1>1. call \in SignInCalls /\ Vouched(call)
  BY CallKinds DEF State, SessionsAreSound
<1> QED BY <1>1 DEF TokenFor, Token, SignInCalls, Vouched

-----------------------------------------------------------------------------
\* What a step may do to a link that was made: it stays for the same thing, it
\* is used at most while it is held, and none that a reader hopes for is taken
\* back.
Patched(old, new) ==
  /\ new \in Link /\ new.to = old.to /\ new.for = old.for
  /\ new.held => old.held /\ new.uses = old.uses
  /\ new.uses = old.uses \/ (old.held /\ new.uses = old.uses + 1)
  /\ Promising(new) /\ old.held => new.held
  /\ Promising(new) => Promising(old)

LinksPatched == DOMAIN links' = Links /\ \A l \in Links : Patched(links[l], links'[l])

\* A link that is used, or has run out, or whose mail is reported as failed.
LEMMA OneLinkPatched ==
  ASSUME LinksAreSound, NEW l \in Links,
         \/ links[l].held /\ links' = [links EXCEPT ![l] = Used(links[l])]
         \/ links' = [links EXCEPT ![l].expired = TRUE]
         \/ links' = [links EXCEPT ![l] = [Dropped(links[l]) EXCEPT !.failed = TRUE]]
  PROVE  LinksPatched /\ links' \in Seq(Link)
<1>1. links \in Seq(Link) /\ \A m \in Links : links[m] \in Link
  BY DEF LinksAreSound, Links
<1>2. ASSUME NEW new, links' = [links EXCEPT ![l] = new], Patched(links[l], new)
      PROVE  LinksPatched /\ links' \in Seq(Link)
  <2>1. \A m \in Links : Patched(links[m], links[m])
    BY <1>1 DEF Patched, Link
  <2>2. new \in Link
    BY <1>2 DEF Patched
  <2> QED BY <1>1, <1>2, <2>1, <2>2 DEF LinksPatched, Links
<1>3. PICK old \in Link : old = links[l]
  BY <1>1
<1>4. old.held => Patched(old, Used(old))
  <2>1. Used(old) = [old EXCEPT !.held = FALSE, !.uses = old.uses + 1]
    BY DEF Used, Dropped, Link
  <2>2. PICK n \in Nat : n = old.uses + 1 /\ n # 0
    BY DEF Link
  <2>3. Used(old) = [old EXCEPT !.held = FALSE, !.uses = n]
    BY <2>1, <2>2
  <2>4. Used(old) \in Link
    BY <2>3 DEF Link
  <2>5. /\ ~Used(old).held /\ Used(old).uses = n
        /\ Used(old).to = old.to /\ Used(old).for = old.for
    BY <2>3 DEF Link
  <2> QED BY <2>2, <2>4, <2>5 DEF Patched, Promising
<1>5. Patched(old, [old EXCEPT !.expired = TRUE])
  BY DEF Patched, Promising, Link
<1>6. Patched(old, [Dropped(old) EXCEPT !.failed = TRUE])
  BY DEF Patched, Promising, Dropped, Link
<1>7. links' = [links EXCEPT ![l].expired = TRUE] =>
        links' = [links EXCEPT ![l] = [old EXCEPT !.expired = TRUE]]
  BY <1>3
<1> QED BY <1>2, <1>3, <1>4, <1>5, <1>6, <1>7

\* What the links were for is gone.
LEMMA VoidPatched ==
  ASSUME LinksAreSound, NEW a, NEW k, links' = Void(a, k)
  PROVE  LinksPatched /\ links' \in Seq(Link)
<1>1. links \in Seq(Link) /\ \A m \in Links : links[m] \in Link
  BY DEF LinksAreSound, Links
<1>2. \A m \in Links :
        Patched(links[m], links[m])
        /\ Patched(links[m], [Dropped(links[m]) EXCEPT !.expired = TRUE])
  BY <1>1 DEF Patched, Promising, Dropped, Link
<1>3. DOMAIN links' = Links /\ \A m \in Links : Patched(links[m], links'[m])
  BY <1>2 DEF Void
<1>4. \A m \in Links : links'[m] \in Link
  BY <1>3 DEF Patched
<1> QED BY <1>1, <1>3, <1>4 DEF LinksPatched, Links, Void

\* An administrator's application whose link ran out is closed.
LEMMA WithoutPatched ==
  ASSUME LinksAreSound, NEW a, RanOut(a), links' = Without(a, "verify")
  PROVE  LinksPatched /\ links' \in Seq(Link)
<1>1. links \in Seq(Link) /\ \A m \in Links : links[m] \in Link
  BY DEF LinksAreSound, Links
<1>2. \A m \in Links : links[m].held /\ IsFor(m, a, "verify") => links[m].expired
  BY DEF RanOut
<1>3. \A m \in Links :
        Patched(links[m], links[m])
        /\ (IsFor(m, a, "verify") => Patched(links[m], Dropped(links[m])))
  BY <1>1, <1>2 DEF Patched, Promising, Dropped, Link
<1>4. DOMAIN links' = Links /\ \A m \in Links : Patched(links[m], links'[m])
  BY <1>3 DEF Without
<1>5. \A m \in Links : links'[m] \in Link
  BY <1>4 DEF Patched
<1> QED BY <1>1, <1>4, <1>5 DEF LinksPatched, Links, Without

LEMMA PatchedKeeps ==
  ASSUME LinksAreSound, LinksPatched, links' \in Seq(Link),
         \A call \in calls' : call.does = "reset" => call \in calls \/ call.link \in Links
  PROVE  LinksAreSound'
<1>1. \A l \in Links : links[l] \in Link /\ Patched(links[l], links'[l])
  BY DEF LinksAreSound, LinksPatched, Links
<1>2. ASSUME NEW l \in Links
      PROVE  /\ links'[l].uses <= 1
             /\ links'[l].held => links'[l].uses = 0
             /\ links'[l].for \in {"verify", "setup"} => links'[l].to \in Admins
             /\ links'[l].for = "activate" => links'[l].to \in Owners
  BY <1>1 DEF LinksAreSound, Patched, Link
<1>3. \A l, m \in Links : (links'[m].to = links'[l].to /\ links'[m].for = links'[l].for)
                          <=> IsFor(m, links[l].to, links[l].for)
  BY <1>1 DEF IsFor, Patched
<1>4. ASSUME NEW l \in Links, Promising(links'[l]),
             \A m \in Links : m > l => ~IsFor(m, links[l].to, links[l].for)
      PROVE  links'[l].held
  BY <1>1, <1>4 DEF LinksAreSound, Patched
<1>5. ASSUME NEW l \in Links, NEW m \in Links, links'[l].held, links'[m].held,
             IsFor(m, links[l].to, links[l].for)
      PROVE  m = l
  BY <1>1, <1>5 DEF LinksAreSound, Patched
<1>6. Links' = Links
  BY DEF LinksPatched, Links
<1>7. \A call \in calls' : call.does = "reset" => call.link \in Links'
  BY <1>6 DEF LinksAreSound
<1>8. \A l \in Links' :
        /\ Promising(links[l])' /\ (\A m \in Links' : m > l =>
             ~(links'[m].to = links'[l].to /\ links'[m].for = links'[l].for)) => links'[l].held
        /\ \A m \in Links' :
             links'[l].held /\ links'[m].held
             /\ links'[m].to = links'[l].to /\ links'[m].for = links'[l].for => m = l
  BY <1>3, <1>4, <1>5, <1>6 DEF Promising
<1> QED BY <1>2, <1>6, <1>7, <1>8 DEF LinksAreSound, IsFor, Promising

\* A new link takes the place of those for the same thing.
LEMMA WithLinkKeeps ==
  ASSUME LinksAreSound, NEW a \in Accounts, NEW k \in Purposes, links' = WithLink(a, k),
         k \in {"verify", "setup"} => a \in Admins, k = "activate" => a \in Owners,
         calls' \subseteq calls
  PROVE  /\ LinksAreSound'
         /\ Links' = 1..Len(links) + 1 /\ Links = 1..Len(links) /\ Len(links) \in Nat
         /\ links'[Len(links) + 1] = NewLink(a, k)
         /\ \A l \in Links :
              links'[l] = IF IsFor(l, a, k) THEN Dropped(links[l]) ELSE links[l]
<1> DEFINE n == Len(links) + 1
<1>1. links \in Seq(Link) /\ Links = 1..Len(links) /\ Len(links) \in Nat
      /\ \A l \in Links : links[l] \in Link
  BY DEF LinksAreSound, Links
<1>2. NewLink(a, k) \in Link
  BY DEF NewLink, Link
<1>3. \A l \in Links : Dropped(links[l]) \in Link
  BY <1>1 DEF Dropped, Link
<1>4. Without(a, k) \in Seq(Link) /\ Len(Without(a, k)) = Len(links)
      /\ \A l \in Links :
           Without(a, k)[l] = IF IsFor(l, a, k) THEN Dropped(links[l]) ELSE links[l]
  BY <1>1, <1>3 DEF Without
<1>5. /\ links' \in Seq(Link) /\ Links' = 1..n /\ links'[n] = NewLink(a, k)
      /\ \A l \in Links : links'[l] = Without(a, k)[l]
  BY <1>1, <1>2, <1>4 DEF WithLink, Links
<1>6. \A l \in Links : links'[l] = IF IsFor(l, a, k) THEN Dropped(links[l]) ELSE links[l]
  BY <1>4, <1>5
<1>7. \A l \in Links :
        /\ links'[l].to = links[l].to /\ links'[l].for = links[l].for
        /\ links'[l].uses = links[l].uses /\ links'[l].failed = links[l].failed
        /\ links'[l].expired = links[l].expired
        /\ (links'[l].held <=> links[l].held /\ ~IsFor(l, a, k))
  BY <1>1, <1>6 DEF Dropped, Link
<1>8. Links' = Links \cup {n} /\ n \notin Links /\ n \in Nat /\ \A l \in Links : l < n
  BY <1>1, <1>5
<1>9. /\ links'[n].to = a /\ links'[n].for = k /\ links'[n].uses = 0
      /\ links'[n].held
  BY <1>5 DEF NewLink
<1> HIDE DEF n
<1>10. \A l \in Links' : 
         /\ links'[l].uses <= 1
         /\ links'[l].held => links'[l].uses = 0
         /\ links'[l].for \in {"verify", "setup"} => links'[l].to \in Admins
         /\ links'[l].for = "activate" => links'[l].to \in Owners
  BY <1>7, <1>8, <1>9 DEF LinksAreSound
<1>11. ASSUME NEW l \in Links', Promising(links[l])',
              \A m \in Links' : m > l =>
                ~(links'[m].to = links'[l].to /\ links'[m].for = links'[l].for)
       PROVE  links'[l].held
  <2>1. CASE l = n
    BY <2>1, <1>9
  <2>2. CASE l # n
    <3>1. l \in Links /\ n > l /\ Promising(links[l])
      BY <1>7, <1>8, <1>11, <2>2 DEF Promising
    <3>2. ~IsFor(l, a, k)
      BY <3>1, <1>7, <1>8, <1>9, <1>11 DEF IsFor
    <3>3. \A m \in Links : m > l => ~IsFor(m, links[l].to, links[l].for)
      BY <3>1, <1>7, <1>8, <1>11 DEF IsFor
    <3>4. links[l].held
      BY <3>1, <3>3 DEF LinksAreSound
    <3> QED BY <3>1, <3>2, <3>4, <1>7
  <2> QED BY <2>1, <2>2
<1>12. ASSUME NEW l \in Links', NEW m \in Links', links'[l].held, links'[m].held,
              links'[m].to = links'[l].to /\ links'[m].for = links'[l].for
       PROVE  m = l
  <2>1. CASE l = n \/ m = n
    BY <2>1, <1>7, <1>8, <1>9, <1>12 DEF IsFor
  <2>2. CASE l # n /\ m # n
    BY <2>2, <1>7, <1>8, <1>12 DEF IsFor, LinksAreSound
  <2> QED BY <2>1, <2>2
<1>13. \A call \in calls' : call.does = "reset" => call.link \in Links'
  BY <1>8 DEF LinksAreSound
<1>14. LinksAreSound'
  BY <1>5, <1>10, <1>11, <1>12, <1>13 DEF LinksAreSound, IsFor, Promising
<1> QED BY <1>1, <1>5, <1>6, <1>14 DEF n

-----------------------------------------------------------------------------
\* Which links to an address await a click, or show that it was approved.
LEMMA PatchedAwaits ==
  ASSUME LinksPatched, NEW a
  PROVE  (AwaitsClick(a)' => AwaitsClick(a)) /\ (WasApproved(a)' => WasApproved(a))
<1>1. Links' = Links
  BY DEF LinksPatched, Links
<1>2. \A l \in Links : /\ links'[l].to = links[l].to /\ links'[l].for = links[l].for
                       /\ links'[l].held => links[l].held
  BY DEF LinksPatched, Patched
<1> QED BY <1>1, <1>2 DEF AwaitsClick, WasApproved, IsFor

LEMMA WithLinkAwaits ==
  ASSUME LinksAreSound, NEW a \in Accounts, NEW k \in Purposes, links' = WithLink(a, k),
         k \in {"verify", "setup"} => a \in Admins, k = "activate" => a \in Owners,
         calls' \subseteq calls, NEW b
  PROVE  /\ AwaitsClick(b)' => AwaitsClick(b) \/ (b = a /\ k = "verify")
         /\ WasApproved(b)' => WasApproved(b) \/ (b = a /\ k = "setup")
<1> DEFINE n == Len(links) + 1
<1>1. /\ Links' = 1..n /\ Links = 1..Len(links) /\ Len(links) \in Nat
      /\ links'[n] = NewLink(a, k)
      /\ \A l \in Links : links'[l] = IF IsFor(l, a, k) THEN Dropped(links[l]) ELSE links[l]
  BY WithLinkKeeps
<1>2. \A l \in Links : links[l] \in Link
  BY DEF LinksAreSound, Links
<1>3. \A l \in Links : /\ links'[l].to = links[l].to /\ links'[l].for = links[l].for
                       /\ links'[l].held => links[l].held
  BY <1>1, <1>2 DEF Dropped, Link
<1>4. links'[n].to = a /\ links'[n].for = k
  BY <1>1 DEF NewLink
<1>5. \A l \in Links' : l \in Links \/ l = n
  BY <1>1
<1> HIDE DEF n
<1> QED BY <1>3, <1>4, <1>5 DEF AwaitsClick, WasApproved, IsFor

\* What a step leaves of an administrator's story as it was.
Same(b) ==
  /\ \A y \in Recorded : audits'[y][b] = audits[y][b]
  /\ application'[b] = application[b] /\ version'[b] = version[b]
  /\ b \in registered' <=> b \in registered
  /\ Told(b)' \subseteq Told(b)
  /\ AwaitsClick(b)' => AwaitsClick(b)
  /\ WasApproved(b)' => WasApproved(b)

\* No token, and no sign-in to be signed, is new of this administrator.
LEMMA ToldStays ==
  ASSUME NEW b, \A t \in tokens' : t \in tokens \/ t.of # b,
         \A call \in calls' : call.does = "sign" => call \in calls \/ call.of # b
  PROVE  Told(b)' \subseteq Told(b)
BY DEF Told, TokenFor

\* The tokens told of grow by one at most, with one more record.
LEMMA ToldGrows ==
  ASSUME NEW old, NEW new, NEW t, NEW n \in Nat, IsFiniteSet(old), Cardinality(old) <= n,
         new \subseteq old \cup {t}
  PROVE  IsFiniteSet(new) /\ Cardinality(new) <= n + 1
<1>1. IsFiniteSet(old \cup {t}) /\ Cardinality(old) \in Nat
      /\ Cardinality(old \cup {t}) <= Cardinality(old) + 1
      /\ Cardinality(old \cup {t}) \in Nat
  BY FS_AddElement, FS_CardinalityType
<1>2. IsFiniteSet(new) /\ Cardinality(new) <= Cardinality(old \cup {t})
      /\ Cardinality(new) \in Nat
  BY <1>1, FS_Subset, FS_CardinalityType
<1> QED BY <1>1, <1>2

LEMMA ToldShrinks ==
  ASSUME NEW old, NEW new, NEW n \in Nat, IsFiniteSet(old), Cardinality(old) <= n,
         new \subseteq old
  PROVE  IsFiniteSet(new) /\ Cardinality(new) <= n
<1>1. IsFiniteSet(new) /\ Cardinality(new) <= Cardinality(old)
      /\ Cardinality(new) \in Nat /\ Cardinality(old) \in Nat
  BY FS_Subset, FS_CardinalityType
<1> QED BY <1>1

LEMMA SameStays ==
  ASSUME State, NEW b \in Admins, OfficeIsSound(b), Same(b)
  PROVE  OfficeIsSound(b)'
<1>1. \A y \in Recorded : Times(y, b) \in Nat /\ Times(y, b)' = Times(y, b)
  BY DEF Times, State, Same, Accounts
<1>2. {"bootstrap_created", "login_succeeded", "password_reset", "access_requested",
       "access_verified", "access_approved", "access_rejected", "access_activated"}
        \subseteq Recorded
  BY DEF Recorded
<1>3. SignInsTold(b)'
  BY <1>1, <1>2, ToldShrinks DEF OfficeIsSound, SignInsTold, Same
<1>4. AccountTold(b)'
  BY <1>1, <1>2 DEF OfficeIsSound, AccountTold, Same
<1>5. ApplicationTold(b)'
  BY <1>1, <1>2 DEF OfficeIsSound, ApplicationTold, Same
<1> QED BY <1>3, <1>4, <1>5 DEF OfficeIsSound

\* A step that concerns one administrator, or none, and no company's standing.
LEMMA TrailStays ==
  ASSUME State, TrailIsSound, NEW a \in Accounts, UNCHANGED suspended,
         \A b \in Admins : b # a => Same(b),
         a \in Admins => Same(a) \/ OfficeIsSound(a)',
         \A u \in Owners :
           /\ audits'["company_suspended"][u] = audits["company_suspended"][u]
           /\ audits'["company_reactivated"][u] = audits["company_reactivated"][u]
  PROVE  TrailIsSound'
<1>1. \A b \in Admins : OfficeIsSound(b)'
  BY SameStays DEF TrailIsSound
<1> QED BY <1>1 DEF TrailIsSound, Suspensions, Reactivations

\* A step that the office does not see.
LEMMA OfficeUnaware ==
  ASSUME State, TrailIsSound, UNCHANGED office, UNCHANGED suspended,
         NEW a \in Accounts,
         \A b \in Admins : version'[b] = version[b] /\ (b \in registered' <=> b \in registered),
         \A t \in tokens' : t \in tokens \/ t.of \notin Admins,
         \A call \in calls' : call.does = "sign" => call \in calls \/ call.of \notin Admins,
         \A b \in Admins : (AwaitsClick(b)' => AwaitsClick(b))
                           /\ (WasApproved(b)' => WasApproved(b))
  PROVE  TrailIsSound'
<1>1. \A b \in Admins : Told(b)' \subseteq Told(b)
  BY ToldStays
<1>2. \A b \in Admins : Same(b)
  BY <1>1 DEF Same, office
<1> QED BY <1>2, TrailStays DEF office

LEMMA AuditCounts ==
  ASSUME State, NEW x \in Recorded, NEW a \in Accounts, Audit(x, a)
  PROVE  /\ audits' \in [Recorded -> [Accounts -> Nat]]
         /\ audits'[x][a] = audits[x][a] + 1
         /\ \A y \in Recorded, b \in Accounts :
              y # x \/ b # a => audits'[y][b] = audits[y][b]
<1>1. audits \in [Recorded -> [Accounts -> Nat]] /\ audits[x] \in [Accounts -> Nat]
  BY DEF State
<1>2. audits' = [audits EXCEPT ![x] = [audits[x] EXCEPT ![a] = audits[x][a] + 1]]
  BY <1>1 DEF Audit
<1>3. [audits[x] EXCEPT ![a] = audits[x][a] + 1] \in [Accounts -> Nat]
  BY <1>1
<1> QED BY <1>1, <1>2, <1>3

-----------------------------------------------------------------------------
\* Only calls begin and end.
LEMMA CallsOnly ==
  ASSUME AccountsInv, UNCHANGED <<identity, links, tokens, tenancy, office>>,
         calls' \subseteq Call,
         \A call \in calls' \ calls :
           /\ call.does # "sign" /\ (call.does = "signIn" => Vouched(call))
           /\ call.does = "reset" => call.link \in Links
  PROVE  AccountsInv'
<1> USE DEF identity, tenancy, office
<1>1. State'
  BY DEF AccountsInv, State, IdentityOK
<1>2. SessionsAreSound'
  BY <1>1, SessionsStay DEF AccountsInv, Proving
<1>3. LinksAreSound'
  BY DEF AccountsInv, LinksAreSound, Links, IsFor
<1>4. \A b \in Admins : Same(b)
  <2>1. \A b \in Admins : Told(b)' \subseteq Told(b)
    BY ToldStays
  <2> QED BY <2>1 DEF Same, AwaitsClick, WasApproved, IsFor, Links
<1>5. \A b \in Admins : OfficeIsSound(b)'
  BY <1>4, SameStays DEF AccountsInv, TrailIsSound
<1>6. TrailIsSound'
  BY <1>5 DEF AccountsInv, TrailIsSound, Suspensions, Reactivations
<1> QED BY <1>1, <1>2, <1>3, <1>6 DEF AccountsInv

\* Only a link changes that was made before.
LEMMA LinksOnly ==
  ASSUME AccountsInv, LinksPatched, links' \in Seq(Link),
         UNCHANGED <<identity, calls, tokens, suspended, office>>, activated' \subseteq Owners,
         NEW a \in Accounts
  PROVE  AccountsInv'
<1> USE DEF identity
<1>1. State'
  BY DEF AccountsInv, State, IdentityOK, office
<1>2. SessionsAreSound'
  BY <1>1, SessionsStay DEF AccountsInv
<1>3. LinksAreSound'
  BY PatchedKeeps DEF AccountsInv
<1>4. \A b \in Admins : (AwaitsClick(b)' => AwaitsClick(b)) /\ (WasApproved(b)' => WasApproved(b))
  BY PatchedAwaits
<1>5. TrailIsSound'
  BY <1>4, OfficeUnaware DEF AccountsInv
<1> QED BY <1>1, <1>2, <1>3, <1>5 DEF AccountsInv

\* A link is mailed, of which the office keeps no record.
LEMMA MailOnly ==
  ASSUME AccountsInv, NEW a \in Accounts, NEW k \in {"activate", "reset"},
         k = "activate" => a \in Owners, links' = WithLink(a, k),
         UNCHANGED <<identity, calls, tokens, tenancy, office>>
  PROVE  AccountsInv'
<1> USE DEF identity, tenancy
<1>0. k \in Purposes /\ k \notin {"verify", "setup"}
  BY DEF Purposes
<1>1. State'
  BY DEF AccountsInv, State, IdentityOK, office
<1>2. SessionsAreSound'
  BY <1>1, SessionsStay DEF AccountsInv
<1>3. LinksAreSound'
  BY <1>0, WithLinkKeeps DEF AccountsInv
<1>4. \A b \in Admins : (AwaitsClick(b)' => AwaitsClick(b)) /\ (WasApproved(b)' => WasApproved(b))
  BY <1>0, WithLinkAwaits DEF AccountsInv
<1>5. TrailIsSound'
  BY <1>4, OfficeUnaware DEF AccountsInv
<1> QED BY <1>1, <1>2, <1>3, <1>5 DEF AccountsInv

LEMMA MailKeeps ==
  ASSUME AccountsInv, NEW l \in Links, ResetMailFails(l) \/ LinkExpires(l), UNCHANGED <<tenancy, office>>
  PROVE  AccountsInv'
<1>1. LinksPatched /\ links' \in Seq(Link)
  BY OneLinkPatched DEF AccountsInv, ResetMailFails, LinkExpires
<1>2. UNCHANGED <<identity, calls, tokens>>
  BY DEF ResetMailFails, LinkExpires
<1>3. links[l].to \in Accounts
  <2>1. links[l] \in Link
    BY DEF AccountsInv, LinksAreSound, Links
  <2> QED BY <2>1 DEF Link
<1>4. suspended' = suspended /\ activated' \subseteq Owners /\ UNCHANGED office
  BY DEF tenancy, AccountsInv, State
<1> QED BY <1>1, <1>2, <1>3, <1>4, LinksOnly

\* Somebody signs in: his account is read.
LEMMA SignInKeeps ==
  ASSUME AccountsInv, NEW a \in Accounts, SignInReads(a), UNCHANGED <<tenancy, office>>
  PROVE  AccountsInv'
<1>1. PICK call \in SignInCalls : call = SignInCall(a, "password") /\ Vouched(call)
  BY SignInVouched DEF AccountsInv, SignInReads
<1>2. calls' = calls \cup {call} /\ UNCHANGED <<identity, links, tokens>>
  BY <1>1 DEF SignInReads, Begin
<1>3. calls' \subseteq Call
  BY <1>2 DEF AccountsInv, State, Call
<1>4. call.does = "signIn"
  BY <1>1 DEF SignInCall
<1> QED BY <1>1, <1>2, <1>3, <1>4, CallsOnly

LEMMA RefusedKeeps ==
  ASSUME AccountsInv, NEW call, End(call),
         UNCHANGED <<identity, links, tokens>>, UNCHANGED <<tenancy, office>>
  PROVE  AccountsInv'
BY CallsOnly DEF End, AccountsInv, State

\* A token is issued for a sign-in.
LEMMA SignedSound ==
  ASSUME AccountsInv, NEW call \in calls, Proving(call), Signed(call),
         UNCHANGED tenancy,
         application' = application, audits' \in [Recorded -> [Accounts -> Nat]]
  PROVE  State' /\ SessionsAreSound' /\ LinksAreSound'
<1>1. TokenFor(call) \in Token /\ Vouched(TokenFor(call))
  BY TokenVouched DEF AccountsInv
<1>2. tokens' = tokens \cup {TokenFor(call)} /\ calls' = calls \ {call}
      /\ UNCHANGED <<identity, links>>
  BY DEF Signed, End
<1>4. State'
  BY <1>1, <1>2 DEF AccountsInv, State, IdentityOK, identity, tenancy
<1>5. SessionsAreSound'
  BY <1>1, <1>2, <1>4, SessionsStay DEF AccountsInv, identity
<1>6. LinksAreSound'
  BY <1>2 DEF AccountsInv, LinksAreSound, Links, IsFor
<1> QED BY <1>4, <1>5, <1>6

-----------------------------------------------------------------------------
LEMMA SignUpKeeps ==
  ASSUME AccountsInv, NEW u \in Owners, SignUp(u), UNCHANGED office
  PROVE  AccountsInv'
<1>1. u \in Accounts /\ u \notin Admins /\ "activate" \in Purposes
  BY CredentialBounds DEF Accounts, CredentialBounds, Purposes
<1>2. /\ Created(u) /\ links' = WithLink(u, "activate") /\ UNCHANGED <<calls, tokens>>
      /\ UNCHANGED tenancy
  BY DEF SignUp
<1>3. IdentityOK' /\ registered' = registered \cup {u} /\ version' = version
  BY <1>1, <1>2, CreatedIdentity DEF AccountsInv, State
<1>4. State'
  BY <1>2, <1>3 DEF AccountsInv, State, tenancy, office
<1>5. SessionsAreSound'
  BY <1>1, <1>2, <1>4, SessionsBegin DEF AccountsInv
<1>6. LinksAreSound'
  BY <1>1, <1>2, WithLinkKeeps DEF AccountsInv
<1>7. \A b \in Admins : (AwaitsClick(b)' => AwaitsClick(b)) /\ (WasApproved(b)' => WasApproved(b))
  BY <1>1, <1>2, WithLinkAwaits DEF AccountsInv
<1>8. TrailIsSound'
  BY <1>1, <1>2, <1>3, <1>7, OfficeUnaware DEF AccountsInv, tenancy
<1> QED BY <1>4, <1>5, <1>6, <1>8 DEF AccountsInv

LEMMA VerifyKeeps ==
  ASSUME AccountsInv, NEW l \in Links, Verify(l), UNCHANGED office
  PROVE  AccountsInv'
<1>1. links[l].for = "activate" /\ links[l].held
      /\ links' = [links EXCEPT ![l] = Used(links[l])]
      /\ activated' = activated \cup {links[l].to}
      /\ UNCHANGED <<identity, calls, tokens, suspended>>
  BY DEF Verify, Valid
<1>2. links[l].to \in Owners /\ links[l].to \in Accounts
  BY <1>1 DEF AccountsInv, LinksAreSound, Accounts
<1>3. LinksPatched /\ links' \in Seq(Link)
  BY <1>1, OneLinkPatched DEF AccountsInv
<1>4. activated' \subseteq Owners
  BY <1>1, <1>2 DEF AccountsInv, State
<1> QED BY <1>1, <1>2, <1>3, <1>4, LinksOnly

LEMMA OwnerMailKeeps ==
  ASSUME AccountsInv, NEW u \in Owners, Resend(u) \/ ForgotPassword(u), UNCHANGED office
  PROVE  AccountsInv'
<1>1. u \in Accounts
  BY DEF Accounts
<1>2. PICK k \in {"activate", "reset"} : links' = WithLink(u, k)
  BY DEF Resend, ForgotPassword, Forgot
<1>3. UNCHANGED <<identity, calls, tokens, tenancy>>
  BY DEF Resend, ForgotPassword, Forgot
<1> QED BY <1>1, <1>2, <1>3, MailOnly

LEMMA ResetReadsKeeps ==
  ASSUME AccountsInv, NEW l \in Links, ResetReads(l), UNCHANGED office
  PROVE  AccountsInv'
<1>1. PICK i \in 1..MaxCalls :
        Begin([does |-> "reset", of |-> links[l].to, link |-> l, twin |-> i])
  BY DEF ResetReads
<1>2. links[l].to \in Owners /\ UNCHANGED <<identity, links, tokens, tenancy>>
  BY DEF ResetReads
<1>3. PICK call \in ResetCalls :
        call = [does |-> "reset", of |-> links[l].to, link |-> l, twin |-> i]
  <2>1. l \in Nat /\ i \in Nat
    BY CredentialBounds DEF AccountsInv, LinksAreSound, Links, CredentialBounds
  <2> QED BY <1>2, <2>1 DEF ResetCalls
<1>4. calls' = calls \cup {call} /\ call.link = l /\ call.does = "reset"
  BY <1>1, <1>3 DEF Begin
<1>5. calls' \subseteq Call
  BY <1>4 DEF AccountsInv, State, Call
<1> QED BY <1>2, <1>4, <1>5, CallsOnly

LEMMA ResetWritesKeeps ==
  ASSUME AccountsInv, NEW call \in calls, ResetWrites(call), UNCHANGED office
  PROVE  AccountsInv'
<1>1. call \in ResetCalls /\ call.link \in Links /\ call.of \in Owners
  <2>1. call.does = "reset" /\ call \in Call
    BY DEF ResetWrites, AccountsInv, State
  <2> QED BY <2>1, CallKinds DEF ResetCalls, AccountsInv, LinksAreSound
<1>2. End(call) /\ UNCHANGED <<tokens, tenancy>>
  BY DEF ResetWrites
<1>3. CASE UNCHANGED <<identity, links>>
  BY <1>2, <1>3, RefusedKeeps
<1>4. CASE /\ Valid(call.link, "reset") /\ PasswordReset(call.of)
           /\ links' = [links EXCEPT ![call.link] = Used(links[call.link])]
  <2>1. call.of \in Accounts /\ call.of \notin Admins
    BY <1>1, CredentialBounds DEF Accounts, CredentialBounds
  <2>2. IdentityOK' /\ registered' = registered
        /\ version' = [version EXCEPT ![call.of] = version[call.of] + 1]
    BY <1>4, <2>1, ResetIdentity DEF AccountsInv, State
  <2>3. State'
    BY <1>2, <2>2 DEF AccountsInv, State, End, tenancy, office
  <2>4. SessionsAreSound'
    BY <1>2, <1>4, <2>1, <2>3, SessionsEnd DEF AccountsInv, End
  <2>5. LinksPatched /\ links' \in Seq(Link)
    BY <1>1, <1>4, OneLinkPatched DEF AccountsInv, Valid
  <2>6. LinksAreSound'
    BY <1>2, <2>5, PatchedKeeps DEF AccountsInv, End
  <2>7. \A b \in Admins : version'[b] = version[b]
    BY <2>1, <2>2 DEF AccountsInv, State, IdentityOK, Accounts
  <2>8. TrailIsSound'
    BY <1>2, <2>1, <2>2, <2>5, <2>7, PatchedAwaits, OfficeUnaware DEF AccountsInv, tenancy, End
  <2> QED BY <2>3, <2>4, <2>6, <2>8 DEF AccountsInv
<1> QED BY <1>3, <1>4 DEF ResetWrites

LEMMA ChangeReadsKeeps ==
  ASSUME AccountsInv, NEW token \in tokens, ChangeReads(token), UNCHANGED office
  PROVE  AccountsInv'
<1>1. token.of \in Owners /\ secret[token.of] \in Nat
  BY DEF ChangeReads, Admits, Open, AccountsInv, State, IdentityOK, Accounts
<1>2. PICK call \in ChangeCalls :
        call = [does |-> "change", of |-> token.of, secret |-> secret[token.of]]
  BY <1>1 DEF ChangeCalls
<1>3. calls' = calls \cup {call} /\ UNCHANGED <<identity, links, tokens, tenancy>>
      /\ call.does = "change"
  BY <1>2 DEF ChangeReads, Begin
<1>4. calls' \subseteq Call
  BY <1>3 DEF AccountsInv, State, Call
<1> QED BY <1>3, <1>4, CallsOnly

LEMMA ChangeWritesKeeps ==
  ASSUME AccountsInv, NEW call \in calls, ChangeWrites(call), UNCHANGED office
  PROVE  AccountsInv'
<1>1. call.of \in Owners /\ call.of \in Accounts
  <2>1. call.does = "change" /\ call \in Call
    BY DEF ChangeWrites, AccountsInv, State
  <2> QED BY <2>1, CallKinds DEF ChangeCalls, Accounts
<1>2. End(call) /\ UNCHANGED <<registered, since, version, links, tokens, tenancy>>
  BY DEF ChangeWrites
<1>3. secret' \in [Accounts -> Nat] /\ \A a \in Accounts : secret'[a] >= secret[a]
  <2>1. CASE NewPassword(call.of)
    BY <1>1, <2>1, PasswordGrows DEF AccountsInv, State, IdentityOK
  <2>2. CASE UNCHANGED secret
    BY <2>2 DEF AccountsInv, State, IdentityOK
  <2> QED BY <2>1, <2>2 DEF ChangeWrites
<1>4. State'
  BY <1>2, <1>3 DEF AccountsInv, State, IdentityOK, End, tenancy, office
<1>5. \A p : Vouched(p) => Vouched(p)'
  BY <1>2 DEF Vouched
<1>6. \A a \in Accounts : since'[a] <= secret'[a]
  BY <1>2, <1>3 DEF AccountsInv, State, IdentityOK, SessionsAreSound
<1>7. SessionsAreSound'
  BY <1>2, <1>5, <1>6 DEF AccountsInv, SessionsAreSound, End
<1>8. LinksAreSound'
  BY <1>2 DEF AccountsInv, LinksAreSound, Links, IsFor, End
<1>9. \A b \in Admins : (AwaitsClick(b)' => AwaitsClick(b)) /\ (WasApproved(b)' => WasApproved(b))
  BY <1>2 DEF AwaitsClick, WasApproved, IsFor, Links
<1>10. TrailIsSound'
  BY <1>1, <1>2, <1>9, OfficeUnaware DEF AccountsInv, tenancy, End
<1> QED BY <1>4, <1>7, <1>8, <1>10 DEF AccountsInv

LEMMA SignInEndsKeeps ==
  ASSUME AccountsInv, NEW call \in calls, SignInEnds(call), UNCHANGED office
  PROVE  AccountsInv'
<1>1. call.does = "signIn" /\ call.of \in Owners /\ UNCHANGED tenancy
  BY DEF SignInEnds
<1>2. CASE Refused(call)
  BY <1>1, <1>2, RefusedKeeps DEF Refused
<1>3. CASE Signed(call)
  <2>1. application' = application /\ audits' \in [Recorded -> [Accounts -> Nat]]
    BY DEF office, AccountsInv, State
  <2>2. State' /\ SessionsAreSound' /\ LinksAreSound'
    BY <1>1, <1>3, <2>1, SignedSound DEF Proving
  <2>3. call.of \in Accounts /\ call.of \notin Admins
    BY <1>1, CredentialBounds DEF Accounts, CredentialBounds
  <2>4. /\ tokens' = tokens \cup {TokenFor(call)} /\ UNCHANGED <<identity, links>>
        /\ calls' \subseteq calls
    BY <1>3 DEF Signed, End
  <2>5. TokenFor(call).of = call.of
    BY DEF TokenFor
  <2>6. \A t \in tokens' : t \in tokens \/ t.of \notin Admins
    BY <2>3, <2>4, <2>5
  <2>7. \A b \in Admins :
          (AwaitsClick(b)' => AwaitsClick(b)) /\ (WasApproved(b)' => WasApproved(b))
    BY <2>4 DEF AwaitsClick, WasApproved, IsFor, Links
  <2>8. TrailIsSound'
    BY <1>1, <2>3, <2>4, <2>6, <2>7, OfficeUnaware DEF AccountsInv, tenancy, identity
  <2> QED BY <2>2, <2>8 DEF AccountsInv
<1> QED BY <1>2, <1>3 DEF SignInEnds

LEMMA GoogleReturnsKeeps ==
  ASSUME AccountsInv, NEW u \in Owners, GoogleReturns(u), UNCHANGED office
  PROVE  AccountsInv'
<1>1. PICK call \in CodeCalls : call = Code(u)
  <2>1. CASE u \in registered
    BY <2>1 DEF Code, CodeCalls
  <2>2. CASE u \notin registered
    BY <2>2 DEF Code, CodeCalls
  <2> QED BY <2>1, <2>2
<1>2. calls' = calls \cup {call} /\ UNCHANGED <<identity, links, tokens, tenancy>>
  BY <1>1 DEF GoogleReturns, Begin
<1>3. calls' \subseteq Call /\ call.does \in {"login", "register"}
  BY <1>2 DEF AccountsInv, State, Call, CodeCalls
<1> QED BY <1>2, <1>3, CallsOnly

LEMMA GoogleEndsKeeps ==
  ASSUME AccountsInv, NEW call \in calls, GoogleExchange(call) \/ CodeExpires(call),
         UNCHANGED office
  PROVE  AccountsInv'
<1>1. CASE CodeExpires(call)
  BY <1>1, RefusedKeeps DEF CodeExpires
<1>2. CASE GoogleExchange(call)
  <2>1. call.of \in Accounts
    BY CallKinds DEF AccountsInv, State
  <2>2. PICK new \in SignInCalls : new = SignInCall(call.of, "google") /\ Vouched(new)
    BY <2>1, SignInVouched DEF AccountsInv
  <2>3. calls' = (calls \ {call}) \cup {new} /\ UNCHANGED <<identity, links, tokens, tenancy>>
    BY <1>2, <2>2 DEF GoogleExchange
  <2>4. calls' \subseteq Call /\ new.does = "signIn"
    BY <2>2, <2>3 DEF AccountsInv, State, Call, SignInCall
  <2> QED BY <2>2, <2>3, <2>4, CallsOnly
<1> QED BY <1>1, <1>2

\* Google vouches for a new owner, who has no password.
LEMMA GoogleRegisterKeeps ==
  ASSUME AccountsInv, NEW call \in calls, GoogleRegister(call), UNCHANGED office
  PROVE  AccountsInv'
<1> DEFINE u == call.of
<1>1. u \in Owners /\ u \in Accounts /\ u \notin Admins
  <2>1. call.does = "register" /\ call \in Call
    BY DEF GoogleRegister, AccountsInv, State
  <2> QED BY <2>1, CallKinds, CredentialBounds DEF Accounts, CredentialBounds
<1>2. PICK new \in SignInCalls : new = SignInCall(u, "google") /\ Vouched(new)
  BY <1>1, SignInVouched DEF AccountsInv
<1>3. /\ calls' = (calls \ {call}) \cup {new}
      /\ registered' = registered \cup {u} /\ activated' = activated \cup {u}
      /\ UNCHANGED <<secret, since, version, links, tokens, suspended>>
  BY <1>2 DEF GoogleRegister
<1> HIDE DEF u
<1>4. State'
  BY <1>1, <1>3 DEF AccountsInv, State, IdentityOK, office, Call
<1>5. SessionsAreSound'
  BY <1>2, <1>3, <1>4, SessionsStay DEF AccountsInv
<1>6. LinksAreSound'
  <2>1. \A c \in calls' : c.does = "reset" => c \in calls
    BY <1>3 DEF SignInCalls
  <2> QED BY <1>3, <2>1 DEF AccountsInv, LinksAreSound, Links, IsFor
<1>7. \A b \in Admins : (AwaitsClick(b)' => AwaitsClick(b)) /\ (WasApproved(b)' => WasApproved(b))
  BY <1>3 DEF AwaitsClick, WasApproved, IsFor, Links
<1>8. TrailIsSound'
  BY <1>1, <1>2, <1>3, <1>7, OfficeUnaware DEF AccountsInv, SignInCall
<1> QED BY <1>4, <1>5, <1>6, <1>8 DEF AccountsInv

\* The clean-up command takes an account away: its numbers begin again.
LEMMA CleanupKeeps ==
  ASSUME AccountsInv, NEW u \in Owners, Cleanup(u)
  PROVE  AccountsInv'
<1>1. u \in Accounts /\ u \notin Admins
  BY CredentialBounds DEF Accounts, CredentialBounds
<1>2. /\ registered' = registered \ {u}
      /\ secret' = [secret EXCEPT ![u] = 0] /\ since' = [since EXCEPT ![u] = 0]
      /\ links' = Void(u, "activate")
      /\ UNCHANGED <<version, calls, tokens, tenancy, office>>
  BY DEF Cleanup, CleanupDisposable
<1>3. State'
  BY <1>1, <1>2 DEF AccountsInv, State, IdentityOK, tenancy, office
<1>4. \A p \in SignInCalls \cup Token : Vouched(p) => Vouched(p)'
  <2> SUFFICES ASSUME NEW p \in SignInCalls \cup Token, Vouched(p) PROVE Vouched(p)'
    OBVIOUS
  <2>1. p.of \in Accounts /\ p.secret \in Nat
    BY DEF SignInCalls, Token
  <2> QED BY <1>2, <2>1 DEF Vouched, AccountsInv, State, IdentityOK
<1>5. \A call \in calls : Proving(call) => call \in SignInCalls
  BY CallKinds DEF AccountsInv, State
<1>6. \A b \in Accounts : since'[b] <= secret'[b]
  BY <1>2 DEF SessionsAreSound, AccountsInv, State, IdentityOK
<1>7. SessionsAreSound'
  BY <1>2, <1>4, <1>5, <1>6 DEF SessionsAreSound, AccountsInv, State
<1>8. LinksPatched /\ links' \in Seq(Link)
  BY <1>2, VoidPatched DEF AccountsInv
<1>9. LinksAreSound'
  BY <1>2, <1>8, PatchedKeeps DEF AccountsInv
<1>10. TrailIsSound'
  BY <1>1, <1>2, <1>8, PatchedAwaits, OfficeUnaware DEF AccountsInv, tenancy
<1> QED BY <1>3, <1>7, <1>9, <1>10 DEF AccountsInv

LEMMA TenantKeeps == ASSUME AccountsInv, TenantNext, UNCHANGED office PROVE AccountsInv'
<1>1. ASSUME NEW u \in Owners,
             SignUp(u) \/ Resend(u) \/ ForgotPassword(u) \/ SignIn(u) \/ GoogleReturns(u)
      PROVE  AccountsInv'
  <2>1. u \in Accounts
    BY DEF Accounts
  <2>2. CASE SignIn(u)
    BY <2>1, <2>2, SignInKeeps DEF SignIn
  <2> QED BY <1>1, <2>2, SignUpKeeps, OwnerMailKeeps, GoogleReturnsKeeps
<1>2. ASSUME NEW l \in Links, Verify(l) \/ ResetReads(l) PROVE AccountsInv'
  BY <1>2, VerifyKeeps, ResetReadsKeeps
<1>3. ASSUME NEW call \in calls,
             \/ ResetWrites(call) \/ ChangeWrites(call) \/ SignInEnds(call)
             \/ GoogleExchange(call) \/ GoogleRegister(call) \/ CodeExpires(call)
      PROVE  AccountsInv'
  BY <1>3, ResetWritesKeeps, ChangeWritesKeeps, SignInEndsKeeps, GoogleEndsKeeps,
     GoogleRegisterKeeps
<1>4. ASSUME NEW token \in tokens, ChangeReads(token) PROVE AccountsInv'
  BY <1>4, ChangeReadsKeeps
<1> QED BY <1>1, <1>2, <1>3, <1>4 DEF TenantNext

-----------------------------------------------------------------------------
\* The numbers of an administrator's story.
LEMMA OfficeNumbers ==
  ASSUME AccountsInv, NEW a \in Admins
  PROVE  /\ OfficeIsSound(a) /\ a \in Accounts /\ a \notin Owners
         /\ \A y \in Recorded : Times(y, a) \in Nat /\ Times(y, a)' = audits'[y][a]
         /\ {"bootstrap_created", "login_succeeded", "password_reset", "access_requested",
             "access_verified", "access_approved", "access_rejected", "access_activated",
             "company_suspended", "company_reactivated"} \subseteq Recorded
BY CredentialBounds
   DEF AccountsInv, TrailIsSound, State, Times, Accounts, Recorded, CredentialBounds

\* What an administrator's step leaves alone.
LEMMA OfficeStep ==
  ASSUME AccountsInv, NEW a \in Admins, NEW x \in Recorded, NEW status \in Statuses,
         audits' = audits \/ Audit(x, a), application' = application \/ Becomes(a, status),
         UNCHANGED tenancy,
         \A b \in Admins : b # a =>
           /\ version'[b] = version[b] /\ (b \in registered' <=> b \in registered)
           /\ AwaitsClick(b)' => AwaitsClick(b)
           /\ WasApproved(b)' => WasApproved(b),
         \A t \in tokens' : t \in tokens \/ t.of = a,
         \A call \in calls' : call.does = "sign" => call \in calls \/ call.of = a
  PROVE  /\ application' \in [Admins -> Statuses]
         /\ audits' \in [Recorded -> [Accounts -> Nat]]
         /\ OfficeIsSound(a)' => TrailIsSound'
<1>1. a \in Accounts /\ a \notin Owners
  BY OfficeNumbers
<1>2. /\ audits' \in [Recorded -> [Accounts -> Nat]]
      /\ \A y \in Recorded, b \in Accounts : b # a => audits'[y][b] = audits[y][b]
  <2>1. CASE audits' = audits
    BY <2>1 DEF AccountsInv, State
  <2>2. CASE Audit(x, a)
    BY <1>1, <2>2, AuditCounts DEF AccountsInv
  <2> QED BY <2>1, <2>2
<1>3. /\ application' \in [Admins -> Statuses]
      /\ \A b \in Admins : b # a => application'[b] = application[b]
  BY DEF Becomes, AccountsInv, State
<1>4. \A b \in Admins : b # a => Same(b)
  <2>1. \A b \in Admins : b # a => Told(b)' \subseteq Told(b)
    BY ToldStays
  <2> QED BY <1>2, <1>3, <2>1 DEF Same, Accounts
<1>5. \A u \in Owners :
        /\ audits'["company_suspended"][u] = audits["company_suspended"][u]
        /\ audits'["company_reactivated"][u] = audits["company_reactivated"][u]
  BY <1>1, <1>2 DEF Accounts, Recorded
<1> QED BY <1>1, <1>2, <1>3, <1>4, <1>5, TrailStays DEF AccountsInv, tenancy

\* The story of one administrator goes on, by one record or a new application.
LEMMA StoryGoesOn ==
  ASSUME AccountsInv, NEW a \in Admins, NEW x \in Recorded, Audit(x, a)
  PROVE  /\ Times(x, a)' = Times(x, a) + 1
         /\ \A y \in Recorded : y # x => Times(y, a)' = Times(y, a)
BY AuditCounts, OfficeNumbers DEF AccountsInv, Times

LEMMA LinksStay ==
  ASSUME LinksAreSound, UNCHANGED links, calls' \subseteq calls
  PROVE  /\ LinksAreSound'
         /\ \A b : (AwaitsClick(b)' <=> AwaitsClick(b)) /\ (WasApproved(b)' <=> WasApproved(b))
BY DEF LinksAreSound, Links, IsFor, AwaitsClick, WasApproved

LEMMA SignInsStay ==
  ASSUME AccountsInv, NEW a \in Admins, version'[a] = version[a], UNCHANGED <<calls, tokens>>,
         NEW x \in Recorded \ {"password_reset", "login_succeeded"}, Audit(x, a)
  PROVE  SignInsTold(a)'
<1>1. /\ Times("password_reset", a)' = Times("password_reset", a)
      /\ Times("login_succeeded", a)' = Times("login_succeeded", a)
  BY OfficeNumbers, StoryGoesOn
<1>2. SignInsTold(a)
  BY OfficeNumbers DEF OfficeIsSound
<1> QED BY <1>1, <1>2 DEF SignInsTold, Told

LEMMA BootstrapKeeps ==
  ASSUME AccountsInv, NEW a \in Admins, Bootstrap(a), UNCHANGED tenancy
  PROVE  AccountsInv'
<1>1. a \in Accounts /\ "bootstrap_created" \in Recorded /\ "none" \in Statuses
  BY OfficeNumbers DEF Statuses
<1>2. Created(a) /\ Audit("bootstrap_created", a)
      /\ UNCHANGED <<links, calls, tokens, application>>
  BY DEF Bootstrap
<1>3. /\ IdentityOK' /\ a \notin registered /\ registered' = registered \cup {a}
      /\ version' = version
  BY <1>1, <1>2, CreatedIdentity DEF AccountsInv, State
<1>4. /\ LinksAreSound'
      /\ \A b : (AwaitsClick(b)' <=> AwaitsClick(b)) /\ (WasApproved(b)' <=> WasApproved(b))
  BY <1>2, LinksStay DEF AccountsInv
<1>5. /\ application' \in [Admins -> Statuses]
      /\ audits' \in [Recorded -> [Accounts -> Nat]]
      /\ OfficeIsSound(a)' => TrailIsSound'
  BY <1>1, <1>2, <1>3, <1>4, OfficeStep
<1>6. State'
  BY <1>2, <1>3, <1>5 DEF AccountsInv, State, tenancy
<1>7. SessionsAreSound'
  BY <1>1, <1>2, <1>6, SessionsBegin DEF AccountsInv
<1>8. SignInsTold(a)'
  BY <1>1, <1>2, <1>3, SignInsStay
<1>9. AccountTold(a)'
  BY <1>1, <1>2, <1>3, <1>4, OfficeNumbers, StoryGoesOn DEF OfficeIsSound, AccountTold
<1>10. ApplicationTold(a)'
  BY <1>1, <1>2, <1>4, OfficeNumbers, StoryGoesOn DEF OfficeIsSound, ApplicationTold
<1> QED BY <1>4, <1>5, <1>6, <1>7, <1>8, <1>9, <1>10 DEF AccountsInv, OfficeIsSound

LEMMA RequestAccessKeeps ==
  ASSUME AccountsInv, NEW a \in Admins, RequestAccess(a), UNCHANGED tenancy
  PROVE  AccountsInv'
<1>1. a \in Accounts /\ "access_requested" \in Recorded /\ "verify" \in Purposes
      /\ "awaiting_verification" \in Statuses
  BY OfficeNumbers DEF Statuses, Purposes
<1>2. /\ Becomes(a, "awaiting_verification") /\ links' = WithLink(a, "verify")
      /\ Audit("access_requested", a) /\ UNCHANGED <<identity, calls, tokens>>
  BY DEF RequestAccess
<1>3. LinksAreSound'
  BY <1>1, <1>2, WithLinkKeeps DEF AccountsInv
<1>4. \A b : (b # a => (AwaitsClick(b)' => AwaitsClick(b)))
             /\ (WasApproved(b)' => WasApproved(b))
  BY <1>1, <1>2, WithLinkAwaits DEF AccountsInv
<1>5. /\ application' \in [Admins -> Statuses]
      /\ audits' \in [Recorded -> [Accounts -> Nat]]
      /\ OfficeIsSound(a)' => TrailIsSound'
  BY <1>1, <1>2, <1>4, OfficeStep DEF identity
<1>6. State'
  BY <1>2, <1>5 DEF AccountsInv, State, IdentityOK, identity, tenancy
<1>7. SessionsAreSound'
  BY <1>2, <1>6, SessionsStay DEF AccountsInv, identity
<1>8. application'[a] = "awaiting_verification"
  BY <1>2 DEF Becomes, AccountsInv, State
<1>9. SignInsTold(a)'
  BY <1>1, <1>2, SignInsStay DEF identity
<1>10. AccountTold(a)'
  BY <1>1, <1>2, <1>4, OfficeNumbers, StoryGoesOn DEF OfficeIsSound, AccountTold, identity
<1>11. ApplicationTold(a)'
  BY <1>1, <1>2, <1>4, <1>8, OfficeNumbers, StoryGoesOn DEF OfficeIsSound, ApplicationTold
<1> QED BY <1>3, <1>5, <1>6, <1>7, <1>9, <1>10, <1>11 DEF AccountsInv, OfficeIsSound

\* An application is closed, because a mail failed or its link ran out.
LEMMA CloseKeeps ==
  ASSUME AccountsInv, NEW a \in Admins, LinksPatched, links' \in Seq(Link),
         application' = application \/ Becomes(a, "expired"),
         UNCHANGED <<identity, calls, tokens, audits>>, UNCHANGED tenancy
  PROVE  AccountsInv'
<1>1. a \in Accounts /\ "login_succeeded" \in Recorded /\ "expired" \in Statuses
  BY OfficeNumbers DEF Statuses
<1>2. LinksAreSound'
  BY PatchedKeeps DEF AccountsInv
<1>3. \A b : (AwaitsClick(b)' => AwaitsClick(b)) /\ (WasApproved(b)' => WasApproved(b))
  BY PatchedAwaits
<1>4. /\ application' \in [Admins -> Statuses]
      /\ audits' \in [Recorded -> [Accounts -> Nat]]
      /\ OfficeIsSound(a)' => TrailIsSound'
  BY <1>1, <1>3, OfficeStep DEF identity
<1>5. State'
  BY <1>4 DEF AccountsInv, State, IdentityOK, identity, tenancy
<1>6. SessionsAreSound'
  BY <1>5, SessionsStay DEF AccountsInv, identity
<1>7. application'[a] = application[a] \/ application'[a] = "expired"
  BY DEF Becomes, AccountsInv, State
<1>8. \A y \in Recorded : Times(y, a)' = Times(y, a)
  BY DEF Times
<1>9. SignInsTold(a)'
  BY <1>8, OfficeNumbers DEF OfficeIsSound, SignInsTold, Told, identity
<1>10. AccountTold(a)'
  BY <1>3, <1>8, OfficeNumbers DEF OfficeIsSound, AccountTold, identity
<1>11. ApplicationTold(a)'
  BY <1>3, <1>7, <1>8, OfficeNumbers DEF OfficeIsSound, ApplicationTold
<1> QED BY <1>2, <1>4, <1>5, <1>6, <1>9, <1>10, <1>11 DEF AccountsInv, OfficeIsSound

LEMMA RequestEndsKeeps ==
  ASSUME AccountsInv, UNCHANGED tenancy,
         \/ \E a \in Admins : RequestByAdmin(a)
         \/ \E l \in Links : RequestMailFails(l)
  PROVE  AccountsInv'
<1>1. ASSUME NEW a \in Admins, RequestByAdmin(a) PROVE AccountsInv'
  <2>1. LinksPatched /\ links' \in Seq(Link)
    BY <1>1, WithoutPatched DEF RequestByAdmin, AccountsInv
  <2> QED BY <1>1, <2>1, CloseKeeps DEF RequestByAdmin
<1>2. ASSUME NEW l \in Links, RequestMailFails(l) PROVE AccountsInv'
  <2>1. links[l].to \in Admins
    BY <1>2 DEF RequestMailFails, MayFail, AccountsInv, LinksAreSound
  <2>2. LinksPatched /\ links' \in Seq(Link)
    BY <1>2, OneLinkPatched DEF RequestMailFails, AccountsInv
  <2> QED BY <1>2, <2>1, <2>2, CloseKeeps DEF RequestMailFails
<1> QED BY <1>1, <1>2

\* A click on the link of an application: no other link awaits one.
LEMMA VerifyAccessKeeps ==
  ASSUME AccountsInv, NEW l \in Links, VerifyAccess(l), UNCHANGED tenancy
  PROVE  AccountsInv'
<1>0. PICK a \in Admins : a = links[l].to
  BY DEF VerifyAccess, Valid, AccountsInv, LinksAreSound
<1>1. a \in Accounts /\ "access_verified" \in Recorded /\ "pending_review" \in Statuses
  BY OfficeNumbers DEF Statuses
<1>2. /\ Becomes(a, "pending_review") /\ Audit("access_verified", a)
      /\ links' = [links EXCEPT ![l] = Used(links[l])]
      /\ IsFor(l, a, "verify") /\ links[l].held /\ UNCHANGED <<identity, calls, tokens>>
  BY <1>0 DEF VerifyAccess, Valid, IsFor
<1>3. LinksPatched /\ links' \in Seq(Link)
  BY <1>2, OneLinkPatched DEF AccountsInv
<1>4. LinksAreSound'
  BY <1>2, <1>3, PatchedKeeps DEF AccountsInv
<1>5. \A b : (AwaitsClick(b)' => AwaitsClick(b)) /\ (WasApproved(b)' => WasApproved(b))
  BY <1>3, PatchedAwaits
<1>6. AwaitsClick(a) /\ ~AwaitsClick(a)'
  <2>1. \A m \in Links : links[m].held /\ IsFor(m, a, "verify") => m = l
    BY <1>2 DEF AccountsInv, LinksAreSound, IsFor
  <2>2. ~links'[l].held
    <3>1. links[l] \in Link /\ links'[l] = Used(links[l])
      BY <1>2 DEF AccountsInv, LinksAreSound, Links
    <3> QED BY <3>1 DEF Used, Dropped, Link
  <2>3. \A m \in Links' : /\ m \in Links /\ (links'[m].held => links[m].held)
                          /\ links'[m].to = links[m].to /\ links'[m].for = links[m].for
    BY <1>3 DEF LinksPatched, Patched, Links
  <2> QED BY <1>2, <2>1, <2>2, <2>3 DEF AwaitsClick, IsFor
<1>7. /\ application' \in [Admins -> Statuses]
      /\ audits' \in [Recorded -> [Accounts -> Nat]]
      /\ OfficeIsSound(a)' => TrailIsSound'
  BY <1>1, <1>2, <1>5, OfficeStep DEF identity
<1>8. State'
  BY <1>2, <1>7 DEF AccountsInv, State, IdentityOK, identity, tenancy
<1>9. SessionsAreSound'
  BY <1>2, <1>8, SessionsStay DEF AccountsInv, identity
<1>10. application'[a] = "pending_review"
  BY <1>2 DEF Becomes, AccountsInv, State
<1>11. SignInsTold(a)'
  BY <1>1, <1>2, SignInsStay DEF identity
<1>12. AccountTold(a)'
  BY <1>1, <1>2, <1>5, OfficeNumbers, StoryGoesOn DEF OfficeIsSound, AccountTold, identity
<1>13. ApplicationTold(a)'
  BY <1>1, <1>2, <1>6, <1>10, OfficeNumbers, StoryGoesOn DEF OfficeIsSound, ApplicationTold
<1> QED BY <1>4, <1>7, <1>8, <1>9, <1>11, <1>12, <1>13 DEF AccountsInv, OfficeIsSound

\* A decision is recorded once, of an application that was verified.
LEMMA DecideKeeps ==
  ASSUME AccountsInv, NEW a \in Admins, NEW b \in Admins, Decide(b, a), UNCHANGED tenancy
  PROVE  AccountsInv'
<1>1. a \in Accounts /\ "setup" \in Purposes
      /\ {"access_approved", "access_rejected"} \subseteq Recorded
      /\ {"approved", "rejected"} \subseteq Statuses
  BY OfficeNumbers DEF Statuses, Purposes
<1>2. /\ application[a] = "pending_review" /\ UNCHANGED <<identity, calls, tokens>>
      /\ \/ /\ Becomes(a, "approved") /\ links' = WithLink(a, "setup")
            /\ Audit("access_approved", a)
         \/ /\ Becomes(a, "rejected") /\ Audit("access_rejected", a) /\ UNCHANGED links
  BY DEF Decide
<1>3. LinksAreSound'
  BY <1>1, <1>2, WithLinkKeeps, LinksStay DEF AccountsInv
<1>4. \A c : (AwaitsClick(c)' => AwaitsClick(c))
             /\ (WasApproved(c)' => WasApproved(c) \/ (c = a /\ links' = WithLink(a, "setup")))
  BY <1>1, <1>2, WithLinkAwaits, LinksStay DEF AccountsInv
<1>5. PICK x \in {"access_approved", "access_rejected"}, status \in {"approved", "rejected"} :
        /\ Becomes(a, status) /\ Audit(x, a)
        /\ x = "access_approved" <=> status = "approved"
        /\ x = "access_rejected" => UNCHANGED links
  BY <1>2
<1>6. /\ application' \in [Admins -> Statuses]
      /\ audits' \in [Recorded -> [Accounts -> Nat]]
      /\ OfficeIsSound(a)' => TrailIsSound'
  BY <1>1, <1>2, <1>4, <1>5, OfficeStep DEF identity
<1>7. State'
  BY <1>2, <1>6 DEF AccountsInv, State, IdentityOK, identity, tenancy
<1>8. SessionsAreSound'
  BY <1>2, <1>7, SessionsStay DEF AccountsInv, identity
<1>9. application'[a] = status
  BY <1>5 DEF Becomes, AccountsInv, State
<1>10. SignInsTold(a)'
  BY <1>1, <1>2, <1>5, SignInsStay DEF identity
<1>11. x = "access_rejected" => (WasApproved(a)' => WasApproved(a))
  BY <1>2, <1>5, LinksStay DEF AccountsInv
<1>12. /\ Times(x, a)' = Times(x, a) + 1
       /\ \A y \in Recorded : y # x => Times(y, a)' = Times(y, a)
  BY <1>1, <1>5, StoryGoesOn
<1>13. AccountTold(a)'
  BY <1>2, <1>5, <1>11, <1>12, OfficeNumbers DEF OfficeIsSound, AccountTold, identity
<1>14. ApplicationTold(a)'
  BY <1>2, <1>4, <1>5, <1>9, <1>12, OfficeNumbers DEF OfficeIsSound, ApplicationTold
<1> QED BY <1>3, <1>6, <1>7, <1>8, <1>10, <1>13, <1>14 DEF AccountsInv, OfficeIsSound

\* Mails that leave no record: a new set-up link, a link for a new password.
LEMMA OfficeMailKeeps ==
  ASSUME AccountsInv, NEW a \in Admins, UNCHANGED tenancy,
         AdminForgot(a) \/ \E b \in Admins : ResendSetup(b, a)
  PROVE  AccountsInv'
<1>0. a \in Accounts /\ {"setup", "reset"} \subseteq Purposes
  BY OfficeNumbers DEF Purposes
<1>1. PICK k \in {"setup", "reset"} :
        links' = WithLink(a, k) /\ (k = "setup" => application[a] = "approved")
  BY DEF AdminForgot, Forgot, ResendSetup
<1>2. UNCHANGED <<identity, calls, tokens, office>>
  BY DEF AdminForgot, Forgot, ResendSetup
<1>3. LinksAreSound'
  BY <1>0, <1>1, <1>2, WithLinkKeeps DEF AccountsInv
<1>4. \A c : (AwaitsClick(c)' => AwaitsClick(c))
             /\ (WasApproved(c)' => WasApproved(c) \/ (c = a /\ application[a] = "approved"))
  BY <1>0, <1>1, <1>2, WithLinkAwaits DEF AccountsInv
<1>5. "none" \in Statuses /\ "login_succeeded" \in Recorded
  BY DEF Statuses, Recorded
<1>6. OfficeIsSound(a)' => TrailIsSound'
  BY <1>2, <1>4, <1>5, OfficeStep DEF identity, office
<1>7. State'
  BY <1>2 DEF AccountsInv, State, IdentityOK, identity, tenancy, office
<1>8. SessionsAreSound'
  BY <1>2, <1>7, SessionsStay DEF AccountsInv, identity
<1>9. \A y \in Recorded : Times(y, a)' = Times(y, a)
  BY <1>2 DEF Times, office
<1>10. SignInsTold(a)'
  BY <1>2, <1>9, OfficeNumbers DEF OfficeIsSound, SignInsTold, Told, identity
<1>11. AccountTold(a)'
  BY <1>2, <1>4, <1>9, OfficeNumbers DEF OfficeIsSound, AccountTold, ApplicationTold, identity
<1>12. ApplicationTold(a)'
  BY <1>2, <1>4, <1>9, OfficeNumbers DEF OfficeIsSound, ApplicationTold, office
<1> QED BY <1>3, <1>6, <1>7, <1>8, <1>10, <1>11, <1>12 DEF AccountsInv, OfficeIsSound

\* The account of an approved application, which had none before.
LEMMA SetupKeeps ==
  ASSUME AccountsInv, NEW l \in Links, Setup(l), UNCHANGED tenancy
  PROVE  AccountsInv'
<1>0. PICK a \in Admins : a = links[l].to
  BY DEF Setup, Valid, AccountsInv, LinksAreSound
<1>1. a \in Accounts /\ "access_activated" \in Recorded /\ "activated" \in Statuses
  BY OfficeNumbers DEF Statuses
<1>2. /\ Becomes(a, "activated") /\ Audit("access_activated", a) /\ Created(a)
      /\ links' = [links EXCEPT ![l] = Used(links[l])]
      /\ IsFor(l, a, "setup") /\ links[l].held /\ UNCHANGED <<calls, tokens>>
  BY <1>0 DEF Setup, Valid, IsFor
<1>3. LinksPatched /\ links' \in Seq(Link)
  BY <1>2, OneLinkPatched DEF AccountsInv
<1>4. LinksAreSound'
  BY <1>2, <1>3, PatchedKeeps DEF AccountsInv
<1>5. \A b : (AwaitsClick(b)' => AwaitsClick(b)) /\ (WasApproved(b)' => WasApproved(b))
  BY <1>3, PatchedAwaits
<1>6. WasApproved(a)
  BY <1>2 DEF WasApproved
<1>7. /\ IdentityOK' /\ a \notin registered /\ registered' = registered \cup {a}
      /\ version' = version
  BY <1>1, <1>2, CreatedIdentity DEF AccountsInv, State
<1>8. /\ application' \in [Admins -> Statuses]
      /\ audits' \in [Recorded -> [Accounts -> Nat]]
      /\ OfficeIsSound(a)' => TrailIsSound'
  BY <1>1, <1>2, <1>5, <1>7, OfficeStep
<1>9. State'
  BY <1>2, <1>7, <1>8 DEF AccountsInv, State, tenancy
<1>10. SessionsAreSound'
  BY <1>1, <1>2, <1>9, SessionsBegin DEF AccountsInv
<1>11. application'[a] = "activated"
  BY <1>2 DEF Becomes, AccountsInv, State
<1>12. SignInsTold(a)'
  BY <1>1, <1>2, <1>7, SignInsStay
<1>13. AccountTold(a)'
  BY <1>1, <1>2, <1>5, <1>6, <1>7, OfficeNumbers, StoryGoesOn DEF OfficeIsSound, AccountTold
<1>14. ApplicationTold(a)'
  BY <1>1, <1>2, <1>5, <1>11, OfficeNumbers, StoryGoesOn DEF OfficeIsSound, ApplicationTold
<1> QED BY <1>4, <1>8, <1>9, <1>10, <1>12, <1>13, <1>14 DEF AccountsInv, OfficeIsSound

\* A new password of an administrator, by a link or by the command.
LEMMA AdminResetKeeps ==
  ASSUME AccountsInv, UNCHANGED tenancy,
         (\E l \in Links : AdminReset(l)) \/ (\E a \in Admins : ResetByCommand(a))
  PROVE  AccountsInv'
<1>1. PICK a \in Admins : /\ PasswordReset(a) /\ Audit("password_reset", a)
                          /\ LinksPatched /\ links' \in Seq(Link)
  <2>1. ASSUME NEW l \in Links, AdminReset(l)
        PROVE  /\ links[l].to \in Admins /\ PasswordReset(links[l].to)
               /\ Audit("password_reset", links[l].to)
               /\ LinksPatched /\ links' \in Seq(Link)
    BY <2>1, OneLinkPatched DEF AdminReset, Valid, AccountsInv
  <2>2. ASSUME NEW a \in Admins, ResetByCommand(a)
        PROVE  /\ PasswordReset(a) /\ Audit("password_reset", a)
               /\ LinksPatched /\ links' \in Seq(Link)
    BY <2>2, VoidPatched DEF ResetByCommand, AccountsInv
  <2> QED BY <2>1, <2>2
<1>2. UNCHANGED <<calls, tokens, application>>
  BY DEF AdminReset, ResetByCommand
<1>3. a \in Accounts /\ "password_reset" \in Recorded /\ "none" \in Statuses
  BY OfficeNumbers DEF Statuses
<1>4. LinksAreSound'
  BY <1>1, <1>2, PatchedKeeps DEF AccountsInv
<1>5. \A b : (AwaitsClick(b)' => AwaitsClick(b)) /\ (WasApproved(b)' => WasApproved(b))
  BY <1>1, PatchedAwaits
<1>6. /\ IdentityOK' /\ registered' = registered
      /\ version' = [version EXCEPT ![a] = version[a] + 1]
  BY <1>1, <1>3, ResetIdentity DEF AccountsInv, State
<1>7. version'[a] = version[a] + 1 /\ \A b \in Admins : b # a => version'[b] = version[b]
  BY <1>3, <1>6 DEF AccountsInv, State, IdentityOK, Accounts
<1>8. /\ application' \in [Admins -> Statuses]
      /\ audits' \in [Recorded -> [Accounts -> Nat]]
      /\ OfficeIsSound(a)' => TrailIsSound'
  BY <1>1, <1>2, <1>3, <1>5, <1>6, <1>7, OfficeStep
<1>9. State'
  BY <1>2, <1>6, <1>8 DEF AccountsInv, State, tenancy
<1>10. SessionsAreSound'
  BY <1>1, <1>2, <1>3, <1>9, SessionsEnd DEF AccountsInv
<1>11. /\ Times("password_reset", a)' = Times("password_reset", a) + 1
       /\ \A y \in Recorded : y # "password_reset" => Times(y, a)' = Times(y, a)
  BY <1>1, <1>3, StoryGoesOn
<1>12. SignInsTold(a)'
  <2>1. SignInsTold(a) /\ Times("login_succeeded", a)' = Times("login_succeeded", a)
    BY <1>11, OfficeNumbers DEF OfficeIsSound
  <2> QED BY <1>2, <1>7, <1>11, <2>1 DEF SignInsTold, Told
<1>13. AccountTold(a)'
  BY <1>5, <1>6, <1>11, OfficeNumbers DEF OfficeIsSound, AccountTold
<1>14. ApplicationTold(a)'
  BY <1>2, <1>5, <1>11, OfficeNumbers DEF OfficeIsSound, ApplicationTold
<1> QED BY <1>4, <1>8, <1>9, <1>10, <1>12, <1>13, <1>14 DEF AccountsInv, OfficeIsSound

\* The sign-in of an administrator is recorded, and a token told of that is to be
\* signed.
LEMMA AdminSignInRecordedKeeps ==
  ASSUME AccountsInv, NEW call \in calls, AdminSignInRecorded(call), UNCHANGED tenancy
  PROVE  AccountsInv'
<1>1. call.does = "signIn" /\ UNCHANGED application
  BY DEF AdminSignInRecorded
<1>2. PICK a \in Admins : a = call.of
  BY DEF AdminSignInRecorded
<1>3. CASE Refused(call) /\ UNCHANGED audits
  BY <1>1, <1>3, RefusedKeeps DEF Refused, office
<1>4. CASE /\ calls' = (calls \ {call}) \cup {[call EXCEPT !.does = "sign"]}
           /\ Audit("login_succeeded", a) /\ UNCHANGED <<identity, links, tokens>>
  <2>1. a \in Accounts /\ "login_succeeded" \in Recorded /\ "none" \in Statuses
    BY OfficeNumbers DEF Statuses
  <2>2. call \in SignInCalls /\ Vouched(call)
    BY <1>1, CallKinds DEF AccountsInv, State, SessionsAreSound, Proving
  <2>3. PICK new \in SignInCalls :
          /\ new = [call EXCEPT !.does = "sign"] /\ new.does = "sign" /\ new.of = a
          /\ Vouched(new)
    <3> DEFINE next == [call EXCEPT !.does = "sign"]
    <3>1. /\ next \in SignInCalls /\ next.does = "sign" /\ next.of = call.of
          /\ next.how = call.how /\ next.secret = call.secret /\ next.version = call.version
      BY <2>2 DEF SignInCalls
    <3>2. next = [call EXCEPT !.does = "sign"]
      OBVIOUS
    <3> HIDE DEF next
    <3>3. Vouched(next)
      BY <2>2, <3>1 DEF Vouched
    <3> QED BY <1>2, <3>1, <3>2, <3>3
  <2>4. calls' = (calls \ {call}) \cup {new}
    BY <1>4, <2>3
  <2>5. LinksAreSound'
    BY <1>4, <2>3, <2>4 DEF AccountsInv, LinksAreSound, Links, IsFor
  <2>6. \A b : (AwaitsClick(b)' <=> AwaitsClick(b)) /\ (WasApproved(b)' <=> WasApproved(b))
    BY <1>4 DEF Links, IsFor, AwaitsClick, WasApproved
  <2>7. /\ application' \in [Admins -> Statuses]
        /\ audits' \in [Recorded -> [Accounts -> Nat]]
        /\ OfficeIsSound(a)' => TrailIsSound'
    BY <1>1, <1>4, <2>1, <2>3, <2>4, <2>6, OfficeStep DEF identity
  <2>8. State'
    BY <1>4, <2>3, <2>4, <2>7 DEF AccountsInv, State, IdentityOK, Call, identity, tenancy
  <2>9. SessionsAreSound'
    BY <1>4, <2>3, <2>4, <2>8, SessionsStay DEF AccountsInv, identity
  <2>10. /\ Times("login_succeeded", a)' = Times("login_succeeded", a) + 1
         /\ \A y \in Recorded : y # "login_succeeded" => Times(y, a)' = Times(y, a)
    BY <1>4, <2>1, StoryGoesOn
  <2>11. Told(a)' \subseteq Told(a) \cup {TokenFor(new)}
    BY <1>4, <2>4 DEF Told, TokenFor
  <2>12. SignInsTold(a)'
    <3>1. /\ SignInsTold(a) /\ Times("password_reset", a)' = Times("password_reset", a)
          /\ Times("login_succeeded", a) \in Nat
      BY <2>10, OfficeNumbers DEF OfficeIsSound
    <3>2. IsFiniteSet(Told(a)') /\ Cardinality(Told(a)') <= Times("login_succeeded", a) + 1
      BY <2>11, <3>1, ToldGrows DEF SignInsTold
    <3> QED BY <1>4, <2>10, <3>1, <3>2 DEF SignInsTold, identity
  <2>13. AccountTold(a)'
    BY <1>4, <2>6, <2>10, OfficeNumbers DEF OfficeIsSound, AccountTold, identity
  <2>14. ApplicationTold(a)'
    BY <1>1, <2>6, <2>10, OfficeNumbers DEF OfficeIsSound, ApplicationTold
  <2> QED BY <2>5, <2>7, <2>8, <2>9, <2>12, <2>13, <2>14 DEF AccountsInv, OfficeIsSound
<1> QED BY <1>2, <1>3, <1>4 DEF AdminSignInRecorded

\* The token of a sign-in that was recorded is signed, or the process stops before.
LEMMA AdminSignInEndsKeeps ==
  ASSUME AccountsInv, NEW call \in calls, AdminSignInEnds(call), UNCHANGED tenancy
  PROVE  AccountsInv'
<1>1. call.does = "sign" /\ UNCHANGED office
  BY DEF AdminSignInEnds
<1>2. CASE Refused(call)
  BY <1>1, <1>2, RefusedKeeps DEF Refused
<1>3. CASE Signed(call)
  <2>1. application' = application /\ audits' \in [Recorded -> [Accounts -> Nat]]
    BY <1>1 DEF office, AccountsInv, State
  <2>2. State' /\ SessionsAreSound' /\ LinksAreSound'
    BY <1>1, <1>3, <2>1, SignedSound DEF Proving
  <2>3. /\ tokens' = tokens \cup {TokenFor(call)} /\ UNCHANGED <<identity, links>>
        /\ calls' = calls \ {call}
    BY <1>3 DEF Signed, End
  <2>4. \A b : Told(b)' \subseteq Told(b)
    BY <1>1, <2>3 DEF Told, TokenFor
  <2>5. \A b \in Admins : Same(b)
    BY <1>1, <2>3, <2>4 DEF Same, office, identity, AwaitsClick, WasApproved, IsFor, Links
  <2>6. \A b \in Admins : OfficeIsSound(b)'
    BY <2>5, SameStays DEF AccountsInv, TrailIsSound
  <2>7. TrailIsSound'
    BY <1>1, <2>6 DEF AccountsInv, TrailIsSound, Suspensions, Reactivations, office, tenancy
  <2> QED BY <2>2, <2>7 DEF AccountsInv
<1> QED BY <1>2, <1>3 DEF AdminSignInEnds

LEMMA OfficeKeeps == ASSUME AccountsInv, OfficeNext, UNCHANGED tenancy PROVE AccountsInv'
<1>1. ASSUME NEW a \in Admins,
             \/ Bootstrap(a) \/ RequestAccess(a) \/ RequestByAdmin(a) \/ AdminSignIn(a)
             \/ AdminForgot(a) \/ ResetByCommand(a)
             \/ \E b \in Admins : Decide(b, a) \/ ResendSetup(b, a)
      PROVE  AccountsInv'
  <2>1. a \in Accounts
    BY DEF Accounts
  <2>2. CASE AdminSignIn(a)
    BY <2>1, <2>2, SignInKeeps DEF AdminSignIn
  <2>3. CASE Bootstrap(a) \/ RequestAccess(a) \/ RequestByAdmin(a)
    BY <2>3, BootstrapKeeps, RequestAccessKeeps, RequestEndsKeeps
  <2>4. CASE AdminForgot(a) \/ ResetByCommand(a)
    BY <2>4, OfficeMailKeeps, AdminResetKeeps
  <2>5. CASE \E b \in Admins : Decide(b, a) \/ ResendSetup(b, a)
    BY <2>5, DecideKeeps, OfficeMailKeeps
  <2> QED BY <1>1, <2>2, <2>3, <2>4, <2>5
<1>2. ASSUME NEW l \in Links,
             RequestMailFails(l) \/ VerifyAccess(l) \/ Setup(l) \/ AdminReset(l)
      PROVE  AccountsInv'
  BY <1>2, RequestEndsKeeps, VerifyAccessKeeps, SetupKeeps, AdminResetKeeps
<1>3. ASSUME NEW call \in calls, AdminSignInRecorded(call) \/ AdminSignInEnds(call)
      PROVE  AccountsInv'
  BY <1>3, AdminSignInRecordedKeeps, AdminSignInEndsKeeps
<1> QED BY <1>1, <1>2, <1>3 DEF OfficeNext

\* A company is suspended or reactivated, which no administrator's story knows.
LEMMA ChangeStatusKeeps ==
  ASSUME AccountsInv, NEW b \in Admins, NEW u \in Owners, ChangeCompanyStatus(b, u)
  PROVE  AccountsInv'
<1>0. u \in Accounts /\ u \notin Admins
      /\ {"company_suspended", "company_reactivated"} \subseteq Recorded
  BY CredentialBounds DEF Accounts, CredentialBounds, Recorded
<1>1. UNCHANGED <<identity, links, calls, tokens, activated, application>>
  BY DEF ChangeCompanyStatus, credentials, identity
<1>2. \/ /\ u \notin suspended /\ suspended' = suspended \cup {u}
         /\ Audit("company_suspended", u)
      \/ /\ u \in suspended /\ suspended' = suspended \ {u}
         /\ Audit("company_reactivated", u)
  BY DEF ChangeCompanyStatus
<1>3. /\ audits' \in [Recorded -> [Accounts -> Nat]]
      /\ \A y \in Recorded, a \in Accounts : a # u => audits'[y][a] = audits[y][a]
  BY <1>0, <1>2, AuditCounts DEF AccountsInv
<1>4. State'
  BY <1>1, <1>2, <1>3 DEF AccountsInv, State, IdentityOK, identity
<1>5. SessionsAreSound'
  BY <1>1, <1>4, SessionsStay DEF AccountsInv, identity
<1>6. /\ LinksAreSound'
      /\ \A a : (AwaitsClick(a)' <=> AwaitsClick(a)) /\ (WasApproved(a)' <=> WasApproved(a))
  BY <1>1, LinksStay DEF AccountsInv
<1>7. \A a \in Admins : Same(a)
  BY <1>0, <1>1, <1>3, <1>6 DEF Same, Told, Accounts, identity
<1>8. \A a \in Admins : OfficeIsSound(a)'
  BY <1>7, SameStays DEF AccountsInv, TrailIsSound
<1>9. \A v \in Owners : v # u => /\ Suspensions(v)' = Suspensions(v)
                                 /\ Reactivations(v)' = Reactivations(v)
                                 /\ v \in suspended' <=> v \in suspended
  BY <1>0, <1>2, <1>3 DEF Suspensions, Reactivations, Accounts
<1>10. Suspensions(u)' = Reactivations(u)' + (IF u \in suspended' THEN 1 ELSE 0)
  <2>1. Suspensions(u) \in Nat /\ Reactivations(u) \in Nat
        /\ Suspensions(u) = Reactivations(u) + (IF u \in suspended THEN 1 ELSE 0)
    BY <1>0 DEF AccountsInv, State, TrailIsSound, Suspensions, Reactivations
  <2>2. CASE u \notin suspended /\ suspended' = suspended \cup {u}
             /\ Audit("company_suspended", u)
    <3>1. Suspensions(u)' = Suspensions(u) + 1 /\ Reactivations(u)' = Reactivations(u)
      BY <1>0, <2>2, AuditCounts DEF AccountsInv, Suspensions, Reactivations
    <3> QED BY <2>1, <2>2, <3>1
  <2>3. CASE u \in suspended /\ suspended' = suspended \ {u}
             /\ Audit("company_reactivated", u)
    <3>1. Suspensions(u)' = Suspensions(u) /\ Reactivations(u)' = Reactivations(u) + 1
      BY <1>0, <2>3, AuditCounts DEF AccountsInv, Suspensions, Reactivations
    <3> QED BY <2>1, <2>3, <3>1
  <2> QED BY <1>2, <2>2, <2>3
<1>11. TrailIsSound'
  <2>1. \A v \in Owners :
          Suspensions(v)' = Reactivations(v)' + (IF v \in suspended' THEN 1 ELSE 0)
    BY <1>9, <1>10 DEF AccountsInv, TrailIsSound
  <2> QED BY <1>8, <2>1 DEF TrailIsSound
<1> QED BY <1>4, <1>5, <1>6, <1>11 DEF AccountsInv
-----------------------------------------------------------------------------
LEMMA InitAccountsInv == Init => AccountsInv
<1> SUFFICES ASSUME Init PROVE AccountsInv
  OBVIOUS
<1> USE DEF Init, CredentialsInit, TenantsInit, OfficeInit
<1>1. State
  BY DEF State, IdentityOK, Statuses
<1>2. SessionsAreSound
  BY DEF SessionsAreSound
<1>3. LinksAreSound
  BY DEF LinksAreSound, Links
<1>4. \A a \in Admins : SignInsTold(a)
  <2>1. \A a \in Admins : Told(a) = {}
    BY DEF Told
  <2>2. IsFiniteSet({}) /\ Cardinality({}) = 0
    BY FS_EmptySet
  <2> HIDE DEF Init, CredentialsInit, TenantsInit, OfficeInit
  <2>3. ASSUME NEW a \in Admins PROVE Times("password_reset", a) = 0 /\ version[a] = 0
                                      /\ Times("login_succeeded", a) = 0
    BY DEF Init, CredentialsInit, OfficeInit, Times, Recorded, Accounts
  <2> QED BY <2>1, <2>2, <2>3 DEF SignInsTold
<1>5. \A a \in Admins : AccountTold(a) /\ ApplicationTold(a)
  BY DEF AccountTold, ApplicationTold, Times, Recorded, Accounts, WasApproved, AwaitsClick,
         Links
<1>6. TrailIsSound
  BY <1>4, <1>5 DEF TrailIsSound, OfficeIsSound, Suspensions, Reactivations, Recorded,
                    Accounts
<1> QED BY <1>1, <1>2, <1>3, <1>6 DEF AccountsInv

LEMMA NextAccountsInv == AccountsInv /\ [Next]_vars => AccountsInv'
<1> SUFFICES ASSUME AccountsInv, [Next]_vars PROVE AccountsInv'
  OBVIOUS
<1>1. CASE TenantNext /\ UNCHANGED office
  BY <1>1, TenantKeeps
<1>2. CASE OfficeNext /\ UNCHANGED tenancy
  BY <1>2, OfficeKeeps
<1>3. CASE \E l \in Links : (ResetMailFails(l) \/ LinkExpires(l)) /\ UNCHANGED <<tenancy, office>>
  BY <1>3, MailKeeps
<1>4. CASE \E u \in Owners : Cleanup(u) \/ \E b \in Admins : ChangeCompanyStatus(b, u)
  BY <1>4, CleanupKeeps, ChangeStatusKeeps
<1>5. CASE UNCHANGED vars
  BY <1>5, CallsOnly DEF vars, credentials, identity, AccountsInv, State
<1> QED BY <1>1, <1>2, <1>3, <1>4, <1>5 DEF Next

\* The inductive invariant of accounts: what proofs of identity, mailed links
\* and the audit trail of auth.service and platform-auth.service say together.
THEOREM AccountsAreSound == Spec => []AccountsInv
<1> QED BY InitAccountsInv, NextAccountsInv, PTL DEF Spec

\* A reset counts authVersion up (PasswordReset): no token that the guards let
\* through was had for an older password, whichever calls overlapped.
THEOREM ResetsEndSessions == Spec => []SessionsEndWithReset
<1>1. AccountsInv => SessionsEndWithReset
  BY DEF AccountsInv, SessionsAreSound, Vouched, SessionsEndWithReset, Current
<1> QED BY <1>1, AccountsAreSound, PTL

\* The write that uses a link looks for its hash again and takes it away: of
\* two calls that hold one link (ResetReads) one alone has an effect.
THEOREM LinksAreUsedOnce == Spec => []LinksWorkOnce
<1>1. AccountsInv => LinksWorkOnce
  BY DEF AccountsInv, LinksAreSound, LinksWorkOnce
<1> QED BY <1>1, AccountsAreSound, PTL

\* A failed mail takes back the link it stored, and no other (ResetMailFails,
\* RequestMailFails): the newest link works until its own mail is reported as
\* failed, whether or not that report is true.
THEOREM NewestLinkIsHeld == Spec => []NewestLinkWorks
<1>1. AccountsInv => NewestLinkWorks
  <2> SUFFICES ASSUME AccountsInv, NEW l \in Links, ~links[l].failed, ~links[l].expired,
                      links[l].uses = 0,
                      \A m \in Links : m > l => ~IsFor(m, links[l].to, links[l].for)
               PROVE  links[l].held
    BY DEF NewestLinkWorks
  <2> QED BY DEF AccountsInv, LinksAreSound, Promising
<1> QED BY <1>1, AccountsAreSound, PTL

\* A record of the audit trail is written in the transaction of what it records,
\* that of a sign-in before its token is signed: the trail and the state tell the
\* same story, and no token is out whose sign-in is not in it.
THEOREM AuditTellsAll == Spec => []AuditTellsHistory
<1>1. ASSUME AccountsInv, NEW a \in Admins
      PROVE  /\ audits["password_reset"][a] = version[a]
             /\ audits["bootstrap_created"][a] + audits["access_activated"][a]
                  = (IF a \in registered THEN 1 ELSE 0)
             /\ audits["access_activated"][a] <= audits["access_approved"][a]
             /\ audits["access_approved"][a] + audits["access_rejected"][a]
                  <= audits["access_verified"][a]
             /\ audits["access_verified"][a] <= audits["access_requested"][a]
             /\ Cardinality(Told(a)) <= audits["login_succeeded"][a]
  <2>1. SignInsTold(a) /\ AccountTold(a) /\ ApplicationTold(a)
    BY <1>1, OfficeNumbers DEF OfficeIsSound
  <2>2. \A y \in Recorded : audits[y][a] \in Nat
    BY <1>1, OfficeNumbers DEF Times
  <2> QED BY <1>1, <2>1, <2>2, OfficeNumbers DEF SignInsTold, AccountTold, ApplicationTold, Times
<1>2. AccountsInv => AuditTellsHistory
  BY <1>1 DEF AuditTellsHistory, AccountsInv, TrailIsSound
<1> QED BY <1>2, AccountsAreSound, PTL

------------------------------------------------------------------------------
(* What administrators read: PlatformReports.                                *)

\* What a figure counts is finite, and two figures of documents that differ add up.
LEMMA CountsAdd ==
  \A S : IsFiniteSet(S) =>
    \A A, B \in SUBSET S :
      A \cap B = {} =>
        /\ Cardinality(A) \in Nat /\ Cardinality(B) \in Nat
        /\ Cardinality(A \cup B) = Cardinality(A) + Cardinality(B)
<1> SUFFICES ASSUME NEW S, IsFiniteSet(S), NEW A \in SUBSET S, NEW B \in SUBSET S,
                    A \cap B = {}
             PROVE  /\ Cardinality(A) \in Nat /\ Cardinality(B) \in Nat
                    /\ Cardinality(A \cup B) = Cardinality(A) + Cardinality(B)
  OBVIOUS
<1>1. IsFiniteSet(A) /\ IsFiniteSet(B)  BY FS_Subset
<1>2. Cardinality(A \cup B) = Cardinality(A) + Cardinality(B) - Cardinality(A \cap B)
  BY <1>1, FS_Union
<1>3. Cardinality(A \cap B) = 0  BY FS_EmptySet
<1>4. Cardinality(A) \in Nat /\ Cardinality(B) \in Nat  BY <1>1, FS_CardinalityType
<1> QED  BY <1>2, <1>3, <1>4, SMT

\* The parts of a finite set add up, whether they are two or four.
LEMMA PartsAdd ==
  ASSUME NEW S, IsFiniteSet(S), NEW A, NEW B, A \cup B = S, A \cap B = {}
  PROVE  Cardinality(A) + Cardinality(B) = Cardinality(S)
<1>1. A \in SUBSET S /\ B \in SUBSET S  OBVIOUS
<1>2. Cardinality(A \cup B) = Cardinality(A) + Cardinality(B)  BY <1>1, CountsAdd
<1> QED  BY <1>2

LEMMA FourPartsAdd ==
  ASSUME NEW S, IsFiniteSet(S), NEW A, NEW B, NEW C, NEW D, A \cup B \cup C \cup D = S,
         A \cap B = {}, A \cap C = {}, A \cap D = {}, B \cap C = {}, B \cap D = {}, C \cap D = {}
  PROVE  Cardinality(A) + Cardinality(B) + Cardinality(C) + Cardinality(D) = Cardinality(S)
<1> DEFINE AB == A \cup B
           CD == C \cup D
<1>1. IsFiniteSet(AB) /\ IsFiniteSet(CD)
  <2>1. AB \subseteq S /\ CD \subseteq S  OBVIOUS
  <2> QED  BY <2>1, FS_Subset
<1>2. Cardinality(A) + Cardinality(B) = Cardinality(AB)  BY <1>1, PartsAdd
<1>3. Cardinality(C) + Cardinality(D) = Cardinality(CD)  BY <1>1, PartsAdd
<1>4. Cardinality(AB) + Cardinality(CD) = Cardinality(S)
  <2>1. AB \cup CD = S /\ AB \cap CD = {}  OBVIOUS
  <2> HIDE DEF AB, CD
  <2> QED  BY <2>1, PartsAdd
<1>5. /\ Cardinality(A) \in Nat /\ Cardinality(B) \in Nat
      /\ Cardinality(C) \in Nat /\ Cardinality(D) \in Nat
  <2>1. IsFiniteSet(A) /\ IsFiniteSet(B) /\ IsFiniteSet(C) /\ IsFiniteSet(D)
    BY FS_Subset
  <2> QED  BY <2>1, FS_CardinalityType
<1> HIDE DEF AB, CD
<1> QED  BY <1>2, <1>3, <1>4, <1>5, SMT

\* A company has one subscription at most.
LEMMA OneSubscription ==
  ASSUME NEW db, IsDatabase(db), NEW c \in db.companies,
         NEW s \in c.subscription, NEW t \in c.subscription
  PROVE  s = t
<1>1. IsFiniteSet(c.subscription) /\ Cardinality(c.subscription) <= 1  BY DEF IsDatabase
<1>2. Cardinality(c.subscription) \in Nat  BY <1>1, FS_CardinalityType
<1>3. CASE Cardinality(c.subscription) = 0
  BY <1>1, <1>3, FS_EmptySet
<1>4. CASE Cardinality(c.subscription) = 1
  <2>1. PICK x : c.subscription = {x}  BY <1>1, <1>4, FS_Singleton
  <2> QED  BY <2>1
<1> QED  BY <1>1, <1>2, <1>3, <1>4

\* The dashboard of dashboard() counts every company by its plan or as one without
\* a subscription, every user in one role and every file in one visibility.
THEOREM FiguresAddUp ==
  ASSUME NEW db, IsDatabase(db)
  PROVE  AddsUp(db)
<1> DEFINE Plan(p) == {c \in db.companies : OnPlan(c, p)}
           Planless == {c \in db.companies : c.subscription = {}}
           Role(r) == {u \in db.users : u.role = r}
           Seen(v) == {f \in db.files : VisibilityOf(f) = v}
<1>1. Cardinality(Plan("free")) + Cardinality(Plan("basic")) + Cardinality(Plan("premium"))
        + Cardinality(Planless) = Cardinality(db.companies)
  <2>1. IsFiniteSet(db.companies)  BY DEF IsDatabase
  <2>2. \A p, q \in PlanCodes : p # q => Plan(p) \cap Plan(q) = {}
    BY OneSubscription DEF OnPlan
  <2>3. \A p \in PlanCodes : Plan(p) \cap Planless = {}  BY DEF OnPlan
  <2>4. Plan("free") \cup Plan("basic") \cup Plan("premium") \cup Planless = db.companies
    BY DEF OnPlan, IsDatabase, PlanCodes
  <2>5. Plan("free") \cap Plan("basic") = {} /\ Plan("free") \cap Plan("premium") = {}
        /\ Plan("basic") \cap Plan("premium") = {} /\ Plan("free") \cap Planless = {}
        /\ Plan("basic") \cap Planless = {} /\ Plan("premium") \cap Planless = {}
    BY <2>2, <2>3 DEF PlanCodes
  <2> HIDE DEF Plan, Planless
  <2> QED  BY <2>1, <2>4, <2>5, FourPartsAdd
<1>2. Cardinality(Role("company_owner")) + Cardinality(Role("company_member"))
        = Cardinality(db.users)
  <2>1. Role("company_owner") \cup Role("company_member") = db.users  BY DEF IsDatabase
  <2>2. Role("company_owner") \cap Role("company_member") = {}  OBVIOUS
  <2>3. IsFiniteSet(db.users)  BY DEF IsDatabase
  <2> HIDE DEF Role
  <2> QED  BY <2>1, <2>2, <2>3, PartsAdd
<1>3. Cardinality(Seen("company_wide")) + Cardinality(Seen("restricted"))
        = Cardinality(db.files)
  <2>1. Seen("company_wide") \cup Seen("restricted") = db.files
    BY DEF IsDatabase, VisibilityOf
  <2>2. Seen("company_wide") \cap Seen("restricted") = {}  OBVIOUS
  <2>3. IsFiniteSet(db.files)  BY DEF IsDatabase
  <2> HIDE DEF Seen
  <2> QED  BY <2>1, <2>2, <2>3, PartsAdd
<1> QED
  BY <1>1, <1>2, <1>3 DEF AddsUp, Companies, TenantUsers, StoredFiles, PlanCodes

------------------------------------------------------------------------------
(* Lists and figures *)

CompanyQuery ==
  [search : {Anything}, activation : {Anything, "activated", "pending"},
   status : {Anything, "active", "suspended"}, plan : PlanCodes \cup {Anything},
   access : {Anything}, managed : {Anything}]
FileQuery ==
  [company : {Anything}, user : {Anything}, search : {Anything}, type : {Anything},
   visibility : {Anything, "company_wide", "restricted"}, uploader : {Anything}]

\* A list asked for by one field only lists what has that value.
LEMMA OneFilter ==
  ASSUME NEW db, NEW q \in CompanyQuery
  PROVE  /\ q.activation = "activated" /\ q.status = Anything /\ q.plan = Anything =>
              listCompanies(db, q) = {c \in db.companies : c.activated}
         /\ q.activation = Anything /\ q.status = "suspended" /\ q.plan = Anything =>
              listCompanies(db, q) = {c \in db.companies : StatusOf(c) = "suspended"}
         /\ q.activation = Anything /\ q.status = Anything /\ q.plan # Anything =>
              listCompanies(db, q) = {c \in db.companies : OnPlan(c, q.plan)}
<1>1. q.search = Anything /\ q.access = Anything /\ q.managed = Anything  BY DEF CompanyQuery
<1>2. ASSUME q.activation = "activated", q.status = Anything, q.plan = Anything
      PROVE  listCompanies(db, q) = {c \in db.companies : c.activated}
  BY <1>1, <1>2 DEF listCompanies, Is, Mentions, Anything
<1>3. ASSUME q.activation = Anything, q.status = "suspended", q.plan = Anything
      PROVE  listCompanies(db, q) = {c \in db.companies : StatusOf(c) = "suspended"}
  BY <1>1, <1>3 DEF listCompanies, Is, Mentions, Anything
<1>4. ASSUME q.activation = Anything, q.status = Anything, q.plan # Anything
      PROVE  listCompanies(db, q) = {c \in db.companies : OnPlan(c, q.plan)}
  BY <1>1, <1>4 DEF listCompanies, Is, Mentions, Anything
<1> QED  BY <1>2, <1>3, <1>4

\* The lists of listCompanies() and listFiles(), filtered by what a figure of the
\* dashboard counts, have exactly that many rows, although the figures and the
\* filters treat a missing field in different ways.
THEOREM ListsAgree ==
  ASSUME NEW db, IsDatabase(db), NEW companies \in CompanyQuery, NEW files \in FileQuery
  PROVE  AgreesWithLists(db, companies, files)
<1> DEFINE every == [companies EXCEPT !.search = Anything, !.activation = Anything, !.status = Anything,
                                      !.plan = Anything, !.access = Anything, !.managed = Anything]
           all == [files EXCEPT !.company = Anything, !.user = Anything, !.search = Anything, !.type = Anything,
                                !.visibility = Anything, !.uploader = Anything]
<1>1. /\ every \in CompanyQuery
      /\ every.activation = Anything /\ every.status = Anything /\ every.plan = Anything
  BY DEF CompanyQuery
<1> HIDE DEF every
<1>2. listCompanies(db, [every EXCEPT !.status = "suspended"])
        = {c \in db.companies : c.status = "suspended"}
  <2>1. [every EXCEPT !.status = "suspended"] \in CompanyQuery  BY <1>1 DEF CompanyQuery
  <2>2. listCompanies(db, [every EXCEPT !.status = "suspended"])
          = {c \in db.companies : StatusOf(c) = "suspended"}
    BY <1>1, <2>1, OneFilter DEF CompanyQuery
  <2> QED  BY <2>2 DEF StatusOf, IsDatabase
<1>3. listCompanies(db, [every EXCEPT !.activation = "activated"])
        = {c \in db.companies : c.activated}
  <2>1. [every EXCEPT !.activation = "activated"] \in CompanyQuery  BY <1>1 DEF CompanyQuery
  <2> QED  BY <1>1, <2>1, OneFilter DEF CompanyQuery
<1>4. ASSUME NEW p \in PlanCodes
      PROVE  listCompanies(db, [every EXCEPT !.plan = p])
               = {c \in db.companies : OnPlan(c, p)}
  <2>1. [every EXCEPT !.plan = p] \in CompanyQuery /\ p # Anything
    BY <1>1 DEF CompanyQuery, PlanCodes, Anything
  <2> QED  BY <1>1, <2>1, OneFilter DEF CompanyQuery
<1>5. ASSUME NEW v \in {"restricted", "company_wide"}
      PROVE  listFiles(db, [all EXCEPT !.visibility = v])
               = {f \in db.files : VisibilityOf(f) = v}
  BY DEF listFiles, Is, Mentions, Anything, FileQuery
<1> HIDE DEF all
<1>6. Cardinality(listCompanies(db, [every EXCEPT !.status = "suspended"]))
        = Companies(db).suspended
  BY <1>2 DEF Companies
<1>7. Cardinality(listCompanies(db, [every EXCEPT !.activation = "activated"]))
        = Companies(db).activated
  BY <1>3 DEF Companies
<1>8. \A p \in PlanCodes :
        Cardinality(listCompanies(db, [every EXCEPT !.plan = p])) = Companies(db).byPlan[p]
  BY <1>4 DEF Companies
<1>9. \A v \in {"restricted", "company_wide"} :
        Cardinality(listFiles(db, [all EXCEPT !.visibility = v]))
          = IF v = "restricted" THEN StoredFiles(db.files).restricted
            ELSE StoredFiles(db.files).companyWide
  BY <1>5 DEF StoredFiles
<1> QED  BY <1>6, <1>7, <1>8, <1>9 DEF AgreesWithLists, every, all

------------------------------------------------------------------------------
(* Pages *)

\* Arithmetic of pages: more pages have no fewer rows, and every row is on one.
LEMMA PagesGrow ==
  ASSUME NEW a \in Nat, NEW b \in Nat, NEW l \in Nat, a <= b
  PROVE  a * l <= b * l
  BY SMTT(30)

LEMMA Euclid ==
  ASSUME NEW k \in Nat, NEW l \in Nat, l > 0
  PROVE  /\ k = l * (k \div l) + (k % l) /\ 0 <= k % l /\ k % l < l
         /\ k \div l \in Nat /\ k % l \in Nat
  BY SMTT(30)

OnPage(i, n, l) == (n - 1) * l < i /\ i <= n * l

LEMMA RowHasPage ==
  ASSUME NEW i \in Nat, NEW l \in Nat, i > 0, l > 0
  PROVE  \E n \in Nat : n > 0 /\ OnPage(i, n, l)
<1> DEFINE q == (i - 1) \div l
           r == (i - 1) % l
<1>1. i - 1 \in Nat  OBVIOUS
<1>2. i - 1 = l * q + r /\ r < l /\ q \in Nat /\ r \in Nat  BY <1>1, Euclid
<1> HIDE DEF q, r
<1>3. (q + 1) * l = l * q + l /\ l * q \in Nat  BY <1>2, SMTT(30)
<1>4. (q + 1 - 1) * l = l * q  BY <1>2, SMTT(30)
<1>5. OnPage(i, q + 1, l)  BY <1>2, <1>3, <1>4, SMT DEF OnPage
<1>6. q + 1 \in Nat /\ q + 1 > 0  BY <1>2
<1> QED  BY <1>5, <1>6, Zenon

LEMMA RowHasOnePage ==
  ASSUME NEW i \in Nat, NEW l \in Nat, NEW n \in Nat, NEW k \in Nat, n > 0, k > 0,
         OnPage(i, n, l), OnPage(i, k, l)
  PROVE  k = n
<1>1. k - 1 \in Nat /\ n - 1 \in Nat  OBVIOUS
<1>2. k * l \in Nat /\ n * l \in Nat /\ (k - 1) * l \in Nat /\ (n - 1) * l \in Nat
  BY <1>1, SMTT(30)
<1>3. CASE k < n
  <2>1. k <= n - 1  BY <1>3
  <2>2. k * l <= (n - 1) * l  BY <1>1, <2>1, PagesGrow
  <2> QED  BY <1>2, <2>2, SMT DEF OnPage
<1>4. CASE n < k
  <2>1. n <= k - 1  BY <1>4
  <2>2. n * l <= (k - 1) * l  BY <1>1, <2>1, PagesGrow
  <2> QED  BY <1>2, <2>2, SMT DEF OnPage
<1> QED  BY <1>3, <1>4

\* The rows that skip and limit cut out of a list for page(): turning the pages
\* from the first to the thousandth shows each row once and none twice.
THEOREM PagesPartition ==
  ASSUME NEW total \in Nat, NEW limit \in Nat, limit > 0
  PROVE  PagesShowEachRowOnce(total, limit)
<1> DEFINE On(i, k) == i \in page(total, [page |-> k, limit |-> limit])
<1>1. ASSUME NEW i \in 1..total, i <= MaxPage * limit
      PROVE  \E n \in 1..MaxPage : On(i, n) /\ \A k \in 1..MaxPage : On(i, k) => k = n
  <2>1. ASSUME NEW k \in Nat PROVE On(i, k) <=> OnPage(i, k, limit)
    BY DEF page, OnPage
  <2>2. i \in Nat /\ i > 0  OBVIOUS
  <2>3. PICK n \in Nat : n > 0 /\ OnPage(i, n, limit)  BY <2>2, RowHasPage
  <2>4. n <= MaxPage
    <3> SUFFICES ASSUME MaxPage <= n - 1 PROVE FALSE  BY <2>3 DEF MaxPage
    <3>1. n - 1 \in Nat  BY <2>3
    <3>2. MaxPage * limit <= (n - 1) * limit  BY <3>1, PagesGrow DEF MaxPage
    <3>3. (n - 1) * limit \in Nat  BY <3>1, SMTT(30)
    <3> QED  BY <1>1, <2>2, <2>3, <3>2, <3>3, SMT DEF OnPage, MaxPage
  <2>5. n \in 1..MaxPage  BY <2>3, <2>4 DEF MaxPage
  <2>6. ASSUME NEW k \in 1..MaxPage, On(i, k) PROVE k = n
    <3>1. k \in Nat /\ k > 0  BY DEF MaxPage
    <3>2. OnPage(i, k, limit)  BY <2>1, <2>6, <3>1
    <3> QED  BY <2>2, <2>3, <3>1, <3>2, RowHasOnePage
  <2>7. On(i, n)  BY <2>1, <2>3
  <2>8. \A k \in 1..MaxPage : On(i, k) => k = n  BY <2>6
  <2> HIDE DEF On
  <2> QED  BY <2>5, <2>7, <2>8
<1> QED  BY <1>1 DEF PagesShowEachRowOnce

------------------------------------------------------------------------------
(* Who reads and changes a file: FileAccess.                                 *)

\* One result of an operation, by the operation.
LEMMA ResultIsOne ==
  ASSUME NEW files, NEW users, NEW actor, NEW ids, NEW namings,
         NEW after \in Results(files, users, actor, ids, namings)
  PROVE  \/ after = files
         \/ \E id \in ids : after = delete(files, actor, id)
         \/ \E id \in ids, v \in {"company_wide", "restricted"}, n \in namings :
              after = updatePermissions(files, users, actor, id, v, n)
         \/ \E id \in ids, v \in {"company_wide", "restricted"}, n \in namings :
              after = upload(files, users, actor, id, v, n)
         \/ \E s \in ids, c \in ids : after = publishGuardCopy(files, actor, s, c)
  BY DEF Results

\* No operation of files.service.ts shares a copy with another employee: uploads
\* are no copies, updatePermissions() refuses them, publishGuardCopy() narrows them.
THEOREM CopiesStayPrivate ==
  ASSUME NEW files, files \subseteq Document, NEW users, NEW actor, NEW ids, NEW namings,
         CopiesArePrivate(files), NEW after \in Results(files, users, actor, ids, namings)
  PROVE  CopiesArePrivate(after)
<1>1. CASE after = files  BY <1>1
<1>2. ASSUME NEW id \in ids, after = delete(files, actor, id)
      PROVE  CopiesArePrivate(after)
  BY <1>2 DEF delete, CopiesArePrivate
<1>3. ASSUME NEW id \in ids, NEW v, NEW n,
             after = updatePermissions(files, users, actor, id, v, n)
      PROVE  CopiesArePrivate(after)
  <2>1. ASSUME NEW f \in after, f.source # None
        PROVE  f.visibility = "restricted" /\ f.readers = {f.uploader}
    <3>1. PICK g \in files :
            f = IF /\ g.id = id /\ g.company = actor.company
                   /\ MayChange(actor, g) /\ g.source = None
                   /\ validatePermissions(users, actor, v, n)
                THEN [g EXCEPT !.visibility = v, !.readers = ToSet(n)]
                ELSE g
      BY <1>3, Zenon DEF updatePermissions
    <3>2. CASE f = g  BY <2>1, <3>2 DEF CopiesArePrivate
    <3>3. CASE f = [g EXCEPT !.visibility = v, !.readers = ToSet(n)] /\ g.source = None
      <4>1. f.source = g.source  BY <3>3 DEF Document
      <4> QED  BY <2>1, <3>3, <4>1
    <3> QED  BY <3>1, <3>2, <3>3
  <2> QED  BY <2>1 DEF CopiesArePrivate
<1>4. ASSUME NEW id \in ids, NEW v, NEW n,
             after = upload(files, users, actor, id, v, n)
      PROVE  CopiesArePrivate(after)
  BY <1>4 DEF upload, CopiesArePrivate
<1>5. ASSUME NEW s \in ids, NEW c \in ids, after = publishGuardCopy(files, actor, s, c)
      PROVE  CopiesArePrivate(after)
  BY <1>5 DEF publishGuardCopy, CopiesArePrivate
<1> QED  BY <1>1, <1>2, <1>3, <1>4, <1>5, ResultIsOne

\* delete() and updatePermissions() reach the copies of a file: whoever may not
\* find it any more finds no copy made of it, neither with findOne() nor with what
\* goes through it, whoever asked for the copy; after delete() nobody does.
THEOREM WithdrawalReachesCopies ==
  ASSUME NEW files, files \subseteq Document, IsOneEach(files), NEW users, NEW actor, NEW reader,
         NEW n, NEW s \in files, s.id # None, s.source = None, accessFilter(actor, s), MayChange(actor, s)
  PROVE  WithdrawsCopies(files, users, actor, s, n, reader)
<1>1. ASSUME NEW after, \A f, g \in after : f.id = g.id => f = g,
             \A t \in after : t.id = s.id => ~accessFilter(reader, t),
             NEW f \in after, f.source = s.id, s.id # None
      PROVE  findOne(after, reader, f.id) = {}
  <2> SUFFICES ASSUME NEW g \in after, g.id = f.id, MayRead(after, reader, g) PROVE FALSE
    BY DEF findOne
  <2>1. assertLineage(after, reader, f)
    BY <1>1 DEF MayRead
  <2> QED BY <1>1, <2>1 DEF assertLineage
<1>2. \A f, g \in files : f.id = g.id => f = g
  BY DEF IsOneEach
<1>3. ASSUME NEW after, after = delete(files, actor, s.id), NEW f \in after, f.source = s.id
      PROVE  findOne(after, reader, f.id) = {}
  <2>1. \A t \in after : t \in files /\ t.id # s.id
    BY <1>2, <1>3 DEF delete
  <2> QED BY <1>1, <1>2, <1>3, <2>1
<1>4. ASSUME validatePermissions(users, actor, "restricted", n),
             reader.id \notin ToSet(n) \cup {s.uploader}, ~IsOwner(reader),
             NEW after, after = updatePermissions(files, users, actor, s.id, "restricted", n),
             NEW f \in after, f.source = s.id
      PROVE  findOne(after, reader, f.id) = {}
  <2> DEFINE Asked(g) == /\ g.id = s.id /\ g.company = actor.company
                         /\ MayChange(actor, g) /\ g.source = None
                         /\ validatePermissions(users, actor, "restricted", n)
             New(g) == [g EXCEPT !.visibility = "restricted", !.readers = ToSet(n)]
  <2>1. after = {IF Asked(g) THEN New(g) ELSE g : g \in files}
    BY <1>4, Zenon DEF updatePermissions
  <2>2. \A g \in files : New(g).id = g.id
    BY DEF Document
  <2>3. Asked(s)
    BY <1>4 DEF accessFilter
  <2>4. ~accessFilter(reader, New(s))
    <3>1. /\ New(s).visibility = "restricted" /\ New(s).readers = ToSet(n)
          /\ New(s).uploader = s.uploader
      BY DEF Document
    <3> QED BY <1>4, <3>1 DEF accessFilter, Shared
  <2> HIDE DEF Asked, New
  <2>5. \A t, u \in after : t.id = u.id => t = u
    BY <1>2, <2>1, <2>2
  <2>6. \A t \in after : t.id = s.id => t = New(s)
    BY <1>2, <2>1, <2>2, <2>3
  <2> QED BY <1>1, <1>4, <2>4, <2>5, <2>6
<1> QED BY <1>3, <1>4 DEF WithdrawsCopies, NoCopyIsFound

\* Every operation is fenced by the company of its actor, and only the owner or the
\* uploader removes a file or changes who may read it.
THEOREM ChangesStayAllowed ==
  ASSUME NEW files, files \subseteq Document, NEW users, NEW actor, NEW ids, NEW namings,
         NEW after \in Results(files, users, actor, ids, namings)
  PROVE  ChangesAreAllowed(files, actor, after)
<1>1. CASE after = files  BY <1>1 DEF ChangesAreAllowed
<1>2. ASSUME NEW id \in ids, after = delete(files, actor, id)
      PROVE  ChangesAreAllowed(files, actor, after)
  BY <1>2 DEF delete, ChangesAreAllowed, accessFilter
<1>3. ASSUME NEW id \in ids, NEW v, NEW n,
             after = updatePermissions(files, users, actor, id, v, n)
      PROVE  ChangesAreAllowed(files, actor, after)
  <2> DEFINE Asked(g) == /\ g.id = id /\ g.company = actor.company
                         /\ MayChange(actor, g) /\ g.source = None
                         /\ validatePermissions(users, actor, v, n)
             New(g) == [g EXCEPT !.visibility = v, !.readers = ToSet(n)]
  <2>1. after = {IF Asked(g) THEN New(g) ELSE g : g \in files}
    BY <1>3, Zenon DEF updatePermissions
  <2>2. \A g \in files : New(g).company = g.company /\ New(g).uploader = g.uploader
    BY DEF Document
  <2>3. \A g \in files : Asked(g) => g.company = actor.company /\ MayChange(actor, g)
    OBVIOUS
  <2>4. \A g \in files : MayChange(actor, g) => MayChange(actor, New(g))
    BY <2>2, Zenon DEF MayChange
  <2> HIDE DEF Asked, New
  <2>5. ASSUME NEW f \in files \ after PROVE f.company = actor.company /\ MayChange(actor, f)
    <3>1. Asked(f)  BY <2>1, <2>5
    <3> QED  BY <2>3, <3>1
  <2>6. ASSUME NEW f \in after \ files PROVE f.company = actor.company /\ MayChange(actor, f)
    <3>1. PICK g \in files : f = IF Asked(g) THEN New(g) ELSE g  BY <2>1
    <3>2. Asked(g) /\ f = New(g)  BY <3>1, <2>6
    <3> QED  BY <2>2, <2>3, <2>4, <3>2
  <2> QED  BY <2>5, <2>6 DEF ChangesAreAllowed
<1>4. ASSUME NEW id \in ids, NEW v, NEW n, after = upload(files, users, actor, id, v, n)
      PROVE  ChangesAreAllowed(files, actor, after)
  BY <1>4 DEF upload, ChangesAreAllowed, MayChange
<1>5. ASSUME NEW s \in ids, NEW c \in ids, after = publishGuardCopy(files, actor, s, c)
      PROVE  ChangesAreAllowed(files, actor, after)
  BY <1>5 DEF publishGuardCopy, ChangesAreAllowed, MayChange
<1> QED  BY <1>1, <1>2, <1>3, <1>4, <1>5, ResultIsOne

==============================================================================
