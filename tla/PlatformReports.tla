--------------------------- MODULE PlatformReports ---------------------------
(****************************************************************************)
(* What a platform administrator reads: admin.service.ts.  A database is a  *)
(* record of collections, the sets of their documents; a company document   *)
(* comes with its subscription, a set of at most one.  A field that older   *)
(* documents lack is "missing".  The queries of one report run beside each  *)
(* other; here they all read the same database.                             *)
(****************************************************************************)
EXTENDS Naturals, FiniteSets, FiniteSetsExt

PlanCodes == {"free", "basic", "premium"}
Anything == "any"
Is(asked, value) == asked = Anything \/ asked = value
Mentions(asked, words) == asked = Anything \/ asked \in words

\* How a missing field is read.
StatusOf(company) == IF company.status = "missing" THEN "active" ELSE company.status
VisibilityOf(file) ==
  IF file.visibility = "missing" THEN "company_wide" ELSE file.visibility
AccessOf(company) ==
  IF company.subscription = {} THEN "unmanaged"
  ELSE (CHOOSE s \in company.subscription : TRUE).access

OnPlan(company, plan) == \E s \in company.subscription : s.plan = plan
IsManaged(company) == \E s \in company.subscription : s.managed

\* Wanting: access withdrawn, an open issue, or not synchronized for a day.
NeedsAttention(company, yesterday) ==
  \E s \in company.subscription :
    /\ s.managed
    /\ s.access = "suspended" \/ s.issue # "none" \/ s.synced < yesterday

Pending(invitation, now) == invitation.status = "pending" /\ invitation.expires > now
IsCurrent(time, now) == time.startsAt <= now /\ now < time.endsAt

Companies(db) ==
  [total |-> Cardinality(db.companies),
   activated |-> Cardinality({c \in db.companies : c.activated}),
   suspended |-> Cardinality({c \in db.companies : c.status = "suspended"}),
   missingSubscriptions |-> Cardinality({c \in db.companies : c.subscription = {}}),
   byPlan |-> [p \in PlanCodes |-> Cardinality({c \in db.companies : OnPlan(c, p)})]]

Stripe(db, yesterday) ==
  [managed |-> Cardinality({c \in db.companies : IsManaged(c)}),
   attention |-> Cardinality({c \in db.companies : NeedsAttention(c, yesterday)})]

TenantUsers(users) ==
  [total |-> Cardinality(users),
   owners |-> Cardinality({u \in users : u.role = "company_owner"}),
   members |-> Cardinality({u \in users : u.role = "company_member"})]

StoredFiles(files) ==
  [total |-> Cardinality(files),
   companyWide |-> Cardinality({f \in files : VisibilityOf(f) = "company_wide"}),
   restricted |-> Cardinality({f \in files : VisibilityOf(f) = "restricted"})]

Periods(db, now) ==
  LET current == {p \in db.periods : IsCurrent(p, now)}
  IN [uploads |-> MapThenSumSet(LAMBDA p : p.uploads, current),
      overage |-> MapThenSumSet(LAMBDA p : p.cents, current),
      tracked |-> Cardinality(current)]

\* Stripe's figures are shown (a set of at most one) where payments are enabled.
dashboard(db, now, yesterday, enabled) ==
  [companies |-> Companies(db), stripe |-> {s \in {Stripe(db, yesterday)} : enabled},
   tenantUsers |-> TenantUsers(db.users), files |-> StoredFiles(db.files),
   periods |-> Periods(db, now),
   pendingInvitations |-> Cardinality({i \in db.invitations : Pending(i, now)})]

companyDetail(db, company, now) ==
  LET of(S) == {d \in S : d.company = company.id}
      owners == {u \in of(db.users) : u.role = "company_owner"}
  IN [status |-> StatusOf(company),
      accepted |-> TenantUsers(of(db.users)).members,
      pending |-> Cardinality({i \in of(db.invitations) : Pending(i, now)}),
      files |-> StoredFiles(of(db.files)),
      managed |-> IsManaged(company),
      warnings |-> {w \in {"missing_owner"} : owners = {}}
                   \cup {w \in {"missing_subscription"} : company.subscription = {}}]

------------------------------------------------------------------------------
(* The lists *)

listCompanies(db, q) ==
  {c \in db.companies :
     /\ Mentions(q.search, c.words)
     /\ Is(q.activation, IF c.activated THEN "activated" ELSE "pending")
     /\ Is(q.status, StatusOf(c))
     /\ q.plan = Anything \/ OnPlan(c, q.plan)
     /\ Is(q.access, AccessOf(c))
     /\ Is(q.managed, IF IsManaged(c) THEN "true" ELSE "false")}

listUsers(db, q) ==
  {u \in db.users : Is(q.company, u.company) /\ Is(q.role, u.role) /\ Mentions(q.search, u.words)}

\* The uploader of a file is named only if it is of the file's company.
UploaderOf(db, file) == {u \in db.users : u.id = file.uploader /\ u.company = file.company}

listFiles(db, q) ==
  {f \in db.files :
     /\ Is(q.company, f.company) /\ Is(q.user, f.uploader)
     /\ Mentions(q.search, f.words) /\ Is(q.type, f.type)
     /\ Is(q.visibility, VisibilityOf(f))
     /\ q.uploader = Anything \/ \E u \in UploaderOf(db, f) : q.uploader \in u.words}

listAudit(db, q) ==
  {a \in db.audits : Is(q.action, a.action) /\ Is(q.actor, a.actor) /\ Is(q.target, a.target)}

\* The query of a page, and the places of its rows in the list, which is sorted
\* by the field asked for and then by id: one order for all pages.
MaxPage == 1000
QueryIsValid(q, sorts) ==
  q.page \in 1..MaxPage /\ q.limit \in 1..100 /\ q.sortBy \in sorts /\ q.order \in {"asc", "desc"}

page(total, q) == {i \in 1..total : (q.page - 1) * q.limit < i /\ i <= q.page * q.limit}

------------------------------------------------------------------------------
IsDatabase(db) ==
  /\ \A S \in {db.companies, db.users, db.files} : IsFiniteSet(S)
  /\ \A c \in db.companies :
       /\ c.status \in {"missing", "active", "suspended"}
       /\ Cardinality(c.subscription) <= 1 /\ IsFiniteSet(c.subscription)
       /\ \A s \in c.subscription : s.plan \in PlanCodes
  /\ \A u \in db.users : u.role \in {"company_owner", "company_member"}
  /\ \A f \in db.files : f.visibility \in {"missing", "company_wide", "restricted"}

\* Every document is counted in one figure of its kind, whatever it lacks.
AddsUp(db) ==
  LET c == Companies(db) u == TenantUsers(db.users) f == StoredFiles(db.files)
  IN /\ c.byPlan["free"] + c.byPlan["basic"] + c.byPlan["premium"]
          + c.missingSubscriptions = c.total
     /\ u.owners + u.members = u.total
     /\ f.companyWide + f.restricted = f.total

\* The filter of a list and the figure on the dashboard mean the same documents.
AgreesWithLists(db, companies, files) ==
  LET every == [companies EXCEPT !.search = Anything, !.activation = Anything, !.status = Anything,
                                 !.plan = Anything, !.access = Anything, !.managed = Anything]
      all == [files EXCEPT !.company = Anything, !.user = Anything, !.search = Anything, !.type = Anything,
                           !.visibility = Anything, !.uploader = Anything]
      Listed(q) == Cardinality(listCompanies(db, q))
  IN /\ Listed([every EXCEPT !.status = "suspended"]) = Companies(db).suspended
     /\ Listed([every EXCEPT !.activation = "activated"]) = Companies(db).activated
     /\ \A p \in PlanCodes : Listed([every EXCEPT !.plan = p]) = Companies(db).byPlan[p]
     /\ \A v \in {"restricted", "company_wide"} :
          Cardinality(listFiles(db, [all EXCEPT !.visibility = v]))
            = IF v = "restricted" THEN StoredFiles(db.files).restricted
              ELSE StoredFiles(db.files).companyWide

\* Each row of a list is on exactly one of the pages a query may ask for, but for
\* a list longer than all of them.
PagesShowEachRowOnce(total, limit) ==
  \A i \in 1..total :
    i <= MaxPage * limit =>
      \E n \in 1..MaxPage :
        /\ i \in page(total, [page |-> n, limit |-> limit])
        /\ \A k \in 1..MaxPage : i \in page(total, [page |-> k, limit |-> limit]) => k = n
==============================================================================
