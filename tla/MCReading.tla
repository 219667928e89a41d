------------------------------ MODULE MCReading ------------------------------
(* Small databases on which TLC compares what administrators and employees   *)
(* read with what PlatformReports and FileAccess promise of it.              *)
EXTENDS Naturals, Sequences, FiniteSets

PR == INSTANCE PlatformReports
FA == INSTANCE FileAccess

\* Company documents with the fields that older ones lack, and one subscription.
Standings ==
  {{}} \cup {{[plan |-> p, managed |-> m, access |-> a, issue |-> "none", synced |-> 0]} :
              p \in {"free", "premium"}, m \in BOOLEAN, a \in {"unmanaged", "suspended"}}
CompanyDocs(id) ==
  {[id |-> id, words |-> {id}, status |-> s, activated |-> a, subscription |-> sub] :
     s \in {"missing", "active", "suspended"}, a \in BOOLEAN, sub \in Standings}
FileDocs(id) ==
  {[id |-> id, company |-> "c1", uploader |-> "u1", words |-> {id}, type |-> "csv",
    visibility |-> v] : v \in {"missing", "company_wide", "restricted"}}
UserDocs ==
  {[id |-> "u1", company |-> c, role |-> r, words |-> {"ann"}] :
     c \in {"c1", "c2"}, r \in {"company_owner", "company_member"}}
Databases ==
  {[companies |-> {c, d}, users |-> {u}, files |-> {f, g}, periods |-> {},
    invitations |-> {}, audits |-> {}] :
     c \in CompanyDocs("c1"), d \in {d \in CompanyDocs("c2") : ~d.activated},
     u \in UserDocs, f \in FileDocs("f1"), g \in FileDocs("f2")}
Blank == [search |-> "any", activation |-> "any", status |-> "any", plan |-> "any",
          access |-> "any", managed |-> "any", company |-> "any", user |-> "any",
          type |-> "any", visibility |-> "any", uploader |-> "any"]

\* Every document is counted once, and a list filtered by what a figure of the
\* dashboard counts has as many rows: admin.service.ts reads a missing field alike.
ASSUME FiguresAgree ==
  \A db \in Databases :
    PR!IsDatabase(db) /\ PR!AddsUp(db) /\ PR!AgreesWithLists(db, Blank, Blank)

\* Turning the pages of a list of admin.service.ts shows each of its rows once.
ASSUME PagesTurn == \A total \in 0..9, limit \in 1..4 : PR!PagesShowEachRowOnce(total, limit)

\* An owner and two members of a company, a stranger, and the files of two steps.
People ==
  {[id |-> "o", company |-> "c1", role |-> "company_owner"],
   [id |-> "m", company |-> "c1", role |-> "company_member"],
   [id |-> "n", company |-> "c1", role |-> "company_member"],
   [id |-> "x", company |-> "c2", role |-> "company_owner"]}
Namings == {<<>>, <<"m">>, <<"m", "n">>, <<"n", "n">>, <<"x">>}
Ids == {"f1", "f2"}
After(files) == UNION {FA!Results(files, People, a, Ids, Namings) : a \in People}
Vaults == LET once == After({}) IN UNION {After(files) : files \in once}

\* Whatever two operations of files.service.ts have made of the files, a third one
\* changes only what its actor may change, and copies stay with their source.
ASSUME CopiesAreKept ==
  /\ \E files \in Vaults : \E f \in files : f.source # "none"
  /\ \A files \in Vaults, a \in People :
       /\ FA!IsOneEach(files) /\ FA!CopiesArePrivate(files)
       /\ \A s \in files, n \in Namings, r \in People :
            s.source = "none" /\ FA!accessFilter(a, s) /\ FA!MayChange(a, s)
            => FA!WithdrawsCopies(files, People, a, s, n, r)
       /\ \A after \in FA!Results(files, People, a, Ids, Namings) :
            FA!CopiesArePrivate(after) /\ FA!ChangesAreAllowed(files, a, after)
==============================================================================
