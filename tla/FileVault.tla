------------------------------ MODULE FileVault ------------------------------
(****************************************************************************)
(* The stored files of a company: an upload puts the object into S3, then   *)
(* records the metadata row and the monthly usage in one MongoDB            *)
(* transaction under the subscription lock, and erases the object again     *)
(* when it knows that the transaction did not commit.  The transaction is   *)
(* split into its snapshot and its commit; the commit may be acknowledged,  *)
(* or decided by the server after the client has lost contact.              *)
(****************************************************************************)
EXTENDS Subscription

CONSTANTS
  Files,      \* the uploads: each one draws a storage key of its own
  MaxPeriods  \* bound: number of billing periods

ASSUME FilesAssumption == IsFiniteSet(Files)
ASSUME PeriodsAssumption == MaxPeriods \in Nat \ {0}

VARIABLES
  rows,      \* the companyfiles collection
  stamp,     \* createdAt: the place of a row in the order of creation, or 0
  objects,   \* S3: the storage keys that hold an object
  upload,    \* how far the request that uploads a file has come
  tx,        \* what the transaction of an upload has computed on its snapshot
  deletion,  \* how far a user's deletion of the file has come
  usage,     \* the subscriptionperiods collection
  period     \* the current billing period

vault == <<rows, stamp, objects, upload, tx, deletion, usage, period>>
vaultVars == <<plan, holders, vault>>

Periods == 1 .. MaxPeriods
Uploading == {"checked", "put", "open", "uncertain", "compensate"}

\* "refused" only after a compensation that is known to have succeeded; after any
\* other error the request is "over", whatever it has left in S3.
Ended == {"stored", "refused", "over"}
Charge == [cents : Nat, period : Periods]
NoCharge == [cents |-> 0, period |-> 1]

VaultTypeOK ==
  /\ plan \in Plans
  /\ holders \subseteq Files
  /\ rows \subseteq Files
  /\ stamp \in [Files -> Nat]
  /\ objects \subseteq Files
  /\ upload \in [Files -> {"idle"} \cup Uploading \cup Ended]
  /\ tx \in [Files -> Charge]
  /\ deletion \in [Files -> {"no", "begun", "erased"}]
  /\ usage \in [Periods -> [uploads : Nat, cents : Nat]]
  /\ period \in Periods

VaultInit ==
  /\ SubscriptionInit
  /\ rows = {}
  /\ stamp = [f \in Files |-> 0]
  /\ objects = {}
  /\ upload = [f \in Files |-> "idle"]
  /\ tx = [f \in Files |-> NoCharge]
  /\ deletion = [f \in Files |-> "no"]
  /\ usage = [p \in Periods |-> [uploads |-> 0, cents |-> 0]]
  /\ period = 1

Stored == Cardinality(rows)
EverStored == {f \in Files : stamp[f] > 0}
Becomes(f, stage) == upload' = [upload EXCEPT ![f] = stage]

------------------------------------------------------------------------------
(* An upload.                                                               *)

\* checkFileUpload, before any storage is used and without a lock.
Begin(f) ==
  /\ upload[f] = "idle"
  /\ Becomes(f, IF FilesFit(plan, Stored + 1) THEN "checked" ELSE "over")
  /\ UNCHANGED <<plan, holders, rows, stamp, objects, tx, deletion, usage, period>>

PutObject(f) ==
  /\ upload[f] = "checked"
  /\ objects' = objects \cup {f}
  /\ Becomes(f, "put")
  /\ UNCHANGED <<plan, holders, rows, stamp, tx, deletion, usage, period>>

\* The call is outside the try block: nothing compensates a PUT that reports a
\* failure, whether or not S3 has applied it.
PutFails(f) ==
  /\ upload[f] = "checked"
  /\ objects' \in {objects, objects \cup {f}}
  /\ Becomes(f, "over")
  /\ UNCHANGED <<plan, holders, rows, stamp, tx, deletion, usage, period>>

\* Wrong: the count is taken without writing the subscription document.
Unlocked(f) == f \notin holders

MayLock(f) == LockIsFree

\* Wrong: a charge to the period that begins next.
NextCharge(f) == [cents |-> Overage(plan, Stored), period |-> period + 1]

ChargeOf(f) == [cents |-> Overage(plan, Stored), period |-> period]

\* recordFileUploads: the limit and the charge, on the count the snapshot shows.
Snapshot(f) ==
  /\ upload[f] = "put"
  /\ MayLock(f)
  /\ FilesFit(plan, Stored + 1)
  /\ holders' = holders \cup {f}
  /\ tx' = [tx EXCEPT ![f] = ChargeOf(f)]
  /\ Becomes(f, "open")
  /\ UNCHANGED <<plan, rows, stamp, objects, deletion, usage, period>>

\* The limit is reached, or the transaction fails for a reason that is known.
Refuse(f) ==
  /\ upload[f] \in {"put", "open"}
  /\ holders' = holders \ {f}
  /\ Becomes(f, "compensate")
  /\ UNCHANGED <<plan, rows, stamp, objects, tx, deletion, usage, period>>

\* A transient error: the driver runs the transaction again.
Retry(f) ==
  /\ upload[f] = "open"
  /\ holders' = holders \ {f}
  /\ Becomes(f, "put")
  /\ UNCHANGED <<plan, rows, stamp, objects, tx, deletion, usage, period>>

\* The transaction's writes become visible: the row and the usage it counts.
Apply(f) ==
  /\ f \in holders
  /\ rows' = rows \cup {f}
  /\ stamp' = [stamp EXCEPT ![f] = Cardinality(EverStored) + 1]
  /\ usage' = [usage EXCEPT ![tx[f].period] =
                 [uploads |-> @.uploads + 1, cents |-> @.cents + tx[f].cents]]
  /\ holders' = holders \ {f}

Commit(f) ==
  /\ upload[f] = "open"
  /\ Apply(f)
  /\ Becomes(f, "stored")
  /\ UNCHANGED <<plan, objects, tx, deletion, period>>

\* Wrong: any error of the transaction is taken for its abort, or tried again.
AnyErrorAborts(f) == "compensate"
AnyErrorRetries(f) == "put"

\* hasUnknownCommitResult: an unknown result is not an abort.
AfterLostCommit(f) == "uncertain"

CommitUnknown(f) ==
  /\ upload[f] = "open"
  /\ Becomes(f, AfterLostCommit(f))
  /\ UNCHANGED <<plan, holders, rows, stamp, objects, tx, deletion, usage, period>>

\* The server decides a transaction whose client does not hear of it.
Unheard(f) == f \in holders /\ upload[f] # "open"

LateCommit(f) ==
  /\ Unheard(f)
  /\ Apply(f)
  /\ UNCHANGED <<plan, objects, upload, tx, deletion, period>>

LateAbort(f) ==
  /\ Unheard(f)
  /\ holders' = holders \ {f}
  /\ UNCHANGED <<plan, rows, stamp, objects, upload, tx, deletion, usage, period>>

\* Wrong: the majority read is taken for proof that the commit was lost.
MissingIsAborted(f) == IF f \in rows THEN "stored" ELSE "compensate"

\* The majority read after an unknown result; a missing row proves nothing.
AfterMajorityRead(f) == IF f \in rows THEN "stored" ELSE "over"

Resolve(f) ==
  /\ upload[f] = "uncertain"
  /\ Becomes(f, AfterMajorityRead(f))
  /\ UNCHANGED <<plan, holders, rows, stamp, objects, tx, deletion, usage, period>>

\* The majority read itself fails.
ResolveFails(f) ==
  /\ upload[f] = "uncertain"
  /\ Becomes(f, "over")
  /\ UNCHANGED <<plan, holders, rows, stamp, objects, tx, deletion, usage, period>>

Compensate(f) ==
  /\ upload[f] = "compensate"
  /\ objects' = objects \ {f}
  /\ Becomes(f, "refused")
  /\ UNCHANGED <<plan, holders, rows, stamp, tx, deletion, usage, period>>

\* The compensating DELETE reports a failure, applied by S3 or not.
CompensateFails(f) ==
  /\ upload[f] = "compensate"
  /\ objects' \in {objects, objects \ {f}}
  /\ Becomes(f, "over")
  /\ UNCHANGED <<plan, holders, rows, stamp, tx, deletion, usage, period>>

\* The process dies; a PUT or DELETE it has sent may still be applied, and the
\* server decides its open transaction.
UploadCrashes(f) ==
  /\ upload[f] \in Uploading
  /\ objects' \in CASE upload[f] = "checked"    -> {objects, objects \cup {f}}
                    [] upload[f] = "compensate" -> {objects, objects \ {f}}
                    [] OTHER                    -> {objects}
  /\ Becomes(f, "over")
  /\ UNCHANGED <<plan, holders, rows, stamp, tx, deletion, usage, period>>

Upload(f) ==
  \/ Begin(f) \/ PutObject(f) \/ PutFails(f)
  \/ Snapshot(f) \/ Refuse(f) \/ Retry(f)
  \/ Commit(f) \/ CommitUnknown(f) \/ LateCommit(f) \/ LateAbort(f)
  \/ Resolve(f) \/ ResolveFails(f) \/ Compensate(f) \/ CompensateFails(f)
  \/ UploadCrashes(f)

------------------------------------------------------------------------------
(* A deletion: the object first, then the row.                              *)

DeleteBegin(f) ==
  /\ f \in rows
  /\ deletion[f] = "no"
  /\ deletion' = [deletion EXCEPT ![f] = "begun"]
  /\ UNCHANGED <<plan, holders, rows, stamp, objects, upload, tx, usage, period>>

\* Also a DELETE that reports a failure although S3 has applied it.
DeleteObject(f) ==
  /\ deletion[f] = "begun"
  /\ objects' = objects \ {f}
  /\ deletion' = [deletion EXCEPT ![f] = "erased"]
  /\ UNCHANGED <<plan, holders, rows, stamp, upload, tx, usage, period>>

\* S3 refuses, or the process dies first: the row is kept.
DeleteFails(f) ==
  /\ deletion[f] = "begun"
  /\ deletion' = [deletion EXCEPT ![f] = "no"]
  /\ UNCHANGED <<plan, holders, rows, stamp, objects, upload, tx, usage, period>>

\* By this request or, after a failure, by a repeated one.  No lock is taken.
DeleteRow(f) ==
  /\ deletion[f] = "erased"
  /\ f \in rows
  /\ rows' = rows \ {f}
  /\ UNCHANGED <<plan, holders, stamp, objects, upload, tx, deletion, usage, period>>

Delete(f) == DeleteBegin(f) \/ DeleteObject(f) \/ DeleteFails(f) \/ DeleteRow(f)

------------------------------------------------------------------------------
\* The anniversary of the activation; recorded usage stays with its period.
NewPeriod ==
  /\ period < MaxPeriods
  /\ period' = period + 1
  /\ UNCHANGED <<plan, holders, rows, stamp, objects, upload, tx, deletion, usage>>

VaultNext == (\E f \in Files : Upload(f) \/ Delete(f)) \/ NewPeriod

==============================================================================
