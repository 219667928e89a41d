---------------------------- MODULE Subscription ----------------------------
(****************************************************************************)
(* The subscription of one company in a deployment without payments: the    *)
(* plan it is on, what each plan allows, and the subscription document as   *)
(* the lock every transaction that depends on a plan limit has to write.    *)
(****************************************************************************)
EXTENDS Naturals, FiniteSets

CONSTANTS
  FreeFiles,     \* stored files the Free plan includes (10 in the code)
  BasicFiles,    \* ... the Basic plan (100)
  PremiumFiles,  \* ... the Premium plan (1000)
  BasicSeats,    \* employees of the Basic plan (10); Free has none
  Price          \* cents of a Premium file beyond the included ones (50)

ASSUME AllowanceAssumption ==
  /\ {FreeFiles, BasicFiles, PremiumFiles, BasicSeats} \subseteq Nat
  /\ FreeFiles <= BasicFiles /\ BasicFiles <= PremiumFiles
ASSUME PriceAssumption == Price \in Nat \ {0}

VARIABLES
  plan,    \* planCode of the company's subscription
  holders  \* uploads whose transaction has written the subscription document

Plans == {"free", "basic", "premium"}
Rank == [free |-> 0, basic |-> 1, premium |-> 2]

\* includedFilesPerMonth: by its legacy name; it limits the files stored now.
Included == [free |-> FreeFiles, basic |-> BasicFiles, premium |-> PremiumFiles]

\* extraFilePriceCents = null: no file may be stored beyond the included ones.
CapsFiles(p) == p # "premium"

\* maxEmployees # null, and its value.
CapsSeats(p) == p # "premium"
Seats == [free |-> 0, basic |-> BasicSeats]

FilesFit(p, stored) == CapsFiles(p) => stored <= Included[p]
SeatsFit(p, taken) == CapsSeats(p) => taken <= Seats[p]

\* The owner's employees that a plan keeps.
SeatsKept(p, employees) ==
  IF CapsSeats(p) /\ Seats[p] < employees THEN Seats[p] ELSE employees

\* calculateAdditionalOverageCents: the charge for one more stored file is the
\* difference of two excesses over what the plan includes.
Excess(p, files) == IF files > Included[p] THEN files - Included[p] ELSE 0
\* Wrong: the excess after the upload is one too large.
OverageOfOneMore(p, stored) ==
  IF CapsFiles(p) THEN 0 ELSE (Excess(p, stored + 2) - Excess(p, stored)) * Price

Overage(p, stored) ==
  IF CapsFiles(p) THEN 0 ELSE (Excess(p, stored + 1) - Excess(p, stored)) * Price

\* acquireLock increments the revision of the subscription document: MongoDB
\* refuses the write while another open transaction has written it, and the
\* code retries.
LockIsFree == holders = {}

SubscriptionInit == plan = "free" /\ holders = {}
=============================================================================
