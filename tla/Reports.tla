------------------------------- MODULE Reports -------------------------------
(****************************************************************************)
(* What a company is told about its workspace: the estimate of its bill and *)
(* the statistics page.  Both only read.  getCurrent is one transaction on  *)
(* a snapshot; the statistics add counts that four other queries take at    *)
(* other moments, so the two pictures are parameters.                       *)
(****************************************************************************)
EXTENDS Workspace

CONSTANTS
  EmployeePrice,  \* cents of a Basic employee and month (500 in the code)
  PremiumBase     \* cents of a Premium month (30000)

ASSUME BillAssumption == {EmployeePrice, PremiumBase} \subseteq Nat

BaseOf == [free |-> 0, basic |-> 0, premium |-> PremiumBase]
PriceOf == [free |-> 0, basic |-> EmployeePrice, premium |-> 0]

AtLeastZero(n, m) == IF n >= m THEN n - m ELSE 0

------------------------------------------------------------------------------
\* calculate: the base of the present plan, its employees, and the recorded
\* overage, whose files were charged when they were uploaded.
calculate(p, used, employees) ==
  [plan |-> p, employees |-> employees, uploads |-> used.uploads,
   included |-> Included[p], charged |-> used.cents \div Price,
   base |-> BaseOf[p], seats |-> employees * PriceOf[p], overage |-> used.cents,
   total |-> BaseOf[p] + employees * PriceOf[p] + used.cents]

\* SubscriptionsService.getCurrent
Current == calculate(plan, usage[period], Cardinality(members))

\* Wrong: only the accepted are counted; the uploads of the month are counted.
CountsOfAccepted(now) == [pending |-> 0, stored |-> Stored]
CountsOfMonth(now) == [pending |-> Cardinality(LiveAt(now)), stored |-> usage[period].uploads]

\* The queries beside it: live invitations and stored files.
Counts(now) == [pending |-> Cardinality(LiveAt(now)), stored |-> Stored]

\* StatisticsService.getCurrent; a number that is unlimited is not given.
Statistics(current, counts) ==
  [slotsUnlimited |-> ~CapsSeats(current.plan),
   slots |-> IF CapsSeats(current.plan)
             THEN AtLeastZero(Seats[current.plan], current.employees + counts.pending)
             ELSE 0,
   uploadsUnlimited |-> ~CapsFiles(current.plan),
   uploads |-> AtLeastZero(current.included, counts.stored),
   overageUploads |-> current.charged, total |-> current.total]

Shown == Statistics(Current, Counts(clock))
------------------------------------------------------------------------------
\* docs/architecture.md: "`remainingUploads` counts available stored-file slots":
\* as many uploads as are shown would be admitted now and not one more, and where
\* none is capped as many would cost nothing (checkFileUpload against getCurrent).
UploadsAreTold ==
  \A n \in 1 .. Cardinality(Files) + 1 :
    IF Shown.uploadsUnlimited
    THEN n <= Shown.uploads <=> Overage(plan, Stored + n - 1) = 0
    ELSE n <= Shown.uploads <=> FilesFit(plan, Stored + n)

\* As many invitations as slots are shown would be admitted now, and not one more,
\* although others reserve seats and let them go (assertEmployeeCapacity against
\* the statistics).
SlotsAreTold ==
  \A n \in 1 .. Cardinality(Invites) + 1 :
    Capacity(clock, n) <=> Shown.slotsUnlimited \/ n <= Shown.slots
==============================================================================
