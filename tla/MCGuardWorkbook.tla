--------------------------- MODULE MCGuardWorkbook ---------------------------
(****************************************************************************)
(* The pure parts of a guard job over bounded inputs.  They have no states  *)
(* of their own: TLC evaluates these assumptions with the runs of the jobs. *)
(****************************************************************************)
EXTENDS GuardWorkbook

\* The shortest number a card may have, with a valid checksum.
Card == <<4, 1, 1, 1, 1, 1, 1, 1, 1, 1, 1, 1, 9>>
Plain == [tokens |-> <<>>, ibans |-> <<>>, numbers |-> <<>>, form |-> "words"]
Mail == [Plain EXCEPT !.tokens = <<[length |-> 9, kinds |-> {"email"}]>>]
CardText ==
  [Plain EXCEPT !.numbers = <<[plus |-> FALSE, digits |-> Card, phoneIn |-> {}]>>]
Number == [Plain EXCEPT !.form = "number"]

\* A checksum finds one wrong digit, and two neighbours that change places
\* unless they are 0 and 9: luhn().
ASSUME LuhnFindsMistakes ==
  /\ luhn(Card)
  /\ \A i \in DOMAIN Card : \A d \in 0..9 \ {Card[i]} : ~luhn([Card EXCEPT ![i] = d])
  /\ ~luhn(SubSeq(Card, 1, 12)) /\ ~luhn([i \in 1..16 |-> 0])
  /\ \A a, b \in 0..9 :
       LET digits == [Card EXCEPT ![6] = a, ![7] = b]
           swapped == [Card EXCEPT ![6] = b, ![7] = a]
       IN luhn(digits) /\ luhn(swapped) => a = b \/ {a, b} = {0, 9}

\* Only the first tokens and candidates of a text are looked at: detect().
ASSUME LimitsOfDetection ==
  LET late == [Mail EXCEPT !.tokens = [i \in 1..(TokenLimit + 1) |->
                 [length |-> 9, kinds |-> IF i > TokenLimit THEN {"email"} ELSE {}]]]
  IN /\ detect(late, Categories, "none") = {}
     /\ detect(Mail, Categories, "none") = {"email"}
     /\ detect(CardText, Categories, "none") = {"payment_card"}
     /\ detect(CardText, {"email"}, "none") = {}

Cell(type, text, index, formula) ==
  [type |-> type, text |-> text, index |-> index, formula |-> formula]
SomeCells ==
  {Cell("s", Plain, 0, FALSE), Cell("s", Plain, 1, FALSE), Cell("str", Mail, 0, FALSE),
   Cell("n", Number, 0, FALSE), Cell("str", Mail, 0, TRUE)}
SomePlaces == {<<1, 1, 1>>, <<1, 2, 1>>, <<2, 1, 2>>}
Books ==
  [state : {<<"visible", "hidden">>, <<"hidden", "hidden">>},
   hiddenRows : {{<<1, 2>>}}, hiddenColumns : {{<<2, 2>>}},
   strings : {<<CardText>>, <<CardText, Plain>>},
   extras : {{"docProps"}, {"styles"}},
   cells : UNION {[places -> SomeCells] : places \in {SomePlaces, {<<1, 1, 1>>}, {}}}]

\* A sheet is as long as its cells, and a marker longer than the number it replaces.
SomeBytes(sheets, n) ==
  IF n <= 4 THEN 3
  ELSE LET cells == {p \in DOMAIN sheets.cells : p[1] = n - 4}
       IN 4 * Cardinality(cells)
          + 2 * Cardinality({p \in cells : sheets.cells[p].text = Marker})

Column == [sheet |-> 1, column |-> 1, includeHeader |-> FALSE]
Selections ==
  [categories : {{}, {"payment_card"}}, columns : {{}, {Column}}]
OptionsOf(book, selection) ==
  [categories |-> {"email", "payment_card"}, region |-> "none", selection |-> selection,
   findings |-> IF IsInvalid(book) \/ IsTooLarge(book) THEN {} ELSE Findings(book, {"email", "payment_card"}, "none")]

\* The promises of GuardWorkbook hold, and copies are made: sanitizeWorkbook().
ASSUME CopiesAreExact ==
  /\ \A book \in Books : IsBook(book) /\ IsAccepted(book, Categories, "none")
  /\ \A book \in Books, selection \in Selections :
       LET o == OptionsOf(book, selection)
       IN /\ IsPlain(book) =>
               /\ PassesVerification(book, o)
               /\ PackageErrors(Redacted(book, o)) \subseteq {"guard_limit_exceeded"}
          /\ ChildErrors(book, o) = {} =>
               /\ RedactsExactly(book, o) /\ KeepsTheRest(book, o)
               /\ CopyIsValid([redactedCells |-> Cardinality(Changed(book, o)),
                                length |-> 1, digestAgrees |-> TRUE])
          /\ \A e \in ChildErrors(book, o) : Reported(e) = e
  /\ \E book \in Books, selection \in Selections :
       LET o == OptionsOf(book, selection)
       IN ChildErrors(book, o) = {} /\ Findings(Output(book, o), o.categories, o.region) # {}
  /\ \E book \in Books, selection \in Selections :
       LET o == OptionsOf(book, selection)
       IN IsPlain(book) /\ ChildErrors(book, o) = {"guard_limit_exceeded"}

\* finish() settles a run once, whatever follows: GuardRunner.execute().
ASSUME RunsSettleOnce ==
  LET Events == {[kind |-> "abort", length |-> 0, code |-> 0],
                 [kind |-> "timeout", length |-> 0, code |-> 0],
                 [kind |-> "data", length |-> 2, code |-> 0],
                 [kind |-> "close", length |-> 0, code |-> 0],
                 [kind |-> "close", length |-> 0, code |-> 1]}
      Short == UNION {[1..n -> Events] : n \in 0..3}
  IN \A events \in Short, event \in Events :
       Outcome(events, 3) # "pending"
       => Outcome(Append(events, event), 3) = Outcome(events, 3)

SomeParts ==
  {[PartsOf([state |-> <<"visible", "visible">>, cells |-> <<>>]) EXCEPT
      ![1].body = a, ![2].body = a, ![3].body = b, ![5].body = c, ![6].body = d] :
   a \in {1, 6}, b \in {0, 11}, c \in {0, 11}, d \in {0, 11, 12, 40}}

\* What writeXlsx() has written is only refused by preflight() for the limit of an
\* entry or of their sum, which writeXlsx() does not look at, and both happen.
\* No archive is accepted whose parts share bytes.
ASSUME PackagesAgree ==
  /\ \A parts \in SomeParts : WriteFails(parts) \/
       LET written == writeXlsx(parts)
       IN PreflightErrors(written) =
            {e \in {"guard_limit_exceeded"} :
               \/ \E i \in DOMAIN parts : parts[i].body > EntryBytes
               \/ Expanded(written, Len(parts)) > ExpandedBytes}
  /\ \E parts \in SomeParts : WriteFails(parts)
  /\ \E parts \in SomeParts : ~WriteFails(parts) /\ PreflightErrors(writeXlsx(parts)) = {}
  /\ \E parts \in SomeParts : ~WriteFails(parts) /\ \E i \in DOMAIN parts : parts[i].body > EntryBytes
  /\ \E parts \in SomeParts :
       /\ ~WriteFails(parts) /\ \A i \in DOMAIN parts : parts[i].body <= EntryBytes
       /\ Expanded(writeXlsx(parts), Len(parts)) > ExpandedBytes
  /\ \A parts \in SomeParts : \A i \in DOMAIN parts :
       LET written == writeXlsx(parts)
           moved == [written EXCEPT !.entries[i].offset = @ - 1]
       IN i > 1 => PreflightErrors(moved) # {}
=============================================================================
