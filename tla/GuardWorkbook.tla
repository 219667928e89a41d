---------------------------- MODULE GuardWorkbook ----------------------------
(****************************************************************************)
(* The algorithms of a guard job, which run in a child process: scanning a  *)
(* workbook, and writing the redacted copy of a plain one.  A workbook is   *)
(* given as the parsers of scan-workbook.ts and sanitize-workbook.ts see    *)
(* it: the states of its sheets, the hidden rows and columns, the cells     *)
(* with their places, the shared strings, and what else the package holds.  *)
(* Rows, columns and sheets are counted from 1.  XML is left out: a defect  *)
(* the parsers refuse is a member of a workbook's extras.  The ZIP package  *)
(* of a source has passed preflight() of GuardPackage; that of a copy is    *)
(* written and read here, with the bytes of its parts given.                *)
(****************************************************************************)
EXTENDS GuardDetectors, GuardPackage, Integers, FiniteSets

CONSTANTS
  MaxSheets, MaxRows, MaxColumns, MaxCells, MaxFindings, \* GuardLimits
  BodyBytes(_, _)       \* the length of the nth part generate() makes of sheets

ASSUME LimitAssumption ==
  {MaxSheets, MaxRows, MaxColumns, MaxCells, MaxFindings} \subseteq Nat \ {0}

SheetStates == {"visible", "hidden", "veryHidden"}
Types == {"n", "b", "e", "d", "s", "str", "inlineStr"}
Places == (1..MaxSheets) \X (1..MaxRows) \X (1..MaxColumns)

\* What makes scan() refuse a workbook, and what it only remarks on.
Defects == {"malformed", "macros", "external target", "protection", "stray sheet"}
Remarks == {"unsupported_parts", "hyperlinks", "defined_names",
            "unsupported_elements", "merged_cells"}
\* What neither is remarked on nor refused, and what sanitizing leaves behind.
Silent == {"styles", "rich text", "date1904"}
Metadata == {"docProps"}

CompatibilityFlags ==
  Remarks \cup {"cell_text_only", "metadata_not_scanned", "formulas",
                "unreferenced_shared_strings"}

SafeErrors ==
  {"guard_invalid_workbook", "guard_limit_exceeded", "guard_timeout",
   "guard_access_revoked", "guard_storage_unavailable", "guard_worker_unavailable",
   "guard_internal_error", "guard_profile_unsupported", "guard_selection_invalid",
   "guard_source_changed", "guard_output_verification_failed", "guard_quota_exceeded"}

------------------------------------------------------------------------------
(* Scanning *)

Shared(book, p) == ~book.cells[p].formula /\ book.cells[p].type = "s"

\* The text of a cell: a shared string is referred to by its index from 0.
TextOf(book, p) ==
  IF book.cells[p].type = "s" THEN book.strings[book.cells[p].index + 1]
  ELSE book.cells[p].text

\* Numbers are not text, and neither is what a formula last computed.
IsScanned(book, p) ==
  ~book.cells[p].formula /\ book.cells[p].type \in {"s", "str", "inlineStr"}

Evidence(category) ==
  IF category \in {"payment_card", "iban"} THEN "checksum_valid" ELSE "format_valid"

IsHidden(book, p) ==
  \/ book.state[p[1]] \in {"hidden", "veryHidden"}
  \/ <<p[1], p[2]>> \in book.hiddenRows
  \/ <<p[1], p[3]>> \in book.hiddenColumns

Findings(book, categories, region) ==
  {[place |-> f[1], category |-> f[2], evidence |-> Evidence(f[2]),
    hidden |-> IsHidden(book, f[1])] :
   f \in {g \in (DOMAIN book.cells) \X categories :
            /\ IsScanned(book, g[1])
            /\ g[2] \in detect(TextOf(book, g[1]), categories, region)}}

Referenced(book) == {book.cells[p].index : p \in {q \in DOMAIN book.cells : Shared(book, q)}}

Flags(book) ==
  {"cell_text_only", "metadata_not_scanned"} \cup (book.extras \cap Remarks)
  \cup {f \in {"formulas"} : \E p \in DOMAIN book.cells : book.cells[p].formula}
  \cup {f \in {"unreferenced_shared_strings"} :
          Len(book.strings) > Cardinality(Referenced(book))}

HasDefects(book) == book.extras \cap Defects # {}

IsInvalid(book) ==
  \/ HasDefects(book)
  \/ Len(book.state) = 0
  \/ \E p \in DOMAIN book.cells : book.cells[p].type \notin Types

IsTooLarge(book) ==
  \/ Len(book.state) > MaxSheets
  \/ \E p \in DOMAIN book.cells : p[2] > MaxRows \/ p[3] > MaxColumns
  \/ Cardinality(DOMAIN book.cells) > MaxCells
  \/ \E r \in book.hiddenRows : r[2] > MaxRows
  \/ \E c \in book.hiddenColumns : c[2] > MaxColumns
  \/ Len(book.strings) > MaxCells
  \/ \E i \in Referenced(book) : i >= Len(book.strings)

FindsTooMuch(book, categories, region) ==
  /\ ~IsInvalid(book) /\ ~IsTooLarge(book)
  /\ Cardinality(Findings(book, categories, region)) > MaxFindings

\* What scan() may throw: where both apply, what comes first in the file.
ScanErrors(book, categories, region) ==
  {e \in {"guard_invalid_workbook"} : IsInvalid(book)}
  \cup {e \in {"guard_limit_exceeded"} :
          IsTooLarge(book) \/ FindsTooMuch(book, categories, region)}

ScanResult(book, categories, region) ==
  [findings |-> Findings(book, categories, region),
   processedCells |-> Cardinality(DOMAIN book.cells), sheets |-> Len(book.state),
   compatibilityFlags |-> Flags(book), coverage |-> "limited"]

------------------------------------------------------------------------------
(* Sanitizing.  The options are the region and the categories of the scan, *)
(* its findings, and the selected categories and columns.                   *)

Marker ==
  [tokens |-> <<[length |-> 10, kinds |-> {}]>>, ibans |-> <<>>, numbers |-> <<>>,
   form |-> "words"]

\* Every element and attribute is one of those that can be written again.
InProfile(book) == book.extras \subseteq Metadata

IsPlain(book) ==
  /\ InProfile(book)
  /\ \E s \in DOMAIN book.state : book.state[s] = "visible"
  /\ \A p \in DOMAIN book.cells :
       LET cell == book.cells[p]
       IN /\ ~cell.formula
          /\ cell.type \in {"n", "b", "s", "str", "inlineStr"}
          /\ cell.type = "n" => cell.text.form \in {"number", "blank"}
          /\ cell.type = "b" => cell.text.form = "bit"
          /\ cell.type = "s" => cell.index \in 0..(Len(book.strings) - 1)

\* What supported() keeps of a workbook: text is written into its cell.
Supported(book) ==
  [state |-> book.state, hiddenRows |-> book.hiddenRows,
   hiddenColumns |-> book.hiddenColumns,
   cells |-> [p \in DOMAIN book.cells |->
     [type |-> IF book.cells[p].type \in {"s", "str"} THEN "inlineStr"
               ELSE book.cells[p].type,
      text |-> TextOf(book, p)]]]

InColumn(sheets, column) ==
  {p \in DOMAIN sheets.cells : p[1] = column.sheet /\ p[3] = column.column}

Selected(book, o) ==
  {f.place : f \in {g \in Findings(book, o.categories, o.region) :
                      g.category \in o.selection.categories}}
  \cup UNION {{p \in InColumn(Supported(book), c) : c.includeHeader \/ p[2] # 1} :
              c \in o.selection.columns}

SelectionIsValid(book, o) ==
  /\ \A c \in o.selection.columns :
       c.sheet \in DOMAIN book.state /\ InColumn(Supported(book), c) # {}
  /\ Selected(book, o) # {}
  /\ Cardinality(Selected(book, o)) <= MaxCells

Changed(book, o) == {p \in DOMAIN Supported(book).cells : p \in Selected(book, o)}

Redacted(book, o) ==
  [Supported(book) EXCEPT !.cells = [p \in DOMAIN @ |->
     IF p \in Changed(book, o) THEN [type |-> "inlineStr", text |-> Marker] ELSE @[p]]]

\* The workbook written from the sheets alone: nothing is inherited.
Generate(sheets) ==
  [state |-> sheets.state, hiddenRows |-> sheets.hiddenRows,
   hiddenColumns |-> sheets.hiddenColumns, strings |-> <<>>, extras |-> {},
   cells |-> [p \in DOMAIN sheets.cells |->
     [type |-> sheets.cells[p].type, text |-> sheets.cells[p].text,
      index |-> 0, formula |-> FALSE]]]

Output(book, o) == Generate(Redacted(book, o))

\* The parts of a copy: four of the package, and one for every sheet.
PartsOf(sheets) ==
  LET Part(path, number, names, n) ==
        [name |-> <<path, number>>, names |-> names, body |-> BodyBytes(sheets, n)]
  IN <<Part("[content_types].xml", 0, 19, 1), Part("_rels/.rels", 0, 11, 2),
       Part("xl/workbook.xml", 0, 15, 3), Part("xl/_rels/workbook.xml.rels", 0, 26, 4)>>
     \o [i \in DOMAIN sheets.state |->
          Part("xl/worksheets/sheet", i, IF i < 10 THEN 24 ELSE 25, 4 + i)]

\* A copy is stored, not deflated: its package may be larger than writeXlsx()
\* writes or preflight() reads, although that of its source was not.
PackageErrors(sheets) ==
  IF WriteFails(PartsOf(sheets)) THEN {"guard_limit_exceeded"}
  ELSE PreflightErrors(writeXlsx(PartsOf(sheets)))

\* A copy is written and read back before it is returned.
VerificationErrors(book, o) ==
  LET again == ScanErrors(Output(book, o), o.categories, o.region)
  IN IF Cardinality(Changed(book, o)) # Cardinality(Selected(book, o))
     THEN {"guard_output_verification_failed"}
     ELSE IF PackageErrors(Redacted(book, o)) # {} THEN PackageErrors(Redacted(book, o))
     ELSE IF again # {} THEN again
     ELSE IF ~IsPlain(Output(book, o)) THEN {"guard_profile_unsupported"}
     ELSE IF Supported(Output(book, o)) # Redacted(book, o)
     THEN {"guard_output_verification_failed"} ELSE {}

\* What sanitizeWorkbook() may throw; nothing when the copy is returned.
Refusals(book, o) ==
  IF ScanErrors(book, o.categories, o.region) # {}
  THEN ScanErrors(book, o.categories, o.region)
  ELSE IF Findings(book, o.categories, o.region) # o.findings THEN {"guard_source_changed"}
  ELSE IF ~IsPlain(book) THEN {"guard_profile_unsupported"}
  ELSE IF ~SelectionIsValid(book, o) THEN {"guard_selection_invalid"}
  ELSE VerificationErrors(book, o)

------------------------------------------------------------------------------
(* Between the child and the worker: scan-child.ts and guard.runner.ts *)

SelectionFits(o) ==
  /\ o.selection.categories \subseteq o.categories
  /\ Cardinality(o.selection.columns) <= 100
  /\ \A c \in o.selection.columns : c.sheet \in 1..MaxSheets /\ c.column \in 1..MaxColumns

\* What scan-child answers instead of a copy; nothing when it answers with one.
ChildErrors(book, o) ==
  IF ~(o.categories \subseteq Categories) THEN {"guard_invalid_workbook"}
  ELSE IF ~SelectionFits(o) THEN {"guard_selection_invalid"}
  ELSE Refusals(book, o)

\* What GuardRunner accepts of an answer: the child is not trusted.
ResultIsValid(result, categories) ==
  /\ result.processedCells \in 0..MaxCells
  /\ result.sheets \in 1..MaxSheets
  /\ result.coverage = "limited"
  /\ result.compatibilityFlags \subseteq CompatibilityFlags
  /\ Cardinality(result.findings) <= MaxFindings
  /\ \A f \in result.findings :
       /\ f.place \in (1..result.sheets) \X (1..MaxRows) \X (1..MaxColumns)
       /\ f.category \in Categories \cap categories
       /\ f.evidence \in {"format_valid", "checksum_valid"}
       /\ f.hidden \in BOOLEAN

CopyIsValid(copy) ==
  copy.redactedCells \in 1..MaxCells /\ copy.length > 0 /\ copy.digestAgrees

\* The first event that settles a run decides it: finish() ignores the rest.
Settling(events, limit) ==
  LET size[i \in 0..Len(events)] ==
        IF i = 0 THEN 0
        ELSE size[i - 1] + (IF events[i].kind = "data" THEN events[i].length ELSE 0)
  IN {i \in DOMAIN events :
        events[i].kind = "data" => size[i] > limit}

Outcome(events, limit) ==
  LET settling == Settling(events, limit)
      first == CHOOSE i \in settling : \A j \in settling : i <= j
      code == [abort |-> "guard_access_revoked", timeout |-> "guard_timeout",
               error |-> "guard_worker_unavailable", data |-> "guard_limit_exceeded"]
  IN CASE settling = {} -> "pending"
       [] settling # {} /\ events[first].kind # "close" -> code[events[first].kind]
       [] OTHER -> IF events[first].code # 0 THEN "guard_worker_unavailable"
                   ELSE "answered"

\* An error the child reports is passed on only if it is a known one.
Reported(code) == IF code \in SafeErrors THEN code ELSE "guard_invalid_workbook"

------------------------------------------------------------------------------
(* What the parsers can hand over, and what is promised of it *)

IsBook(book) ==
  /\ book.state \in Seq(SheetStates) /\ DOMAIN book.strings = 1..Len(book.strings)
  /\ Len(book.strings) \in Nat
  /\ IsFiniteSet(DOMAIN book.cells)
  /\ DOMAIN book.cells \subseteq (DOMAIN book.state) \X (Nat \ {0}) \X (Nat \ {0})
  /\ \A p \in DOMAIN book.cells :
       book.cells[p].formula \in BOOLEAN /\ book.cells[p].index \in Nat

\* The copy is found to hold what the original holds outside the selection.
RedactsExactly(book, o) ==
  Findings(Output(book, o), o.categories, o.region)
    = {f \in Findings(book, o.categories, o.region) : f.place \notin Selected(book, o)}

\* Cells outside the selection are written as they were read.
KeepsTheRest(book, o) ==
  \A p \in DOMAIN book.cells \ Selected(book, o) :
    Supported(Output(book, o)).cells[p] = Supported(book).cells[p]

\* Only the bytes of the package can refuse a copy: whatever its cells hold, it
\* is scanned again within the limits, in the profile, and equal to what was meant.
PassesVerification(book, o) ==
  /\ ScanErrors(book, o.categories, o.region) = {}
  /\ IsPlain(book) /\ SelectionIsValid(book, o)
  => VerificationErrors(book, o) = PackageErrors(Redacted(book, o))

\* What the child says of a workbook it has scanned, the worker accepts.
IsAccepted(book, categories, region) ==
  ScanErrors(book, categories, region) = {}
  => ResultIsValid(ScanResult(book, categories, region), categories)
=============================================================================
