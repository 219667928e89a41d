---------------------------- MODULE GuardPackage ----------------------------
(****************************************************************************)
(* The ZIP package around a workbook: preflight, which reads one that may   *)
(* have been made to deceive, and writeXlsx, which writes one.  An archive  *)
(* is the list of its directory entries with what their local headers and   *)
(* contents turn out to be; sizes and offsets are numbers of bytes.         *)
(****************************************************************************)
EXTENDS Naturals, Sequences

CONSTANTS
  CompressedBytes, ExpandedBytes, EntryBytes, MaxEntries, Ratio  \* GuardLimits

ASSUME PackageAssumption ==
  {CompressedBytes, ExpandedBytes, EntryBytes, MaxEntries, Ratio} \subseteq Nat \ {0}

LocalHeader == 30
DirectoryHeader == 46
EndRecord == 22

\* A name is a path with the number of the sheet, 0 for the other parts.
Required ==
  {"[content_types].xml", "xl/workbook.xml", "xl/_rels/workbook.xml.rels"} \X {0}

Largest(a, b) == IF a < b THEN b ELSE a

Sum(s) ==
  LET upTo[i \in 0..Len(s)] == IF i = 0 THEN 0 ELSE upTo[i - 1] + s[i]
  IN upTo[Len(s)]

\* The bytes the first n entries have expanded to.
Expanded(archive, n) == Sum([i \in 1..n |-> archive.entries[i].actual])

\* The part of the file that the data and the header of an entry take.
Start(entry) == entry.offset
End(entry) == entry.offset + LocalHeader + entry.names + entry.compressed

\* The limits, on what an entry declares and then on what comes out of it.
EntryIsTooLarge(archive, i) ==
  LET entry == archive.entries[i]
  IN \/ i > MaxEntries
     \/ \E size \in {entry.declared, entry.actual} :
          \/ size > EntryBytes
          \/ Expanded(archive, i - 1) + size > ExpandedBytes
          \/ size > Largest(entry.compressed, 1) * Ratio

EntryIsInvalid(archive, i) ==
  LET entry == archive.entries[i]
  IN \/ ~entry.nameIsSafe
     \/ entry.encrypted \/ entry.link \/ entry.method \notin {"stored", "deflated"}
     \/ ~entry.headerAgrees
     \/ End(entry) > archive.directory
     \/ entry.actual # entry.declared \/ ~entry.crcAgrees
     \/ \E j \in 1..(i - 1) :
          \/ archive.entries[j].name = entry.name
          \/ Start(entry) < End(archive.entries[j]) /\ End(entry) > Start(archive.entries[j])

EndIsValid(archive) ==
  /\ archive.endsExactly
  /\ archive.count = Len(archive.entries)

Names(archive) == {archive.entries[i].name : i \in DOMAIN archive.entries}

\* What preflight() may throw; nothing when it returns the parts.
PreflightErrors(archive) ==
  IF archive.size > CompressedBytes THEN {"guard_limit_exceeded"}
  ELSE IF ~EndIsValid(archive) THEN {"guard_invalid_workbook"}
  ELSE {e \in {"guard_limit_exceeded"} :
          \E i \in DOMAIN archive.entries : EntryIsTooLarge(archive, i)}
       \cup {e \in {"guard_invalid_workbook"} :
          \/ \E i \in DOMAIN archive.entries : EntryIsInvalid(archive, i)
          \/ ~(Required \subseteq Names(archive))}

\* A part is its name, the length of the name, and the length of the body.
Offset(parts, i) ==
  Sum([j \in 1..(i - 1) |-> LocalHeader + parts[j].names + parts[j].body])

DirectorySize(parts) == Sum([j \in DOMAIN parts |-> DirectoryHeader + parts[j].names])

TotalSize(parts) == Offset(parts, Len(parts) + 1) + DirectorySize(parts) + EndRecord

\* The write is refused as soon as a part would not fit.
WriteFails(parts) ==
  \/ \E i \in DOMAIN parts :
       Offset(parts, i) + parts[i].names + parts[i].body + LocalHeader > CompressedBytes
  \/ TotalSize(parts) > CompressedBytes

\* The archive that writeXlsx() makes: parts stored one after the other.
writeXlsx(parts) ==
  [size |-> TotalSize(parts), directory |-> Offset(parts, Len(parts) + 1),
   endsExactly |-> TRUE, count |-> Len(parts),
   entries |-> [i \in DOMAIN parts |->
     [name |-> parts[i].name, names |-> parts[i].names, nameIsSafe |-> TRUE,
      method |-> "stored", encrypted |-> FALSE, link |-> FALSE,
      headerAgrees |-> TRUE, crcAgrees |-> TRUE, offset |-> Offset(parts, i),
      compressed |-> parts[i].body, declared |-> parts[i].body,
      actual |-> parts[i].body]]]
=============================================================================
