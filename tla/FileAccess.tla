------------------------------ MODULE FileAccess ------------------------------
(****************************************************************************)
(* Who may find, read, share and remove a file: files.service.ts.  A file   *)
(* is a record of its document; `source` is the file a sanitized copy was   *)
(* derived from, or None.  An operation maps the documents to what they are *)
(* after it, and leaves them alone when it refuses.                         *)
(****************************************************************************)
EXTENDS Naturals, Sequences, FiniteSets, SequencesExt

None == "none"
IsOwner(actor) == actor.role = "company_owner"
Shared(f) == f.visibility \in {"company_wide", "missing"}

\* The filter of every query made for an actor.
accessFilter(actor, f) ==
  /\ f.company = actor.company
  /\ \/ IsOwner(actor)
     \/ Shared(f) \/ f.uploader = actor.id \/ actor.id \in f.readers

\* A copy is read only by who may still find its source, itself not a copy.
assertLineage(files, actor, f) ==
  f.source = None \/ \E s \in files : s.id = f.source /\ s.source = None /\ accessFilter(actor, s)

MayRead(files, actor, f) == accessFilter(actor, f) /\ assertLineage(files, actor, f)

MayChange(actor, f) == IsOwner(actor) \/ f.uploader = actor.id

------------------------------------------------------------------------------
(* Reading *)

\* A page of the newest files: it is cut before the lineage is looked at.
findAll(files, newestFirst, actor, query) ==
  LET take == IF query.take < 30 THEN query.take ELSE 30
      found == SelectSeq(newestFirst, LAMBDA f : accessFilter(actor, f))
      last == IF query.page * take < Len(found) THEN query.page * take ELSE Len(found)
  IN [total |-> Len(found),
      files |-> SelectSeq(SubSeq(found, (query.page - 1) * take + 1, last),
                          LAMBDA f : assertLineage(files, actor, f))]

findOne(files, actor, id) == {f \in files : f.id = id /\ MayRead(files, actor, f)}
download(files, actor, id) == findOne(files, actor, id)
\* What the guard may scan; a copy is never sanitized again.
processingSource(files, actor, id) ==
  {[file |-> f.id, derived |-> f.source # None] : f \in findOne(files, actor, id)}

publicMetadata(f) ==
  [id |-> f.id, uploader |-> f.uploader, readers |-> f.readers, source |-> f.source,
   visibility |-> IF Shared(f) THEN "company_wide" ELSE f.visibility]

------------------------------------------------------------------------------
(* Changing *)

\* Each named employee once, a member of the company, and some exactly if the file
\* is to be restricted.
validatePermissions(users, actor, visibility, named) ==
  /\ visibility \in {"company_wide", "restricted"}
  /\ IsInjective(named)
  /\ visibility = "restricted" <=> named # <<>>
  /\ \A i \in DOMAIN named :
       \E u \in users :
         u.id = named[i] /\ u.company = actor.company /\ u.role = "company_member"

upload(files, users, actor, id, visibility, named) ==
  IF validatePermissions(users, actor, visibility, named)
  THEN files \cup {[id |-> id, company |-> actor.company, uploader |-> actor.id,
                    visibility |-> visibility, readers |-> ToSet(named), source |-> None]}
  ELSE files

updatePermissions(files, users, actor, id, visibility, named) ==
  {IF /\ f.id = id /\ f.company = actor.company
      /\ MayChange(actor, f) /\ f.source = None
      /\ validatePermissions(users, actor, visibility, named)
   THEN [f EXCEPT !.visibility = visibility, !.readers = ToSet(named)]
   ELSE f : f \in files}

\* A copy needs no source to be removed.
delete(files, actor, id) ==
  {f \in files : ~(f.id = id /\ accessFilter(actor, f) /\ MayChange(actor, f))}

publishGuardCopy(files, actor, sourceId, copyId) ==
  IF \E s \in files : s.id = sourceId /\ s.source = None /\ accessFilter(actor, s)
  THEN files \cup {[id |-> copyId, company |-> actor.company, uploader |-> actor.id,
                    visibility |-> "restricted", readers |-> {actor.id},
                    source |-> sourceId]}
  ELSE files

------------------------------------------------------------------------------
Document ==
  [id : STRING, company : STRING, uploader : STRING, visibility : STRING,
   readers : SUBSET STRING, source : STRING]

Free(files, id) == id # None /\ \A f \in files : f.id # id

\* Every result of an operation that an actor asks for.
Results(files, users, actor, ids, namings) ==
  LET new == {id \in ids : Free(files, id)}
      shares == {"company_wide", "restricted"}
  IN {files} \cup {delete(files, actor, id) : id \in ids}
     \cup {updatePermissions(files, users, actor, id, v, n) : id \in ids, v \in shares, n \in namings}
     \cup {upload(files, users, actor, id, v, n) : id \in new, v \in shares, n \in namings}
     \cup {publishGuardCopy(files, actor, s, c) : s \in ids, c \in new}

IsOneEach(files) == \A f, g \in files : f.id = g.id => f = g

\* A copy is shared with nobody but who asked for it.
CopiesArePrivate(files) ==
  \A f \in files :
    f.source # None => f.visibility = "restricted" /\ f.readers = {f.uploader}

\* A reader finds no copy of this file, not even one that reader asked for.
NoCopyIsFound(files, s, reader) ==
  \A f \in files : f.source = s.id => findOne(files, reader, f.id) = {}

\* Who removes a file, or narrows it to `named`, takes its copies from everybody who
\* lost the file.
WithdrawsCopies(files, users, actor, s, named, reader) ==
  /\ NoCopyIsFound(delete(files, actor, s.id), s, reader)
  /\ /\ validatePermissions(users, actor, "restricted", named)
     /\ reader.id \notin ToSet(named) \cup {s.uploader} /\ ~IsOwner(reader)
     => NoCopyIsFound(updatePermissions(files, users, actor, s.id, "restricted", named), s, reader)

\* What an actor changes is a file of the company that the actor may change.
ChangesAreAllowed(files, actor, after) ==
  /\ \A f \in files \ after : f.company = actor.company /\ MayChange(actor, f)
  /\ \A f \in after \ files : f.company = actor.company /\ MayChange(actor, f)
==============================================================================
