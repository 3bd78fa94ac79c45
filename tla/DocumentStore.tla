----------------------------- MODULE DocumentStore -----------------------------
(***************************************************************************)
(* The documents of one tenant: uploads and their replacement candidates,  *)
(* version chains, moves and deletions, the folders they are in, the       *)
(* storage quotas, and the bucket that holds the files.                    *)
(*                                                                         *)
(* A row and its storageKey are made by one upload, so both are named by   *)
(* the row.  An owner is a Business, with one category: findConflict and   *)
(* the folder checks compare both.  Files have one size.  Access scopes    *)
(* only refuse; approval and sharing read and write nothing used here.     *)
(***************************************************************************)
EXTENDS Naturals, FiniteSets

CONSTANTS
    Docs,           \* rows that may be created (bound)
    Folders,        \* folders that may be created (bound)
    Owners,         \* Businesses, each with a category
    Names,          \* file and folder names
    Requests,       \* requests in flight (bound)
    BusinessQuota,  \* files an owner may hold, storageQuotaMb
    TenantQuota,    \* files the tenant may hold, maxStorageGb
    None

ASSUME NamesAssumption == /\ None \notin Docs \union Folders \union Owners \union Names
                          /\ Docs \intersect Folders = {}
ASSUME RequestsAssumption == IsFiniteSet(Requests) /\ Requests # {}
ASSUME DocsAssumption == IsFiniteSet(Docs)
ASSUME QuotaAssumption == BusinessQuota \in Nat /\ TenantQuota \in Nat

VARIABLES
    docs,      \* documents
    folders,   \* document_folders
    bucket,    \* storage keys with an object
    calls,     \* requests in flight
    slipped    \* observation: rows put in a folder that a deletion overtook

vars == <<docs, folders, bucket, calls, slipped>>

-----------------------------------------------------------------------------
(* previousVersionId is prev, rootDocumentId ?? id is root.                  *)
Document == [state : {"absent", "live", "deleted"}, owner : Owners \union {None},
             folder : Folders \union {None}, name : Names \union {None},
             version : Nat, latest : {"yes", "no"}, prev : Docs \union {None},
             root : Docs \union {None}]

Folder == [state : {"absent", "live", "deleted"}, owner : Owners \union {None},
           parent : Folders \union {None}, name : Names \union {None}]

Steps == {"idle", "limits", "compare", "insert", "move",
          "retag", "make", "rename", "drop"}

(* What a request has read and been told: the row it works on (base, of the  *)
(* version and root read), where it puts its row, and on which terms.        *)
Call == [step : Steps, base : Docs \union {None},
         doc : Docs \union {None}, folder : Folders \union {None},
         owner : Owners \union {None}, into : Folders \union {None},
         name : Names \union {None}]

NoDoc == [state |-> "absent", owner |-> None, folder |-> None, name |-> None,
          version |-> 0, latest |-> "no", prev |-> None, root |-> None]
NoFolder == [state |-> "absent", owner |-> None, parent |-> None, name |-> None]
Idle == [step |-> "idle", base |-> None, doc |-> None,
         folder |-> None, owner |-> None, into |-> None, name |-> None]

TypeOK == /\ docs \in [Docs -> Document]
          /\ folders \in [Folders -> Folder]
          /\ bucket \subseteq Docs
          /\ calls \in [Requests -> Call]
          /\ slipped \subseteq Docs \union Folders

Init == /\ docs = [d \in Docs |-> NoDoc]
        /\ folders = [f \in Folders |-> NoFolder]
        /\ bucket = {}
        /\ calls = [r \in Requests |-> Idle]
        /\ slipped = {}

-----------------------------------------------------------------------------
Live(d) == docs[d].state = "live"
Held == {d \in Docs : Live(d)}
HeldBy(b) == {d \in Held : docs[d].owner = b}
Reply(r) == calls' = [calls EXCEPT ![r] = Idle]
Step(r, s) == calls' = [calls EXCEPT ![r].step = s]

(* resolveFolderConsistency: a folder is live and of the document's owner.   *)
FolderFits(f, b) == f # None => /\ folders[f].state = "live"
                                /\ folders[f].owner = b

(* A row put in folder f slips by a deletion that has found f empty already. *)
Overtaken(f) == /\ f # None
                /\ \/ folders[f].state # "live"
                   \/ \E r \in Requests : calls[r].step = "drop" /\ calls[r].folder = f
Placed(x, f) == slipped' = IF Overtaken(f) THEN slipped \union {x} ELSE slipped \ {x}

-----------------------------------------------------------------------------
(* uploadDocument, up to the folder it resolves.                             *)
BeginUpload(r, b, f, n) ==
    /\ calls[r].step = "idle"
    /\ FolderFits(f, b)
    /\ calls' = [calls EXCEPT ![r] =
         [Idle EXCEPT !.step = "limits", !.owner = b, !.into = f, !.name = n]]
    /\ UNCHANGED <<docs, folders, bucket, slipped>>

(* createVersion reads the row it replaces, whichever version that is, and   *)
(* copies what it read into the new row.                                     *)
BeginVersion(r, d, n) ==
    /\ calls[r].step = "idle"
    /\ Live(d)
    /\ calls' = [calls EXCEPT ![r] =
         [Idle EXCEPT !.step = "limits", !.base = d, !.name = n,
                      !.owner = docs[d].owner, !.into = docs[d].folder]]
    /\ UNCHANGED <<docs, folders, bucket, slipped>>

(* Variant: usage compared without the file that arrives.                    *)
UnderLimits(b) == Cardinality(HeldBy(b)) <= BusinessQuota /\ Cardinality(Held) <= TenantQuota
(* assertUploadAllowed: live sums, of the business and of the tenant.        *)
WithinLimits(b) == /\ Cardinality(HeldBy(b)) + 1 <= BusinessQuota
                   /\ Cardinality(Held) + 1 <= TenantQuota

(* The object is written under a new random key, before any row; no read     *)
(* depends on it, so the write is part of the step before the insert.        *)
Unused == {d \in Docs : d \notin bucket /\ docs[d].state = "absent"}
Stored(d) == bucket' = bucket \union {d}
Store(r, b) == \E d \in Unused :
    /\ Stored(d)
    /\ calls' = [calls EXCEPT ![r].step = "insert", ![r].doc = d, ![r].base = b]

CheckLimits(r) ==
    /\ calls[r].step = "limits"
    /\ \/ ~WithinLimits(calls[r].owner) /\ Reply(r) /\ UNCHANGED bucket
       \/ /\ WithinLimits(calls[r].owner)
          /\ IF calls[r].base # None THEN Store(r, calls[r].base)
             ELSE Step(r, "compare") /\ UNCHANGED bucket
    /\ UNCHANGED <<docs, folders, slipped>>

(* findConflict: a latest version of that name in that place, which is       *)
(* replaced only when the caller asked for it (dto.createVersion).           *)
Candidates(b, f, n) ==
    {d \in Held : /\ docs[d].owner = b /\ docs[d].folder = f
                  /\ docs[d].name = n /\ docs[d].latest = "yes"}

FindConflict(r) ==
    LET found == Candidates(calls[r].owner, calls[r].into, calls[r].name) IN
    /\ calls[r].step = "compare"
    /\ \/ found = {} /\ Store(r, None)
       \/ found # {} /\ Reply(r) /\ UNCHANGED bucket
       \/ \E d \in found : Store(r, d)
    /\ UNCHANGED <<docs, folders, slipped>>

NewRow(r, v, prev, root) ==
    [state |-> "live", owner |-> calls[r].owner, folder |-> calls[r].into,
     name |-> calls[r].name, version |-> v, latest |-> "yes", prev |-> prev, root |-> root]

InsertFirst(r) ==
    /\ calls[r].step = "insert"
    /\ calls[r].base = None
    /\ docs' = [docs EXCEPT ![calls[r].doc] = NewRow(r, 1, None, calls[r].doc)]
    /\ Placed(calls[r].doc, calls[r].into)
    /\ Reply(r)
    /\ UNCHANGED <<folders, bucket>>

(* previousVersionId is unique, over deleted rows too.                       *)
Replaced(d) == \E e \in Docs : docs[e].prev = d

(* Variant: on the root of the chain.                                        *)
DemotedRoot(b) == [docs EXCEPT ![docs[b].root].latest = "no"]
(* isLatestVersion is cleared on the base, unless it has been deleted.       *)
Demoted(b) == IF Live(b) THEN [docs EXCEPT ![b].latest = "no"] ELSE docs

(* Variant: the two statements without a transaction.                        *)
InsertVersionUnwrapped(r) ==
    LET b == calls[r].base  d == calls[r].doc IN
    /\ calls[r].step = "insert"
    /\ b # None
    /\ ~Replaced(b)
    /\ \/ docs' = Demoted(b) /\ UNCHANGED slipped
       \/ /\ docs' = [Demoted(b) EXCEPT ![d] = NewRow(r, docs[b].version + 1, b, docs[b].root)]
          /\ Placed(d, calls[r].into)
    /\ Reply(r)
    /\ UNCHANGED <<folders, bucket>>

(* createVersionFromExisting's transaction.                                  *)
InsertVersion(r) ==
    LET b == calls[r].base  d == calls[r].doc IN
    /\ calls[r].step = "insert"
    /\ b # None
    /\ ~Replaced(b)
    /\ docs' = [Demoted(b) EXCEPT ![d] = NewRow(r, docs[b].version + 1, b, docs[b].root)]
    /\ Placed(d, calls[r].into)
    /\ Reply(r)
    /\ UNCHANGED <<folders, bucket>>

(* P2002 rolls the transaction back; the object stays.                       *)
RefuseVersion(r) ==
    /\ calls[r].step = "insert"
    /\ calls[r].base # None
    /\ Replaced(calls[r].base)
    /\ Reply(r)
    /\ UNCHANGED <<docs, folders, bucket, slipped>>

-----------------------------------------------------------------------------
(* updateDocument checks the folder, not the quotas, and writes one version. *)
(* The folder it checks is the one sent or, when none is, the one it read.   *)
BeginMove(r, d, b, f) ==
    /\ calls[r].step = "idle"
    /\ Live(d)
    /\ FolderFits(f, b)
    /\ calls' = [calls EXCEPT ![r] =
         [Idle EXCEPT !.step = "move", !.base = d, !.owner = b, !.into = f]]
    /\ UNCHANGED <<docs, folders, bucket, slipped>>

BeginRetag(r, d, b) ==
    /\ calls[r].step = "idle"
    /\ Live(d)
    /\ FolderFits(docs[d].folder, b)
    /\ calls' = [calls EXCEPT ![r] = [Idle EXCEPT !.step = "retag", !.base = d, !.owner = b]]
    /\ UNCHANGED <<docs, folders, bucket, slipped>>

Move(r) ==
    LET d == calls[r].base IN
    /\ calls[r].step = "move"
    /\ IF Live(d)
       THEN /\ docs' = [docs EXCEPT ![d] = [@ EXCEPT !.owner = calls[r].owner,
                                                     !.folder = calls[r].into]]
            /\ Placed(d, calls[r].into)
       ELSE UNCHANGED <<docs, slipped>>
    /\ Reply(r)
    /\ UNCHANGED <<folders, bucket>>

(* businessId is always written, the folder only when the request sent one:  *)
(* the row keeps the folder it has by then, whatever was checked.            *)
Retag(r) ==
    LET d == calls[r].base IN
    /\ calls[r].step = "retag"
    /\ docs' = IF Live(d) THEN [docs EXCEPT ![d].owner = calls[r].owner] ELSE docs
    /\ Reply(r)
    /\ UNCHANGED <<folders, bucket, slipped>>

(* Reads the row, and writes only where deletedAt is null.  The object stays.*)
DeleteDocument(d) ==
    /\ Live(d)
    /\ docs' = [docs EXCEPT ![d].state = "deleted"]
    /\ UNCHANGED <<folders, bucket, calls, slipped>>

-----------------------------------------------------------------------------
Siblings(b, p, n) ==
    {f \in Folders : /\ folders[f].owner = b /\ folders[f].parent = p
                     /\ folders[f].name = n}

(* assertNoSiblingNameCollision, among live siblings but the folder itself.  *)
Collides(b, p, n, f) == \E g \in Siblings(b, p, n) \ {f} : folders[g].state = "live"

(* createFolder's reads: the parent, then its children.                      *)
BeginFolder(r, b, p, n) ==
    /\ calls[r].step = "idle"
    /\ FolderFits(p, b)
    /\ ~Collides(b, p, n, None)
    /\ calls' = [calls EXCEPT ![r] =
         [Idle EXCEPT !.step = "make", !.owner = b, !.into = p, !.name = n]]
    /\ UNCHANGED <<docs, folders, bucket, slipped>>

BeginRename(r, f, n) ==
    /\ calls[r].step = "idle"
    /\ folders[f].state = "live"
    /\ ~Collides(folders[f].owner, folders[f].parent, n, f)
    /\ calls' = [calls EXCEPT ![r] =
         [Idle EXCEPT !.step = "rename", !.folder = f, !.owner = folders[f].owner,
                      !.into = folders[f].parent, !.name = n]]
    /\ UNCHANGED <<docs, folders, bucket, slipped>>

(* uq_folder_sibling_name counts deleted rows, and no two null parents.      *)
NameTaken(r) == /\ calls[r].into # None
                /\ Siblings(calls[r].owner, calls[r].into, calls[r].name)
                     \ {calls[r].folder} # {}

MakeFolder(r) ==
    /\ calls[r].step = "make"
    /\ IF NameTaken(r)
       THEN UNCHANGED <<folders, slipped>>
       ELSE \E f \in {g \in Folders : folders[g].state = "absent"} :
              /\ folders' = [folders EXCEPT ![f] =
                   [state |-> "live", owner |-> calls[r].owner,
                    parent |-> calls[r].into, name |-> calls[r].name]]
              /\ Placed(f, calls[r].into)
    /\ Reply(r)
    /\ UNCHANGED <<docs, bucket>>

RenameFolder(r) ==
    LET f == calls[r].folder IN
    /\ calls[r].step = "rename"
    /\ folders' = IF NameTaken(r) \/ folders[f].state # "live" THEN folders
                  ELSE [folders EXCEPT ![f].name = calls[r].name]
    /\ Reply(r)
    /\ UNCHANGED <<docs, bucket, slipped>>

(* Variant: of folders only.                                                 *)
EmptyOfFolders(f) == \A g \in Folders : folders[g].state = "live" => folders[g].parent # f

(* deleteFolder's hasChildFolders and hasDocuments.                          *)
Empty(f) == /\ \A d \in Held : docs[d].folder # f
            /\ \A g \in Folders : folders[g].state = "live" => folders[g].parent # f

BeginDrop(r, f) ==
    /\ calls[r].step = "idle"
    /\ folders[f].state = "live"
    /\ Empty(f)
    /\ calls' = [calls EXCEPT ![r] = [Idle EXCEPT !.step = "drop", !.folder = f]]
    /\ UNCHANGED <<docs, folders, bucket, slipped>>

DropFolder(r) ==
    LET f == calls[r].folder IN
    /\ calls[r].step = "drop"
    /\ folders' = IF folders[f].state = "live"
                  THEN [folders EXCEPT ![f].state = "deleted"] ELSE folders
    /\ Reply(r)
    /\ UNCHANGED <<docs, bucket, slipped>>

(* The insert fails, or the process dies before it: the object stays.  A     *)
(* request that stops anywhere else leaves nothing behind.                   *)
Fail(r) ==
    /\ calls[r].step = "insert"
    /\ Reply(r)
    /\ UNCHANGED <<docs, folders, bucket, slipped>>

-----------------------------------------------------------------------------
Work(r) ==
    \/ CheckLimits(r) \/ FindConflict(r)
    \/ InsertFirst(r) \/ InsertVersion(r) \/ RefuseVersion(r)
    \/ Move(r) \/ Retag(r) \/ MakeFolder(r) \/ RenameFolder(r)
    \/ DropFolder(r) \/ Fail(r)

Begin(r) ==
    \/ \E b \in Owners, n \in Names :
         \/ \E f \in Folders \union {None} :
              \/ BeginUpload(r, b, f, n)
              \/ BeginFolder(r, b, f, n)
         \/ \E d \in Docs : \/ \E f \in Folders \union {None} : BeginMove(r, d, b, f)
                         \/ BeginRetag(r, d, b)
    \/ \E d \in Docs, n \in Names : BeginVersion(r, d, n)
    \/ \E f \in Folders : BeginDrop(r, f) \/ \E n \in Names : BeginRename(r, f, n)

Next == (\E r \in Requests : Begin(r) \/ Work(r)) \/ (\E d \in Docs : DeleteDocument(d))

Spec == Init /\ [][Next]_vars

-----------------------------------------------------------------------------
Rows == {d \in Docs : docs[d].state # "absent"}
Family(d) == {e \in Rows : docs[e].root = docs[d].root}
Newest(d) == \A e \in Docs : docs[e].prev # d

(* A live row is the latest version exactly when no version replaces it, and *)
(* no reader sees two latest versions of one document, as the comment above  *)
(* createVersionFromExisting promises: though both callers read their base   *)
(* before the transaction, previousVersionId keeps two uploads over one base *)
(* from both committing.                                                     *)
OneLatestVersion ==
    \A d \in Held : /\ docs[d].latest = "yes" <=> Newest(d)
                    /\ docs[d].latest = "yes" =>
                         \A e \in Family(d) \intersect Held : docs[e].latest = "yes" => e = d

(* A family with live rows and no latest one has lost its newest version to  *)
(* a deletion; nothing else leaves readers without a current version.        *)
HeadLostByDeletion ==
    \A d \in Held :
        (\A e \in Family(d) \intersect Held : docs[e].latest = "no") =>
            \E e \in Family(d) : /\ docs[e].state = "deleted"
                                 /\ \A x \in Family(d) : docs[x].version <= docs[e].version

(* A row's object is in the bucket: uploadDocument writes no row before the  *)
(* object, and nothing deletes one.                                          *)
RowHasObject == Rows \subseteq bucket

(* Uploads that have passed the quota and not yet inserted their row.        *)
Passed == {r \in Requests : calls[r].step \in {"compare", "insert"}}

(* The tenant's quota is checked against a sum read before the insert, and   *)
(* no lock is held in between: the rows exceed it by fewer files than there  *)
(* are requests, whatever versions, moves and deletions come between.        *)
OvershootBounded ==
    Cardinality(Held) + Cardinality(Passed) < TenantQuota + Cardinality(Requests)

(* A live row in a deleted folder was put there beside the deletion: the     *)
(* emptiness check sees every row that was there before it.                  *)
OrphansWereOvertaken ==
    /\ \A d \in Held : docs[d].folder # None /\ folders[docs[d].folder].state = "deleted"
                         => d \in slipped
    /\ \A f \in Folders :
         (/\ folders[f].state = "live" /\ folders[f].parent # None
          /\ folders[folders[f].parent].state = "deleted") => f \in slipped
=============================================================================
