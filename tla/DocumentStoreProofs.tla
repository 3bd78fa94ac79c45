-------------------------- MODULE DocumentStoreProofs --------------------------
(***************************************************************************)
(* Theorems about DocumentStore, for any number of documents, folders,     *)
(* owners and requests and any quotas.                                     *)
(***************************************************************************)
EXTENDS DocumentStore, TLAPS, FiniteSetTheorems

(* The inductive invariant.                                                  *)

(* An upload about to insert owns a stored object without a row; what a      *)
(* request works on is a row.                                                *)
CallsAreSound ==
    \A r \in Requests :
        /\ calls[r].base # None => calls[r].base \in Rows
        /\ calls[r].step = "insert" =>
             /\ calls[r].doc \in bucket \ Rows
             /\ \A q \in Requests : calls[q].step = "insert" /\ calls[q].doc = calls[r].doc => q = r
        /\ calls[r].step \in {"move", "retag"} => calls[r].base # None
        /\ calls[r].step \in {"rename", "drop"} => calls[r].folder \in Folders

(* A version follows its predecessor by one, in the predecessor's family.    *)
ChainsAreSound ==
    \A d \in Docs :
        /\ d \notin Rows => docs[d].prev = None
        /\ d \in Rows => docs[d].root \in Rows
        /\ docs[d].prev # None =>
             LET p == docs[d].prev IN
             /\ p \in Rows
             /\ docs[d].version = docs[p].version + 1 /\ docs[d].root = docs[p].root

(* A family is one line: versions differ, and every version but the newest   *)
(* has been replaced.                                                        *)
FamiliesAreLines ==
    \A d \in Rows :
        /\ \A e \in Family(d) : /\ docs[e].version = docs[d].version => e = d
                                /\ docs[e].version > docs[d].version => ~Newest(d)
        /\ \E e \in Family(d) : Newest(e)
        /\ \A e, x \in Rows : docs[e].prev = d /\ docs[x].prev = d => e = x

LatestIsNewest == \A d \in Held : docs[d].latest = "yes" <=> Newest(d)

(* What is in a folder that a deletion has found empty slipped in since.     *)
DropsAreSound ==
    \A r \in Requests : calls[r].step = "drop" =>
        /\ \A d \in Held : docs[d].folder = calls[r].folder => d \in slipped
        /\ \A f \in Folders :
             folders[f].state = "live" /\ folders[f].parent = calls[r].folder => f \in slipped

IInv == /\ TypeOK
        /\ RowHasObject
        /\ CallsAreSound
        /\ ChainsAreSound
        /\ FamiliesAreLines
        /\ LatestIsNewest
        /\ DropsAreSound
        /\ OrphansWereOvertaken

-----------------------------------------------------------------------------

(* What the types say of the fields a step copies. *)
LEMMA Fields ==
  ASSUME TypeOK
  PROVE  /\ \A d \in Docs : /\ docs[d].owner \in Owners \union {None}
                            /\ docs[d].folder \in Folders \union {None}
                            /\ docs[d].name \in Names \union {None}
                            /\ docs[d].version \in Nat
                            /\ docs[d].prev \in Docs \union {None}
                            /\ docs[d].root \in Docs \union {None}
         /\ \A f \in Folders : /\ folders[f].owner \in Owners \union {None}
                               /\ folders[f].parent \in Folders \union {None}
         /\ \A r \in Requests : /\ calls[r].step \in Steps
                                /\ calls[r].base \in Docs \union {None}
                                /\ calls[r].doc \in Docs \union {None}
                                /\ calls[r].folder \in Folders \union {None}
                                /\ calls[r].owner \in Owners \union {None}
                                /\ calls[r].into \in Folders \union {None}
                                /\ calls[r].name \in Names \union {None}
  BY DEF TypeOK, Document, Folder, Call

LEMMA Ended ==
  ASSUME TypeOK, NEW r \in Requests, Reply(r)
  PROVE  /\ calls' \in [Requests -> Call]
         /\ calls'[r] = Idle
         /\ \A q \in Requests \ {r} : calls'[q] = calls[q]
  BY NamesAssumption DEF Reply, Idle, Call, Steps, TypeOK

LEMMA Stores ==
  ASSUME TypeOK, NEW r \in Requests, NEW b \in Docs \union {None}, Store(r, b)
  PROVE  /\ calls' \in [Requests -> Call]
         /\ \E d \in Docs : /\ d \notin bucket /\ docs[d].state = "absent"
                            /\ bucket' = bucket \union {d}
                            /\ calls'[r].doc = d
         /\ calls'[r].step = "insert" /\ calls'[r].base = b
         /\ \A q \in Requests \ {r} : calls'[q] = calls[q]
<1>1. PICK d \in Docs : /\ d \notin bucket /\ docs[d].state = "absent"
                        /\ bucket' = bucket \union {d}
                        /\ calls' = [calls EXCEPT ![r].step = "insert", ![r].doc = d, ![r].base = b]
  BY DEF Store, Unused, Stored
<1> DEFINE c == [calls[r] EXCEPT !.step = "insert", !.doc = d, !.base = b]
<1>2. calls[r] \in Call
  BY DEF TypeOK
<1>3. c \in Call /\ c.step = "insert" /\ c.doc = d /\ c.base = b
  BY <1>2 DEF Call, Steps
<1>4. calls' = [calls EXCEPT ![r] = c]
  BY <1>1, <1>2 DEF TypeOK
<1> QED
  BY <1>1, <1>3, <1>4 DEF TypeOK

LEMMA Placing ==
  ASSUME TypeOK, NEW x, NEW f, Placed(x, f)
  PROVE  /\ \A y : y # x => (y \in slipped' <=> y \in slipped)
         /\ slipped' \subseteq slipped \union {x}
         /\ f # None /\ folders[f].state # "live" => x \in slipped'
         /\ \A r \in Requests : f # None /\ calls[r].step = "drop" /\ calls[r].folder = f
                               => x \in slipped'
  BY DEF Placed, Overtaken

(* A new row: the row of the object the request stored, and nothing else. *)
LEMMA Inserting ==
  ASSUME TypeOK, CallsAreSound, NEW r \in Requests, calls[r].step = "insert"
  PROVE  /\ calls[r].doc \in Docs /\ calls[r].doc \in bucket /\ docs[calls[r].doc].state = "absent"
         /\ calls[r].base # None => calls[r].base \in Docs /\ docs[calls[r].base].state # "absent"
         /\ \A q \in Requests : calls[q].step = "insert" /\ calls[q].doc = calls[r].doc => q = r
  BY Fields DEF CallsAreSound, Rows, TypeOK

LEMMA FirstRow ==
  ASSUME TypeOK, NEW r \in Requests, InsertFirst(r), calls[r].doc \in Docs
  PROVE  LET d == calls[r].doc IN
         /\ docs' \in [Docs -> Document]
         /\ docs'[d] = NewRow(r, 1, None, d)
         /\ \A x \in Docs \ {d} : docs'[x] = docs[x]
<1>1. NewRow(r, 1, None, calls[r].doc) \in Document
  BY Fields DEF NewRow, Document
<1> QED
  BY <1>1 DEF InsertFirst, TypeOK

LEMMA VersionRow ==
  ASSUME TypeOK, NEW r \in Requests, InsertVersion(r), calls[r].doc \in Docs,
         calls[r].base \in Docs, calls[r].base # calls[r].doc
  PROVE  LET d == calls[r].doc  b == calls[r].base IN
         /\ docs' \in [Docs -> Document]
         /\ docs'[d] = NewRow(r, docs[b].version + 1, b, docs[b].root)
         /\ \A x \in Docs \ {d} :
              /\ docs'[x].state = docs[x].state /\ docs'[x].folder = docs[x].folder
              /\ docs'[x].version = docs[x].version /\ docs'[x].prev = docs[x].prev
              /\ docs'[x].root = docs[x].root
              /\ docs'[x].latest = IF x = b /\ docs[b].state = "live" THEN "no" ELSE docs[x].latest
<1> DEFINE d == calls[r].doc
           b == calls[r].base
           w == NewRow(r, docs[b].version + 1, b, docs[b].root)
           o == [docs[b] EXCEPT !.latest = "no"]
<1>1. w \in Document
  BY Fields DEF NewRow, Document
<1>2. /\ docs[b] \in Document /\ o \in Document /\ o.latest = "no"
      /\ o.state = docs[b].state /\ o.folder = docs[b].folder /\ o.version = docs[b].version
      /\ o.prev = docs[b].prev /\ o.root = docs[b].root
  BY DEF TypeOK, Document
<1>3. docs' = IF docs[b].state = "live" THEN [[docs EXCEPT ![b] = o] EXCEPT ![d] = w]
              ELSE [docs EXCEPT ![d] = w]
  BY DEF InsertVersion, Demoted, Live, TypeOK
<1>4. docs' \in [Docs -> Document]
  BY <1>1, <1>2, <1>3 DEF TypeOK
<1>5. docs'[d] = w
  BY <1>3 DEF TypeOK
<1>6. \A x \in Docs \ {d, b} : docs'[x] = docs[x]
  BY <1>3 DEF TypeOK
<1>7. docs'[b] = IF docs[b].state = "live" THEN o ELSE docs[b]
  BY <1>3 DEF TypeOK
<1> QED
  BY <1>2, <1>4, <1>5, <1>6, <1>7

LEMMA Moved ==
  ASSUME TypeOK, CallsAreSound, NEW r \in Requests, Move(r)
  PROVE  LET d == calls[r].base IN
         /\ d \in Docs
         /\ docs' \in [Docs -> Document]
         /\ \A x \in Docs : /\ docs'[x].state = docs[x].state /\ docs'[x].latest = docs[x].latest
                            /\ docs'[x].version = docs[x].version /\ docs'[x].prev = docs[x].prev
                            /\ docs'[x].root = docs[x].root
                            /\ x # d => docs'[x].folder = docs[x].folder
         /\ docs[d].state = "live" => docs'[d].folder = calls[r].into
<1> DEFINE d == calls[r].base
           w == [docs[d] EXCEPT !.owner = calls[r].owner, !.folder = calls[r].into]
<1>1. d \in Docs
  BY Fields DEF Move, CallsAreSound
<1>2. /\ docs[d] \in Document /\ w \in Document /\ w.folder = calls[r].into
      /\ w.state = docs[d].state /\ w.latest = docs[d].latest /\ w.version = docs[d].version
      /\ w.prev = docs[d].prev /\ w.root = docs[d].root
  <2>1. docs[d] \in Document
    BY <1>1 DEF TypeOK
  <2>2. calls[r].owner \in Owners \union {None} /\ calls[r].into \in Folders \union {None}
    BY Fields
  <2> QED
    BY <2>1, <2>2 DEF Document
<1>3. docs' = IF docs[d].state = "live" THEN [docs EXCEPT ![d] = w] ELSE docs
  BY DEF Move, Live
<1> QED
  BY <1>1, <1>2, <1>3 DEF TypeOK

(* An update without a folder changes the owner of one row and nothing else. *)
LEMMA Retagged ==
  ASSUME TypeOK, CallsAreSound, NEW r \in Requests, Retag(r)
  PROVE  /\ docs' \in [Docs -> Document]
         /\ \A x \in Docs : /\ docs'[x].state = docs[x].state /\ docs'[x].latest = docs[x].latest
                            /\ docs'[x].version = docs[x].version /\ docs'[x].prev = docs[x].prev
                            /\ docs'[x].root = docs[x].root /\ docs'[x].folder = docs[x].folder
<1> DEFINE d == calls[r].base
           w == [docs[d] EXCEPT !.owner = calls[r].owner]
<1>1. d \in Docs
  BY Fields DEF Retag, CallsAreSound
<1>2. /\ docs[d] \in Document /\ w \in Document /\ w.folder = docs[d].folder
      /\ w.state = docs[d].state /\ w.latest = docs[d].latest /\ w.version = docs[d].version
      /\ w.prev = docs[d].prev /\ w.root = docs[d].root
  <2>1. docs[d] \in Document
    BY <1>1 DEF TypeOK
  <2>2. calls[r].owner \in Owners \union {None}
    BY Fields
  <2> QED
    BY <2>1, <2>2 DEF Document
<1>3. docs' = IF docs[d].state = "live" THEN [docs EXCEPT ![d] = w] ELSE docs
  BY DEF Retag, Live
<1> QED
  BY <1>1, <1>2, <1>3 DEF TypeOK

LEMMA FolderMade ==
  ASSUME TypeOK, NEW r \in Requests, MakeFolder(r)
  PROVE  \/ UNCHANGED <<folders, slipped>>
         \/ \E f \in Folders :
              /\ folders[f].state = "absent"
              /\ folders' = [folders EXCEPT ![f] = [state |-> "live", owner |-> calls[r].owner,
                                                   parent |-> calls[r].into, name |-> calls[r].name]]
              /\ Placed(f, calls[r].into)
  BY DEF MakeFolder

(* A folder renamed or deleted keeps its parent. *)
LEMMA FolderChanged ==
  ASSUME TypeOK, CallsAreSound, NEW r \in Requests, RenameFolder(r) \/ DropFolder(r)
  PROVE  /\ folders' \in [Folders -> Folder]
         /\ \A f \in Folders :
              /\ folders'[f].parent = folders[f].parent
              /\ folders'[f].state = folders[f].state
                   \/ /\ folders[f].state = "live" /\ folders'[f].state = "deleted"
                      /\ calls[r].step = "drop" /\ f = calls[r].folder
<1> DEFINE g == calls[r].folder
           w == [folders[g] EXCEPT !.name = calls[r].name]
           o == [folders[g] EXCEPT !.state = "deleted"]
<1>1. g \in Folders
  BY DEF RenameFolder, DropFolder, CallsAreSound
<1>2. /\ folders[g] \in Folder /\ w \in Folder /\ o \in Folder
      /\ w.parent = folders[g].parent /\ o.parent = folders[g].parent
      /\ w.state = folders[g].state /\ o.state = "deleted"
  BY <1>1, Fields DEF TypeOK, Folder
<1>3. CASE RenameFolder(r)
  <2>1. folders' = folders \/ folders' = [folders EXCEPT ![g] = w]
    BY <1>3 DEF RenameFolder
  <2> QED
    BY <1>1, <1>2, <2>1 DEF TypeOK
<1>4. CASE DropFolder(r)
  <2>1. folders' = folders \/ (folders[g].state = "live" /\ folders' = [folders EXCEPT ![g] = o])
    BY <1>4 DEF DropFolder
  <2> QED
    BY <1>1, <1>2, <1>4, <2>1 DEF TypeOK, DropFolder
<1> QED
  BY <1>3, <1>4

LEMMA InitialTypes == Init => TypeOK
  BY NamesAssumption DEF Init, TypeOK, Document, Folder, Call, Steps, NoDoc, NoFolder, Idle

LEMMA StepKeepsTypes == TypeOK /\ CallsAreSound /\ [Next]_vars => TypeOK'
<1> SUFFICES ASSUME TypeOK, CallsAreSound, [Next]_vars PROVE TypeOK'
  OBVIOUS
<1> USE NamesAssumption
        DEF TypeOK
<1>1. ASSUME NEW r \in Requests, NEW b \in Owners, NEW f \in Folders \union {None}, NEW n \in Names, BeginUpload(r, b, f, n) PROVE TypeOK'
  BY <1>1 DEF BeginUpload, Idle, Call, Steps
<1>2. ASSUME NEW r \in Requests, NEW d \in Docs, NEW n \in Names, BeginVersion(r, d, n) PROVE TypeOK'
  <2>1. [Idle EXCEPT !.step = "limits", !.base = d, !.name = n,
                     !.owner = docs[d].owner, !.into = docs[d].folder] \in Call
    BY Fields DEF Idle, Call, Steps
  <2> QED
    BY <1>2, <2>1 DEF BeginVersion
<1>3. ASSUME NEW r \in Requests, CheckLimits(r) PROVE TypeOK'
  <2>1. CASE Reply(r) /\ UNCHANGED bucket
    BY <1>3, <2>1, Ended DEF CheckLimits
  <2>2. CASE Store(r, calls[r].base)
    BY <1>3, <2>2, Stores, Fields DEF CheckLimits
  <2>3. CASE Step(r, "compare") /\ UNCHANGED bucket
    <3>1. [calls[r] EXCEPT !.step = "compare"] \in Call
      BY DEF Call, Steps
    <3> QED
      BY <1>3, <2>3, <3>1 DEF CheckLimits, Step
  <2> QED
    BY <1>3, <2>1, <2>2, <2>3 DEF CheckLimits
<1>4. ASSUME NEW r \in Requests, FindConflict(r) PROVE TypeOK'
  <2>1. CASE Reply(r) /\ UNCHANGED bucket
    BY <1>4, <2>1, Ended DEF FindConflict
  <2>2. ASSUME NEW d \in Docs \union {None}, Store(r, d) PROVE TypeOK'
    BY <1>4, <2>2, Stores DEF FindConflict
  <2> QED
    BY <1>4, <2>1, <2>2 DEF FindConflict, Candidates, Held
<1>5. ASSUME NEW r \in Requests, InsertFirst(r) PROVE TypeOK'
  <2>1. calls[r].doc \in Docs
    BY <1>5, Inserting DEF InsertFirst
  <2>2. docs' \in [Docs -> Document] /\ calls' \in [Requests -> Call]
    BY <1>5, <2>1, FirstRow, Ended DEF InsertFirst
  <2>3. slipped' \subseteq slipped \union {calls[r].doc}
    BY <1>5, Placing DEF InsertFirst
  <2> QED
    BY <1>5, <2>1, <2>2, <2>3 DEF InsertFirst
<1>6. ASSUME NEW r \in Requests, InsertVersion(r) PROVE TypeOK'
  <2>1. calls[r].doc \in Docs /\ calls[r].base \in Docs /\ calls[r].base # calls[r].doc
    BY <1>6, Inserting DEF InsertVersion
  <2>2. docs' \in [Docs -> Document] /\ calls' \in [Requests -> Call]
    BY <1>6, <2>1, VersionRow, Ended DEF InsertVersion
  <2>3. slipped' \subseteq slipped \union {calls[r].doc}
    BY <1>6, Placing DEF InsertVersion
  <2> QED
    BY <1>6, <2>1, <2>2, <2>3 DEF InsertVersion
<1>7. ASSUME NEW r \in Requests, RefuseVersion(r) PROVE TypeOK'
  BY <1>7 DEF RefuseVersion, Reply, Idle, Call, Steps
<1>8. ASSUME NEW r \in Requests, NEW d \in Docs, NEW b \in Owners, NEW f \in Folders \union {None}, BeginMove(r, d, b, f) PROVE TypeOK'
  BY <1>8 DEF BeginMove, Idle, Live, Call, Steps
<1>9. ASSUME NEW r \in Requests, Move(r) PROVE TypeOK'
  <2>1. calls[r].base \in Docs /\ docs' \in [Docs -> Document] /\ calls' \in [Requests -> Call]
    BY <1>9, Moved, Ended DEF Move
  <2>2. slipped' \subseteq slipped \union {calls[r].base}
    BY <1>9, Placing DEF Move
  <2> QED
    BY <1>9, <2>1, <2>2 DEF Move
<1>19. ASSUME NEW r \in Requests, NEW d \in Docs, NEW b \in Owners, BeginRetag(r, d, b) PROVE TypeOK'
  BY <1>19 DEF BeginRetag, Idle, Live, Call, Steps
<1>20. ASSUME NEW r \in Requests, Retag(r) PROVE TypeOK'
  BY <1>20, Retagged, Ended DEF Retag
<1>10. ASSUME NEW d \in Docs, DeleteDocument(d) PROVE TypeOK'
  BY <1>10 DEF DeleteDocument, Live, Document, NoDoc
<1>11. ASSUME NEW r \in Requests, NEW b \in Owners, NEW p \in Folders \union {None}, NEW n \in Names, BeginFolder(r, b, p, n) PROVE TypeOK'
  BY <1>11 DEF BeginFolder, Idle, Call, Steps
<1>12. ASSUME NEW r \in Requests, NEW f \in Folders, NEW n \in Names, BeginRename(r, f, n) PROVE TypeOK'
  <2>1. [Idle EXCEPT !.step = "rename", !.folder = f, !.owner = folders[f].owner,
                     !.into = folders[f].parent, !.name = n] \in Call
    BY Fields DEF Idle, Call, Steps
  <2> QED
    BY <1>12, <2>1 DEF BeginRename
<1>13. ASSUME NEW r \in Requests, MakeFolder(r) PROVE TypeOK'
  <2>1. calls' \in [Requests -> Call]
    BY <1>13, Ended DEF MakeFolder
  <2>2. CASE UNCHANGED <<folders, slipped>>
    BY <1>13, <2>1, <2>2 DEF MakeFolder
  <2>3. ASSUME NEW f \in Folders,
               folders' = [folders EXCEPT ![f] = [state |-> "live", owner |-> calls[r].owner,
                                                  parent |-> calls[r].into, name |-> calls[r].name]],
               Placed(f, calls[r].into)
        PROVE  TypeOK'
    <3>1. [state |-> "live", owner |-> calls[r].owner, parent |-> calls[r].into,
           name |-> calls[r].name] \in Folder
      BY Fields DEF Folder
    <3>2. slipped' \subseteq slipped \union {f}
      BY <2>3, Placing
    <3> QED
      BY <1>13, <2>1, <2>3, <3>1, <3>2 DEF MakeFolder
  <2> QED
    BY <1>13, <2>2, <2>3, FolderMade
<1>14. ASSUME NEW r \in Requests, RenameFolder(r) PROVE TypeOK'
  BY <1>14, FolderChanged, Ended DEF RenameFolder
<1>15. ASSUME NEW r \in Requests, NEW f \in Folders, BeginDrop(r, f) PROVE TypeOK'
  BY <1>15 DEF BeginDrop, Idle, Call, Steps
<1>16. ASSUME NEW r \in Requests, DropFolder(r) PROVE TypeOK'
  BY <1>16, FolderChanged, Ended DEF DropFolder
<1>17. ASSUME NEW r \in Requests, Fail(r) PROVE TypeOK'
  BY <1>17 DEF Fail, Reply, Idle, Call, Steps
<1>18. CASE UNCHANGED vars
  BY <1>18 DEF vars
<1> QED
  BY <1>1, <1>2, <1>3, <1>4, <1>5, <1>6, <1>7, <1>8, <1>9, <1>10, <1>11, <1>12, <1>13, <1>14,
     <1>15, <1>16, <1>17, <1>18, <1>19, <1>20
     DEF Next, Begin, Work

(* A step that leaves the variables of a conjunct alone leaves the conjunct true. *)
LEMMA Frame ==
    /\ RowHasObject /\ UNCHANGED <<docs, bucket>> => RowHasObject'
    /\ CallsAreSound /\ UNCHANGED <<calls, docs, bucket>> => CallsAreSound'
    /\ ChainsAreSound /\ UNCHANGED <<docs>> => ChainsAreSound'
    /\ FamiliesAreLines /\ UNCHANGED <<docs>> => FamiliesAreLines'
    /\ LatestIsNewest /\ UNCHANGED <<docs>> => LatestIsNewest'
    /\ DropsAreSound /\ UNCHANGED <<calls, docs, folders, slipped>> => DropsAreSound'
    /\ OrphansWereOvertaken /\ UNCHANGED <<docs, folders, slipped>> => OrphansWereOvertaken'
  BY DEF RowHasObject, CallsAreSound, ChainsAreSound, FamiliesAreLines, LatestIsNewest,
         DropsAreSound, OrphansWereOvertaken, Rows, Family, Newest, Held, Live

LEMMA InvariantHoldsInitially == Init => IInv
  BY InitialTypes, NamesAssumption
     DEF Init, IInv, RowHasObject, CallsAreSound, ChainsAreSound, FamiliesAreLines,
         LatestIsNewest, DropsAreSound, OrphansWereOvertaken, Rows, Family, Newest, Held, Live,
         NoDoc, NoFolder, Idle

(* One step per action, and under it one per conjunct the action disturbs. *)
LEMMA StepKeepsInvariant == IInv /\ [Next]_vars => IInv'
<1> SUFFICES ASSUME IInv, [Next]_vars PROVE IInv'
  OBVIOUS
<1> USE NamesAssumption
        DEF IInv, TypeOK
<1>1. ASSUME NEW r \in Requests, NEW b \in Owners, NEW f \in Folders \union {None}, NEW n \in Names, BeginUpload(r, b, f, n) PROVE IInv'
  <2>1. RowHasObject' /\ ChainsAreSound' /\ FamiliesAreLines' /\ LatestIsNewest'
        /\ OrphansWereOvertaken'
    BY <1>1, Frame DEF BeginUpload
  <2>2. CallsAreSound'
    BY <1>1 DEF BeginUpload, Idle, CallsAreSound, Rows
  <2>3. DropsAreSound'
    BY <1>1 DEF BeginUpload, Idle, DropsAreSound, Held, Live
  <2> QED
    BY <2>1, <2>2, <2>3, StepKeepsTypes
<1>2. ASSUME NEW r \in Requests, NEW d \in Docs, NEW n \in Names, BeginVersion(r, d, n) PROVE IInv'
  <2>1. RowHasObject' /\ ChainsAreSound' /\ FamiliesAreLines' /\ LatestIsNewest'
        /\ OrphansWereOvertaken'
    BY <1>2, Frame DEF BeginVersion
  <2>2. CallsAreSound'
    BY <1>2 DEF BeginVersion, Idle, Live, CallsAreSound, Rows
  <2>3. DropsAreSound'
    BY <1>2 DEF BeginVersion, Idle, Live, DropsAreSound, Held
  <2> QED
    BY <2>1, <2>2, <2>3, StepKeepsTypes
<1>3. ASSUME NEW r \in Requests, CheckLimits(r) PROVE IInv'
  <2>1x. \/ Reply(r) /\ UNCHANGED bucket
         \/ Store(r, calls[r].base)
         \/ Step(r, "compare") /\ UNCHANGED bucket
    BY <1>3 DEF CheckLimits
  <2>a. \A q \in Requests \ {r} : calls'[q] = calls[q]
    BY <2>1x, Ended, Stores, Fields DEF Step
  <2>b. \/ /\ calls'[r].step \in {"idle", "compare"} /\ bucket' = bucket
           /\ calls'[r].base \in {None, calls[r].base}
        \/ \E x \in Docs : /\ x \notin bucket /\ docs[x].state = "absent"
                           /\ bucket' = bucket \union {x}
                           /\ calls'[r].doc = x /\ calls'[r].step = "insert"
                           /\ calls'[r].base \in {None, calls[r].base}
    <3>1. CASE Reply(r) /\ UNCHANGED bucket
      BY <3>1, Ended DEF Idle
    <3>2. CASE Store(r, calls[r].base)
      BY <3>2, Stores, Fields
    <3>3. CASE Step(r, "compare") /\ UNCHANGED bucket
      BY <3>3 DEF Step, Call
    <3> QED
      BY <2>1x, <3>1, <3>2, <3>3
  <2>c. UNCHANGED <<docs, folders, slipped>>
    BY <1>3 DEF CheckLimits
  <2>1. ChainsAreSound' /\ FamiliesAreLines' /\ LatestIsNewest' /\ OrphansWereOvertaken'
    BY <1>3, Frame DEF CheckLimits
  <2>2. RowHasObject'
    BY <2>a, <2>b, <2>c DEF RowHasObject, Rows
  <2>3. CallsAreSound'
    BY <2>a, <2>b, <2>c DEF CallsAreSound, Rows, Idle
  <2>4. DropsAreSound'
    BY <2>a, <2>b, <2>c, Fields, NamesAssumption DEF DropsAreSound, Held, Live, Idle, CallsAreSound
  <2> QED
    BY <2>1, <2>2, <2>3, <2>4, StepKeepsTypes
<1>4. ASSUME NEW r \in Requests, FindConflict(r) PROVE IInv'
  <2>1x. \/ Reply(r) /\ UNCHANGED bucket
         \/ Store(r, None)
         \/ \E x \in Rows : Store(r, x)
    BY <1>4 DEF FindConflict, Candidates, Held, Live, Rows
  <2>a. \A q \in Requests \ {r} : calls'[q] = calls[q]
    BY <2>1x, Ended, Stores DEF Rows
  <2>b. \/ calls'[r].step = "idle" /\ bucket' = bucket /\ calls'[r].base = None
        \/ \E x \in Docs : /\ x \notin bucket /\ docs[x].state = "absent"
                           /\ bucket' = bucket \union {x}
                           /\ calls'[r].doc = x /\ calls'[r].step = "insert"
                           /\ calls'[r].base \in {None} \union Rows
    <3>1. CASE Reply(r) /\ UNCHANGED bucket
      BY <3>1, Ended DEF Idle
    <3>2. CASE Store(r, None)
      BY <3>2, Stores
    <3>3. ASSUME NEW x \in Rows, Store(r, x)
          PROVE  \E y \in Docs : /\ y \notin bucket /\ docs[y].state = "absent"
                                 /\ bucket' = bucket \union {y}
                                 /\ calls'[r].doc = y /\ calls'[r].step = "insert"
                                 /\ calls'[r].base \in {None} \union Rows
      BY <3>3, Stores DEF Rows
    <3> QED
      BY <2>1x, <3>1, <3>2, <3>3
  <2>c. UNCHANGED <<docs, folders, slipped>>
    BY <1>4 DEF FindConflict
  <2>1. ChainsAreSound' /\ FamiliesAreLines' /\ LatestIsNewest' /\ OrphansWereOvertaken'
    BY <1>4, Frame DEF FindConflict
  <2>2. RowHasObject'
    BY <2>a, <2>b, <2>c DEF RowHasObject, Rows
  <2>3. CallsAreSound'
    BY <2>a, <2>b, <2>c DEF CallsAreSound, Rows, Idle
  <2>4. DropsAreSound'
    BY <2>a, <2>b, <2>c, Fields, NamesAssumption DEF DropsAreSound, Held, Live, Idle, CallsAreSound
  <2> QED
    BY <2>1, <2>2, <2>3, <2>4, StepKeepsTypes
<1>5. ASSUME NEW r \in Requests, InsertFirst(r) PROVE IInv'
  <2>x. /\ calls[r].step = "insert" /\ calls[r].doc \in Docs /\ calls[r].doc \in bucket
        /\ docs[calls[r].doc].state = "absent"
        /\ \A q \in Requests : calls[q].step = "insert" /\ calls[q].doc = calls[r].doc => q = r
    BY <1>5, Inserting DEF InsertFirst
  <2>e. calls'[r] = Idle /\ \A q \in Requests \ {r} : calls'[q] = calls[q]
    BY <1>5, Ended DEF InsertFirst
  <2>f. Placed(calls[r].doc, calls[r].into) /\ UNCHANGED <<folders, bucket>>
    BY <1>5 DEF InsertFirst
  <2>s. /\ \A y : y # calls[r].doc => (y \in slipped' <=> y \in slipped)
        /\ calls[r].into # None /\ folders[calls[r].into].state # "live" => calls[r].doc \in slipped'
        /\ \A q \in Requests : /\ calls[r].into # None
                               /\ calls[q].step = "drop" /\ calls[q].folder = calls[r].into
                               => calls[r].doc \in slipped'
    BY <2>f, Placing
  <2>g. /\ docs'[calls[r].doc] = NewRow(r, 1, None, calls[r].doc)
        /\ \A x \in Docs \ {calls[r].doc} : docs'[x] = docs[x]
    BY <1>5, <2>x, FirstRow
  <2>n. /\ docs'[calls[r].doc].state = "live" /\ docs'[calls[r].doc].latest = "yes"
        /\ docs'[calls[r].doc].version = 1 /\ docs'[calls[r].doc].prev = None
        /\ docs'[calls[r].doc].root = calls[r].doc /\ docs'[calls[r].doc].folder = calls[r].into
    BY <2>g DEF NewRow
  <2>1. RowHasObject'
    BY <2>x, <2>e, <2>f, <2>s, <2>g, <2>n DEF RowHasObject, Rows
  <2>2. CallsAreSound'
    BY <2>x, <2>e, <2>f, <2>s, <2>g, <2>n DEF CallsAreSound, Rows, Idle
  <2>3. ChainsAreSound'
    BY <2>x, <2>e, <2>f, <2>s, <2>g, <2>n DEF ChainsAreSound, Rows
  <2>4. FamiliesAreLines'
    <3>d. PICK d : d = calls[r].doc
      OBVIOUS
    <3>n. /\ d \in Docs /\ docs[d].state = "absent" /\ docs'[d].state = "live"
          /\ docs'[d].version = 1 /\ docs'[d].prev = None /\ docs'[d].root = d
          /\ \A x \in Docs \ {d} : docs'[x] = docs[x]
      BY <3>d, <2>x, <2>g, <2>n
    <3>1. Rows' = Rows \union {d} /\ d \notin Rows
      BY <3>n DEF Rows
    <3>2. \A x \in Docs \ {d} : docs'[x] = docs[x]
      BY <3>n
    <3>3. \A x \in Rows : Family(x)' = Family(x)
      BY <3>1, <3>2, <3>n DEF Family, ChainsAreSound, Rows
    <3>4. Family(d)' = {d}
      BY <3>1, <3>2, <3>n DEF Family, ChainsAreSound, Rows
    <3>5. \A x \in Docs : Newest(x)' <=> Newest(x)
      BY <3>1, <3>2, <3>n, NamesAssumption DEF Newest, ChainsAreSound
    <3>6. Newest(d)
      BY <3>1, NamesAssumption, <3>n DEF Newest, ChainsAreSound, Rows
    <3>7. ASSUME NEW x \in Rows PROVE
            /\ \A e \in Family(x)' : /\ docs'[e].version = docs'[x].version => e = x
                                     /\ docs'[e].version > docs'[x].version => ~Newest(x)'
            /\ \E e \in Family(x)' : Newest(e)'
      <4>1. /\ \A e \in Family(x) : /\ docs[e].version = docs[x].version => e = x
                                    /\ docs[e].version > docs[x].version => ~Newest(x)
            /\ \E e \in Family(x) : Newest(e)
        BY DEF FamiliesAreLines
      <4>2. Family(x) \subseteq Docs \ {d} /\ x \in Docs \ {d}
        BY <3>1 DEF Family, Rows
      <4> QED
        BY <4>1, <4>2, <3>2, <3>3, <3>5
    <3>8. docs'[d].version = 1 /\ Newest(d)'
      BY <3>5, <3>6, <3>n
    <3>9. \A e, x, y \in Rows' : docs'[e].prev = y /\ docs'[x].prev = y => e = x
      <4>1. \A e, x, y \in Rows : docs[e].prev = y /\ docs[x].prev = y => e = x
        BY DEF FamiliesAreLines
      <4>2. \A e \in Rows : docs'[e].prev = docs[e].prev /\ docs[e].prev # d
        BY <3>1, <3>2, NamesAssumption, <3>n DEF ChainsAreSound, Rows
      <4>3. \A y \in Rows' : docs'[d].prev # y
        BY <3>n, NamesAssumption DEF Rows
      <4> QED
        BY <4>1, <4>2, <4>3, <3>1
    <3>10. ASSUME NEW x \in Rows' PROVE
            /\ \A e \in Family(x)' : /\ docs'[e].version = docs'[x].version => e = x
                                     /\ docs'[e].version > docs'[x].version => ~Newest(x)'
            /\ \E e \in Family(x)' : Newest(e)'
      <4>1. CASE x \in Rows
        BY <4>1, <3>7
      <4>2. CASE x = d
        BY <4>2, <3>4, <3>8
      <4> QED
        BY <4>1, <4>2, <3>1
    <3> QED
      BY <3>9, <3>10 DEF FamiliesAreLines
  <2>5. LatestIsNewest'
    BY <2>x, <2>e, <2>f, <2>s, <2>g, <2>n DEF LatestIsNewest, ChainsAreSound, Rows, Held, Live, Newest
  <2>6. DropsAreSound'
    BY <2>x, <2>e, <2>f, <2>s, <2>g, <2>n, Fields, NamesAssumption DEF DropsAreSound, Held, Live, Idle, CallsAreSound
  <2>7. OrphansWereOvertaken'
    BY <2>x, <2>e, <2>f, <2>s, <2>g, <2>n, Fields DEF OrphansWereOvertaken, DropsAreSound, Held, Live
  <2> QED
    BY <2>1, <2>2, <2>3, <2>4, <2>5, <2>6, <2>7, StepKeepsTypes
<1>6. ASSUME NEW r \in Requests, InsertVersion(r) PROVE IInv'
  <2>x. /\ calls[r].step = "insert" /\ calls[r].doc \in Docs /\ calls[r].doc \in bucket
        /\ docs[calls[r].doc].state = "absent"
        /\ \A q \in Requests : calls[q].step = "insert" /\ calls[q].doc = calls[r].doc => q = r
    BY <1>6, Inserting DEF InsertVersion
  <2>e. calls'[r] = Idle /\ \A q \in Requests \ {r} : calls'[q] = calls[q]
    BY <1>6, Ended DEF InsertVersion
  <2>f. Placed(calls[r].doc, calls[r].into) /\ UNCHANGED <<folders, bucket>>
    BY <1>6 DEF InsertVersion
  <2>s. /\ \A y : y # calls[r].doc => (y \in slipped' <=> y \in slipped)
        /\ calls[r].into # None /\ folders[calls[r].into].state # "live" => calls[r].doc \in slipped'
        /\ \A q \in Requests : /\ calls[r].into # None
                               /\ calls[q].step = "drop" /\ calls[q].folder = calls[r].into
                               => calls[r].doc \in slipped'
    BY <2>f, Placing
  <2>b. /\ calls[r].base \in Docs /\ docs[calls[r].base].state # "absent"
        /\ calls[r].base # calls[r].doc /\ \A x \in Docs : docs[x].prev # calls[r].base
    BY <1>6, Inserting DEF InsertVersion, Replaced
  <2>g. LET d == calls[r].doc  b == calls[r].base IN
        /\ docs'[d] = NewRow(r, docs[b].version + 1, b, docs[b].root)
        /\ \A x \in Docs \ {d} :
             /\ docs'[x].state = docs[x].state /\ docs'[x].folder = docs[x].folder
             /\ docs'[x].version = docs[x].version /\ docs'[x].prev = docs[x].prev
             /\ docs'[x].root = docs[x].root
             /\ docs'[x].latest = IF x = b /\ docs[b].state = "live" THEN "no" ELSE docs[x].latest
    BY <1>6, <2>x, <2>b, VersionRow
  <2>n. /\ docs'[calls[r].doc].state = "live" /\ docs'[calls[r].doc].latest = "yes"
        /\ docs'[calls[r].doc].version = docs[calls[r].base].version + 1
        /\ docs'[calls[r].doc].prev = calls[r].base
        /\ docs'[calls[r].doc].root = docs[calls[r].base].root
        /\ docs'[calls[r].doc].folder = calls[r].into
    BY <2>g DEF NewRow
  <2>1. RowHasObject'
    BY <2>x, <2>e, <2>f, <2>s, <2>b, <2>g, <2>n DEF RowHasObject, Rows
  <2>2. CallsAreSound'
    BY <2>x, <2>e, <2>f, <2>s, <2>b, <2>g, <2>n DEF CallsAreSound, Rows, Idle
  <2>3. ChainsAreSound'
    BY <2>x, <2>e, <2>f, <2>s, <2>b, <2>g, <2>n DEF ChainsAreSound, Rows
  <2>4. FamiliesAreLines'
    <3>d. PICK d, b : d = calls[r].doc /\ b = calls[r].base
      OBVIOUS
    <3>n. /\ d \in Docs /\ docs[d].state = "absent" /\ docs'[d].state = "live"
          /\ b \in Docs /\ docs[b].state # "absent" /\ b # d /\ \A x \in Docs : docs[x].prev # b
          /\ docs'[d].version = docs[b].version + 1 /\ docs'[d].prev = b
          /\ docs'[d].root = docs[b].root
          /\ \A x \in Docs \ {d} : /\ docs'[x].state = docs[x].state
                                   /\ docs'[x].version = docs[x].version
                                   /\ docs'[x].prev = docs[x].prev /\ docs'[x].root = docs[x].root
      BY <3>d, <2>x, <2>b, <2>g, <2>n
    <3>1. Rows' = Rows \union {d} /\ d \notin Rows /\ b \in Rows /\ d \in Docs
      BY <3>n DEF Rows
    <3>2. \A x \in Rows : /\ docs'[x].version = docs[x].version /\ docs'[x].prev = docs[x].prev
                          /\ docs'[x].root = docs[x].root
      BY <3>1, <3>n DEF Rows
    <3>3. \A x \in Rows : docs[x].prev # d
      BY <3>1, NamesAssumption DEF ChainsAreSound, Rows
    <3>4. /\ docs'[d].version = docs[b].version + 1 /\ docs'[d].prev = b /\ docs'[d].root = docs[b].root
      BY <3>n
    <3>5. \A x \in Docs \ Rows : docs[x].prev = None
      BY DEF ChainsAreSound
    <3>6. \A x \in Rows : \A e : e \in Family(x)' <=> \/ e \in Family(x)
                                                      \/ e = d /\ docs[x].root = docs[b].root
      BY <3>1, <3>2, <3>4 DEF Family, Rows
    <3>7. \A e : e \in Family(d)' <=> e \in Family(b) \/ e = d
      BY <3>1, <3>2, <3>4 DEF Family, Rows
    <3>8. Newest(d)' /\ ~Newest(b)' /\ Newest(b)
      <4>1. \A e \in Docs : docs'[e].prev # d
        BY <3>1, <3>2, <3>3, <3>4, <3>5, <3>n, NamesAssumption DEF Rows
      <4>2. \A e \in Docs : docs[e].prev # b
        BY <3>n
      <4> QED
        BY <4>1, <4>2, <3>1, <3>4 DEF Newest
    <3>9. \A x \in Docs \ {b} : Newest(x)' <=> Newest(x)
      <4>1. \A e \in Docs \ {d} : docs'[e].prev = docs[e].prev
        BY <3>n
      <4>2. docs[d].prev = None /\ docs'[d].prev = b
        BY <3>1, <3>4, <3>5
      <4> QED
        BY <4>1, <4>2, NamesAssumption, <3>1 DEF Newest
    <3>10. \A x \in Family(b) : docs[x].version <= docs[b].version
      BY <3>1, <3>8, Fields DEF FamiliesAreLines, Family, Rows
    <3>11. \A x \in Rows : docs[x].version \in Nat
      BY Fields DEF Rows
    <3>12. \A e, x, y \in Rows' : docs'[e].prev = y /\ docs'[x].prev = y => e = x
      <4>1. \A e, x, y \in Rows : docs[e].prev = y /\ docs[x].prev = y => e = x
        BY DEF FamiliesAreLines
      <4>2. \A e \in Rows : docs[e].prev # b
        BY <3>n DEF Rows
      <4> QED
        BY <4>1, <4>2, <3>1, <3>2, <3>3, <3>4
    <3>13. ASSUME NEW x \in Rows PROVE
            /\ \A e \in Family(x)' : /\ docs'[e].version = docs'[x].version => e = x
                                     /\ docs'[e].version > docs'[x].version => ~Newest(x)'
            /\ \E e \in Family(x)' : Newest(e)'
      <4>1. /\ \A e \in Family(x) : /\ docs[e].version = docs[x].version => e = x
                                    /\ docs[e].version > docs[x].version => ~Newest(x)
            /\ \E e \in Family(x) : Newest(e)
        BY DEF FamiliesAreLines
      <4>2. Family(x) \subseteq Rows /\ Rows \subseteq Docs
        BY DEF Family, Rows
      <4>3. CASE docs[x].root # docs[b].root
        <5>1. b \notin Family(x) /\ x # b
          BY <4>3 DEF Family
        <5>2. \A e : e \in Family(x)' <=> e \in Family(x)
          BY <3>6, <4>3
        <5>3. \A e \in Family(x) : Newest(e)' <=> Newest(e)
          BY <5>1, <4>2, <3>9
        <5>4. Newest(x)' <=> Newest(x)
          BY <5>1, <4>2, <3>9
        <5> QED
          BY <4>1, <4>2, <5>2, <5>3, <5>4, <3>2
      <4>4. CASE docs[x].root = docs[b].root
        <5>1. x \in Family(b)
          BY <4>4 DEF Family
        <5>2. docs[x].version <= docs[b].version
          BY <3>10, <5>1
        <5>3. \A e : e \in Family(x)' <=> e \in Family(x) \/ e = d
          BY <3>6, <4>4
        <5>4. ~Newest(x)'
          <6>1. CASE x = b
            BY <6>1, <3>8
          <6>2. CASE x # b
            <7>1. b \in Family(x)
              BY <3>1, <4>4 DEF Family
            <7>2. docs[b].version > docs[x].version
              BY <4>1, <5>2, <6>2, <7>1, <3>1, <3>11
            <7> QED
              BY <4>1, <7>1, <7>2, <6>2, <3>9, <4>2
          <6> QED
            BY <6>1, <6>2
        <5>5. docs'[d].version # docs'[x].version
          BY <5>2, <3>1, <3>2, <3>4, <3>11
        <5>6. \A e \in Family(x) : docs'[e].version = docs'[x].version => e = x
          BY <4>1, <4>2, <3>2
        <5> QED
          BY <5>3, <5>4, <5>5, <5>6, <3>8
      <4> QED
        BY <4>3, <4>4
    <3>14. /\ \A e \in Family(d)' : /\ docs'[e].version = docs'[d].version => e = d
                                    /\ ~(docs'[e].version > docs'[d].version)
           /\ \E e \in Family(d)' : Newest(e)'
      <4>1. \A e \in Family(b) : /\ docs'[e].version \in Nat /\ docs[b].version \in Nat
                                 /\ docs'[e].version <= docs[b].version
        BY <3>1, <3>2, <3>10, <3>11 DEF Family
      <4> QED
        BY <4>1, <3>4, <3>7, <3>8, <3>1, <3>11
    <3>15. ASSUME NEW x \in Rows' PROVE
            /\ \A e \in Family(x)' : /\ docs'[e].version = docs'[x].version => e = x
                                     /\ docs'[e].version > docs'[x].version => ~Newest(x)'
            /\ \E e \in Family(x)' : Newest(e)'
      BY <3>1, <3>13, <3>14
    <3> QED
      BY <3>12, <3>15 DEF FamiliesAreLines
  <2>5. LatestIsNewest'
    BY <2>x, <2>e, <2>f, <2>s, <2>b, <2>g, <2>n DEF LatestIsNewest, ChainsAreSound, Rows, Held, Live, Newest
  <2>6. DropsAreSound'
    BY <2>x, <2>e, <2>f, <2>s, <2>b, <2>g, <2>n, Fields, NamesAssumption DEF DropsAreSound, Held, Live, Idle, CallsAreSound
  <2>7. OrphansWereOvertaken'
    BY <2>x, <2>e, <2>f, <2>s, <2>b, <2>g, <2>n, Fields DEF OrphansWereOvertaken, DropsAreSound, Held, Live
  <2> QED
    BY <2>1, <2>2, <2>3, <2>4, <2>5, <2>6, <2>7, StepKeepsTypes
<1>7. ASSUME NEW r \in Requests, RefuseVersion(r) PROVE IInv'
  <2>1. RowHasObject' /\ ChainsAreSound' /\ FamiliesAreLines' /\ LatestIsNewest'
        /\ OrphansWereOvertaken'
    BY <1>7, Frame DEF RefuseVersion
  <2>2. CallsAreSound'
    BY <1>7 DEF RefuseVersion, Reply, Idle, CallsAreSound, Rows
  <2>3. DropsAreSound'
    BY <1>7 DEF RefuseVersion, Reply, Idle, DropsAreSound, Held, Live
  <2> QED
    BY <2>1, <2>2, <2>3, StepKeepsTypes
<1>8. ASSUME NEW r \in Requests, NEW d \in Docs, NEW b \in Owners, NEW f \in Folders \union {None}, BeginMove(r, d, b, f) PROVE IInv'
  <2>1. RowHasObject' /\ ChainsAreSound' /\ FamiliesAreLines' /\ LatestIsNewest'
        /\ OrphansWereOvertaken'
    BY <1>8, Frame DEF BeginMove
  <2>2. CallsAreSound'
    BY <1>8 DEF BeginMove, Idle, Live, CallsAreSound, Rows
  <2>3. DropsAreSound'
    BY <1>8 DEF BeginMove, Idle, Live, DropsAreSound, Held
  <2> QED
    BY <2>1, <2>2, <2>3, StepKeepsTypes
<1>9. ASSUME NEW r \in Requests, Move(r) PROVE IInv'
  <2>e. calls'[r] = Idle /\ \A q \in Requests \ {r} : calls'[q] = calls[q]
    BY <1>9, Ended DEF Move
  <2>g. LET d == calls[r].base IN
        /\ d \in Docs
        /\ \A x \in Docs : /\ docs'[x].state = docs[x].state /\ docs'[x].latest = docs[x].latest
                           /\ docs'[x].version = docs[x].version /\ docs'[x].prev = docs[x].prev
                           /\ docs'[x].root = docs[x].root
                           /\ x # d => docs'[x].folder = docs[x].folder
        /\ docs[d].state = "live" => docs'[d].folder = calls[r].into
    BY <1>9, Moved
  <2>s. /\ \A y : y # calls[r].base => (y \in slipped' <=> y \in slipped)
        /\ docs[calls[r].base].state = "live" =>
             /\ calls[r].into # None /\ folders[calls[r].into].state # "live" => calls[r].base \in slipped'
             /\ \A q \in Requests : /\ calls[r].into # None
                                    /\ calls[q].step = "drop" /\ calls[q].folder = calls[r].into
                                    => calls[r].base \in slipped'
    BY <1>9, Placing DEF Move, Live
  <2>f. UNCHANGED <<folders, bucket>>
    BY <1>9 DEF Move
  <2>1. RowHasObject'
    BY <2>e, <2>g, <2>s, <2>f DEF RowHasObject, Rows
  <2>2. CallsAreSound'
    BY <2>e, <2>g, <2>s, <2>f DEF CallsAreSound, Rows, Idle
  <2>3. ChainsAreSound'
    BY <2>e, <2>g, <2>s, <2>f DEF ChainsAreSound, Rows
  <2>4. FamiliesAreLines'
    <3>1. Rows' = Rows
      BY <2>g DEF Rows
    <3>2. \A x \in Rows : Family(x)' = Family(x)
      BY <3>1, <2>g DEF Family, Rows
    <3>3. \A x \in Docs : Newest(x)' <=> Newest(x)
      BY <2>g DEF Newest
    <3>4. \A x \in Rows : Family(x) \subseteq Docs /\ x \in Docs
      BY DEF Family, Rows
    <3> QED
      BY <3>1, <3>2, <3>3, <3>4, <2>g DEF FamiliesAreLines
  <2>5. LatestIsNewest'
    BY <2>e, <2>g, <2>s, <2>f DEF LatestIsNewest, ChainsAreSound, Rows, Held, Live, Newest
  <2>6. DropsAreSound'
    BY <2>e, <2>g, <2>s, <2>f, Fields, NamesAssumption DEF DropsAreSound, Held, Live, Idle, CallsAreSound
  <2>7. OrphansWereOvertaken'
    BY <2>e, <2>g, <2>s, <2>f, Fields DEF OrphansWereOvertaken, DropsAreSound, Held, Live
  <2> QED
    BY <2>1, <2>2, <2>3, <2>4, <2>5, <2>6, <2>7, StepKeepsTypes
<1>19. ASSUME NEW r \in Requests, NEW d \in Docs, NEW b \in Owners, BeginRetag(r, d, b) PROVE IInv'
  <2>1. RowHasObject' /\ ChainsAreSound' /\ FamiliesAreLines' /\ LatestIsNewest'
        /\ OrphansWereOvertaken'
    BY <1>19, Frame DEF BeginRetag
  <2>2. CallsAreSound'
    BY <1>19 DEF BeginRetag, Idle, Live, CallsAreSound, Rows
  <2>3. DropsAreSound'
    BY <1>19 DEF BeginRetag, Idle, Live, DropsAreSound, Held
  <2> QED
    BY <2>1, <2>2, <2>3, StepKeepsTypes
<1>20. ASSUME NEW r \in Requests, Retag(r) PROVE IInv'
  <2>e. calls'[r] = Idle /\ \A q \in Requests \ {r} : calls'[q] = calls[q]
    BY <1>20, Ended DEF Retag
  <2>g. \A x \in Docs : /\ docs'[x].state = docs[x].state /\ docs'[x].latest = docs[x].latest
                        /\ docs'[x].version = docs[x].version /\ docs'[x].prev = docs[x].prev
                        /\ docs'[x].root = docs[x].root /\ docs'[x].folder = docs[x].folder
    BY <1>20, Retagged
  <2>f. UNCHANGED <<folders, bucket, slipped>>
    BY <1>20 DEF Retag
  <2>1. RowHasObject'
    BY <2>g, <2>f DEF RowHasObject, Rows
  <2>2. CallsAreSound'
    BY <2>e, <2>g, <2>f DEF CallsAreSound, Rows, Idle
  <2>3. ChainsAreSound'
    BY <2>g DEF ChainsAreSound, Rows
  <2>4. FamiliesAreLines'
    <3>1. Rows' = Rows
      BY <2>g DEF Rows
    <3>2. \A x \in Rows : Family(x)' = Family(x)
      BY <3>1, <2>g DEF Family, Rows
    <3>3. \A x \in Docs : Newest(x)' <=> Newest(x)
      BY <2>g DEF Newest
    <3>4. \A x \in Rows : Family(x) \subseteq Docs /\ x \in Docs
      BY DEF Family, Rows
    <3> QED
      BY <3>1, <3>2, <3>3, <3>4, <2>g DEF FamiliesAreLines
  <2>5. LatestIsNewest'
    BY <2>g DEF LatestIsNewest, Held, Live, Newest
  <2>6. DropsAreSound'
    BY <2>e, <2>g, <2>f DEF DropsAreSound, Held, Live, Idle
  <2>7. OrphansWereOvertaken'
    BY <2>g, <2>f DEF OrphansWereOvertaken, Held, Live
  <2> QED
    BY <2>1, <2>2, <2>3, <2>4, <2>5, <2>6, <2>7, StepKeepsTypes
<1>10. ASSUME NEW d \in Docs, DeleteDocument(d) PROVE IInv'
  <2>1. RowHasObject'
    BY <1>10 DEF DeleteDocument, Live, RowHasObject, Rows
  <2>2. CallsAreSound'
    BY <1>10 DEF DeleteDocument, Live, CallsAreSound, Rows
  <2>3. ChainsAreSound'
    BY <1>10 DEF DeleteDocument, Live, ChainsAreSound, Rows
  <2>4. FamiliesAreLines'
    BY <1>10 DEF DeleteDocument, Live, FamiliesAreLines, Rows, Family, Newest
  <2>5. LatestIsNewest'
    BY <1>10 DEF DeleteDocument, Live, LatestIsNewest, Held, Newest
  <2>6. DropsAreSound'
    BY <1>10 DEF DeleteDocument, Live, DropsAreSound, Held
  <2>7. OrphansWereOvertaken'
    BY <1>10 DEF DeleteDocument, Live, OrphansWereOvertaken, Held
  <2> QED
    BY <2>1, <2>2, <2>3, <2>4, <2>5, <2>6, <2>7, StepKeepsTypes
<1>11. ASSUME NEW r \in Requests, NEW b \in Owners, NEW p \in Folders \union {None}, NEW n \in Names, BeginFolder(r, b, p, n) PROVE IInv'
  <2>1. RowHasObject' /\ ChainsAreSound' /\ FamiliesAreLines' /\ LatestIsNewest'
        /\ OrphansWereOvertaken'
    BY <1>11, Frame DEF BeginFolder
  <2>2. CallsAreSound'
    BY <1>11 DEF BeginFolder, Idle, CallsAreSound, Rows
  <2>3. DropsAreSound'
    BY <1>11 DEF BeginFolder, Idle, DropsAreSound, Held, Live
  <2> QED
    BY <2>1, <2>2, <2>3, StepKeepsTypes
<1>12. ASSUME NEW r \in Requests, NEW f \in Folders, NEW n \in Names, BeginRename(r, f, n) PROVE IInv'
  <2>1. RowHasObject' /\ ChainsAreSound' /\ FamiliesAreLines' /\ LatestIsNewest'
        /\ OrphansWereOvertaken'
    BY <1>12, Frame DEF BeginRename
  <2>2. CallsAreSound'
    BY <1>12 DEF BeginRename, Idle, CallsAreSound, Rows
  <2>3. DropsAreSound'
    BY <1>12 DEF BeginRename, Idle, DropsAreSound, Held, Live
  <2> QED
    BY <2>1, <2>2, <2>3, StepKeepsTypes
<1>13. ASSUME NEW r \in Requests, MakeFolder(r) PROVE IInv'
  <2>e. calls'[r] = Idle /\ \A q \in Requests \ {r} : calls'[q] = calls[q]
    BY <1>13, Ended DEF MakeFolder
  <2>g. \/ UNCHANGED <<folders, slipped>>
        \/ \E f \in Folders :
             /\ folders[f].state = "absent"
             /\ folders'[f].state = "live" /\ folders'[f].parent = calls[r].into
             /\ \A g \in Folders \ {f} : folders'[g] = folders[g]
             /\ \A y : y # f => (y \in slipped' <=> y \in slipped)
             /\ calls[r].into # None /\ folders[calls[r].into].state # "live" => f \in slipped'
             /\ \A q \in Requests : /\ calls[r].into # None
                                    /\ calls[q].step = "drop" /\ calls[q].folder = calls[r].into
                                    => f \in slipped'
    <3>1. CASE UNCHANGED <<folders, slipped>>
      BY <3>1
    <3>2. ASSUME NEW f \in Folders, folders[f].state = "absent",
                 folders' = [folders EXCEPT ![f] = [state |-> "live", owner |-> calls[r].owner,
                                                   parent |-> calls[r].into, name |-> calls[r].name]],
                 Placed(f, calls[r].into)
          PROVE  /\ folders'[f].state = "live" /\ folders'[f].parent = calls[r].into
                 /\ \A g \in Folders \ {f} : folders'[g] = folders[g]
                 /\ \A y : y # f => (y \in slipped' <=> y \in slipped)
                 /\ calls[r].into # None /\ folders[calls[r].into].state # "live" => f \in slipped'
                 /\ \A q \in Requests : /\ calls[r].into # None
                                        /\ calls[q].step = "drop" /\ calls[q].folder = calls[r].into
                                        => f \in slipped'
      <4>1. /\ folders'[f].state = "live" /\ folders'[f].parent = calls[r].into
            /\ \A g \in Folders \ {f} : folders'[g] = folders[g]
        BY <3>2
      <4> QED
        BY <3>2, <4>1, Placing
    <3> QED
      BY <1>13, <3>1, <3>2, FolderMade
  <2>f. UNCHANGED <<docs, bucket>>
    BY <1>13 DEF MakeFolder
  <2>i. calls[r].into \in Folders \union {None}
    BY Fields
  <2>1. RowHasObject' /\ ChainsAreSound' /\ FamiliesAreLines' /\ LatestIsNewest'
    BY <1>13, Frame DEF MakeFolder
  <2>2. CallsAreSound'
    BY <2>e, <2>g, <2>f, <2>i DEF CallsAreSound, Rows, Idle
  <2>3. DropsAreSound'
    BY <2>e, <2>g, <2>f, <2>i, Fields, NamesAssumption DEF DropsAreSound, Held, Live, Idle, CallsAreSound
  <2>4. OrphansWereOvertaken'
    BY <2>e, <2>g, <2>f, <2>i, Fields DEF OrphansWereOvertaken, DropsAreSound, Held, Live
  <2> QED
    BY <2>1, <2>2, <2>3, <2>4, StepKeepsTypes
<1>14. ASSUME NEW r \in Requests, RenameFolder(r) PROVE IInv'
  <2>e. calls'[r] = Idle /\ \A q \in Requests \ {r} : calls'[q] = calls[q]
    BY <1>14, Ended DEF RenameFolder
  <2>g. \A f \in Folders :
             /\ folders'[f].parent = folders[f].parent
             /\ folders'[f].state = folders[f].state
                  \/ /\ folders[f].state = "live" /\ folders'[f].state = "deleted"
                     /\ calls[r].step = "drop" /\ f = calls[r].folder
    BY <1>14, FolderChanged
  <2>f. UNCHANGED <<docs, bucket, slipped>>
    BY <1>14 DEF RenameFolder
  <2>1. RowHasObject' /\ ChainsAreSound' /\ FamiliesAreLines' /\ LatestIsNewest'
    BY <1>14, Frame DEF RenameFolder
  <2>2. CallsAreSound'
    BY <2>e, <2>g, <2>f DEF CallsAreSound, Rows, Idle
  <2>3. DropsAreSound'
    BY <2>e, <2>g, <2>f, Fields, NamesAssumption DEF DropsAreSound, Held, Live, Idle, CallsAreSound
  <2>4. OrphansWereOvertaken'
    BY <2>e, <2>g, <2>f, Fields DEF OrphansWereOvertaken, DropsAreSound, Held, Live
  <2> QED
    BY <2>1, <2>2, <2>3, <2>4, StepKeepsTypes
<1>15. ASSUME NEW r \in Requests, NEW f \in Folders, BeginDrop(r, f) PROVE IInv'
  <2>1. RowHasObject' /\ ChainsAreSound' /\ FamiliesAreLines' /\ LatestIsNewest'
        /\ OrphansWereOvertaken'
    BY <1>15, Frame DEF BeginDrop
  <2>2. CallsAreSound'
    BY <1>15 DEF BeginDrop, Idle, CallsAreSound, Rows
  <2>3. DropsAreSound'
    <3>1. /\ \A q \in Requests \ {r} : calls'[q] = calls[q]
          /\ calls'[r].step = "drop" /\ calls'[r].folder = f
          /\ UNCHANGED <<docs, folders, slipped>>
      BY <1>15 DEF BeginDrop, Idle
    <3>2. /\ \A d \in Docs : docs[d].state = "live" => docs[d].folder # f
          /\ \A g \in Folders : folders[g].state = "live" => folders[g].parent # f
      BY <1>15 DEF BeginDrop, Empty, Held, Live
    <3> QED
      BY <3>1, <3>2 DEF DropsAreSound, Held, Live
  <2> QED
    BY <2>1, <2>2, <2>3, StepKeepsTypes
<1>16. ASSUME NEW r \in Requests, DropFolder(r) PROVE IInv'
  <2>e. calls'[r] = Idle /\ \A q \in Requests \ {r} : calls'[q] = calls[q]
    BY <1>16, Ended DEF DropFolder
  <2>g. \A f \in Folders :
             /\ folders'[f].parent = folders[f].parent
             /\ folders'[f].state = folders[f].state
                  \/ /\ folders[f].state = "live" /\ folders'[f].state = "deleted"
                     /\ calls[r].step = "drop" /\ f = calls[r].folder
    BY <1>16, FolderChanged
  <2>f. UNCHANGED <<docs, bucket, slipped>>
    BY <1>16 DEF DropFolder
  <2>1. RowHasObject' /\ ChainsAreSound' /\ FamiliesAreLines' /\ LatestIsNewest'
    BY <1>16, Frame DEF DropFolder
  <2>2. CallsAreSound'
    BY <2>e, <2>g, <2>f DEF CallsAreSound, Rows, Idle
  <2>3. DropsAreSound'
    BY <2>e, <2>g, <2>f, Fields, NamesAssumption DEF DropsAreSound, Held, Live, Idle, CallsAreSound
  <2>4. OrphansWereOvertaken'
    BY <2>e, <2>g, <2>f, Fields DEF OrphansWereOvertaken, DropsAreSound, Held, Live
  <2> QED
    BY <2>1, <2>2, <2>3, <2>4, StepKeepsTypes
<1>17. ASSUME NEW r \in Requests, Fail(r) PROVE IInv'
  <2>1. RowHasObject' /\ ChainsAreSound' /\ FamiliesAreLines' /\ LatestIsNewest'
        /\ OrphansWereOvertaken'
    BY <1>17, Frame DEF Fail
  <2>2. CallsAreSound'
    BY <1>17 DEF Fail, Reply, Idle, CallsAreSound, Rows
  <2>3. DropsAreSound'
    BY <1>17 DEF Fail, Reply, Idle, DropsAreSound, Held, Live
  <2> QED
    BY <2>1, <2>2, <2>3, StepKeepsTypes
<1>18. CASE UNCHANGED vars
  BY <1>18, Frame, StepKeepsTypes DEF vars
<1> QED
  BY <1>1, <1>2, <1>3, <1>4, <1>5, <1>6, <1>7, <1>8, <1>9, <1>10, <1>11, <1>12, <1>13, <1>14,
     <1>15, <1>16, <1>17, <1>18, <1>19, <1>20
     DEF Next, Begin, Work

--------------------------------------------------------------------------------
(* The invariant of all the proofs holds in every reachable state. *)
THEOREM InvariantCorrect == Spec => []IInv
  BY InvariantHoldsInitially, StepKeepsInvariant, PTL DEF Spec

(* Rows, folders and requests keep their types. *)
THEOREM TypeCorrect == Spec => []TypeOK
  BY InvariantCorrect, PTL DEF IInv

(* However uploads over one document interleave, readers see one latest         *)
(* version of it, the one nothing replaces.                                      *)
THEOREM NoTwoLatest == Spec => []OneLatestVersion
<1>1. IInv => OneLatestVersion
  <2> SUFFICES ASSUME IInv, NEW d \in Held, docs[d].latest = "yes",
                      NEW e \in Family(d) \intersect Held, docs[e].latest = "yes"
               PROVE  e = d
    BY DEF OneLatestVersion, IInv, LatestIsNewest
  <2>1. d \in Rows /\ e \in Rows /\ d \in Docs /\ e \in Docs /\ d \in Family(e)
    BY DEF Held, Live, Rows, Family
  <2>2. Newest(d) /\ Newest(e)
    BY DEF IInv, LatestIsNewest
  <2>3. ~(docs[e].version > docs[d].version) /\ ~(docs[d].version > docs[e].version)
    BY <2>1, <2>2 DEF IInv, FamiliesAreLines
  <2>4. docs[d].version \in Nat /\ docs[e].version \in Nat
    BY <2>1, Fields DEF IInv
  <2>5. docs[d].version = docs[e].version
    BY <2>3, <2>4
  <2> QED
    BY <2>1, <2>5 DEF IInv, FamiliesAreLines
<1> QED
  BY <1>1, InvariantCorrect, PTL

(* A document is left without a latest version by deletion only. *)
THEOREM CurrentUnlessDeleted == Spec => []HeadLostByDeletion
<1>1. IInv => HeadLostByDeletion
  BY DEF IInv, HeadLostByDeletion, LatestIsNewest, FamiliesAreLines, Family, Rows, Held, Live, Newest, TypeOK, Document
<1> QED
  BY <1>1, InvariantCorrect, PTL

(* No row is ever written before its object. *)
THEOREM NoRowWithoutObject == Spec => []RowHasObject
  BY InvariantCorrect, PTL DEF IInv

(* A live row in a deleted folder was put there beside the deletion. *)
THEOREM OrphansHaveACause == Spec => []OrphansWereOvertaken
  BY InvariantCorrect, PTL DEF IInv

(* What a step does to the files held and to the uploads that have passed.     *)
LEMMA QuotaSteps ==
  ASSUME IInv, [Next]_vars
  PROVE  \/ Held' \subseteq Held /\ Passed' \subseteq Passed
         \/ Held' = Held /\ Cardinality(Held) + 1 <= TenantQuota
         \/ \E r \in Passed, d \in Docs :
              Held' \subseteq Held \union {d} /\ d \notin Held /\ Passed' \subseteq Passed \ {r}
<1> DEFINE Shape ==
             \/ Held' \subseteq Held /\ Passed' \subseteq Passed
             \/ Held' = Held /\ Cardinality(Held) + 1 <= TenantQuota
             \/ \E r \in Passed, d \in Docs :
                  Held' \subseteq Held \union {d} /\ d \notin Held /\ Passed' \subseteq Passed \ {r}
<1> SUFFICES Shape
  OBVIOUS
<1> USE DEF IInv, TypeOK
<1>1. ASSUME NEW r \in Requests, NEW b \in Owners, NEW f \in Folders \union {None}, NEW n \in Names, BeginUpload(r, b, f, n) PROVE Shape
  BY <1>1 DEF BeginUpload, Held, Live, Passed, Idle
<1>2. ASSUME NEW r \in Requests, NEW d \in Docs, NEW n \in Names, BeginVersion(r, d, n) PROVE Shape
  BY <1>2 DEF BeginVersion, Held, Live, Passed, Idle
<1>3. ASSUME NEW r \in Requests, CheckLimits(r) PROVE Shape
  <2>1. CASE Reply(r)
    BY <1>3, <2>1, Ended DEF CheckLimits, Held, Live, Passed, Idle
  <2>2. CASE WithinLimits(calls[r].owner)
    BY <1>3, <2>2 DEF CheckLimits, WithinLimits, Held, Live
  <2> QED
    BY <1>3, <2>1, <2>2 DEF CheckLimits
<1>4. ASSUME NEW r \in Requests, FindConflict(r) PROVE Shape
  <2>1. UNCHANGED docs /\ r \in Passed
    BY <1>4 DEF FindConflict, Passed
  <2>2. Held' = Held
    BY <2>1 DEF Held, Live
  <2>3. \A q \in Requests \ {r} : calls'[q] = calls[q]
    BY <1>4, Ended, Stores DEF FindConflict, Candidates, Held
  <2>4. Passed' \subseteq Passed
    BY <2>1, <2>3 DEF Passed
  <2> QED
    BY <2>2, <2>4
<1>5. ASSUME NEW r \in Requests, InsertFirst(r) PROVE Shape
  <2>1. calls[r].doc \in Docs /\ docs[calls[r].doc].state = "absent" /\ calls[r].step = "insert"
    BY <1>5, Inserting DEF InsertFirst
  <2>2. calls'[r] = Idle /\ \A q \in Requests \ {r} : calls'[q] = calls[q]
    BY <1>5, Ended DEF InsertFirst
  <2>3. \A x \in Docs \ {calls[r].doc} : docs'[x].state = docs[x].state
    BY <1>5, <2>1, FirstRow
  <2>4. r \in Passed /\ Passed' \subseteq Passed \ {r}
    BY <2>1, <2>2 DEF Passed, Idle
  <2>5. Held' \subseteq Held \union {calls[r].doc} /\ calls[r].doc \notin Held
    BY <2>1, <2>3 DEF Held, Live
  <2> QED
    BY <2>1, <2>4, <2>5
<1>6. ASSUME NEW r \in Requests, InsertVersion(r) PROVE Shape
  <2>1. calls[r].doc \in Docs /\ docs[calls[r].doc].state = "absent" /\ calls[r].step = "insert"
    BY <1>6, Inserting DEF InsertVersion
  <2>2. calls'[r] = Idle /\ \A q \in Requests \ {r} : calls'[q] = calls[q]
    BY <1>6, Ended DEF InsertVersion
  <2>3. \A x \in Docs \ {calls[r].doc} : docs'[x].state = docs[x].state
    BY <1>6, <2>1, VersionRow, Inserting DEF InsertVersion
  <2>4. r \in Passed /\ Passed' \subseteq Passed \ {r}
    BY <2>1, <2>2 DEF Passed, Idle
  <2>5. Held' \subseteq Held \union {calls[r].doc} /\ calls[r].doc \notin Held
    BY <2>1, <2>3 DEF Held, Live
  <2> QED
    BY <2>1, <2>4, <2>5
<1>7. ASSUME NEW r \in Requests, RefuseVersion(r) PROVE Shape
  BY <1>7, Ended DEF RefuseVersion, Held, Live, Passed, Idle
<1>8. ASSUME NEW r \in Requests, NEW d \in Docs, NEW b \in Owners, NEW f \in Folders \union {None}, BeginMove(r, d, b, f) PROVE Shape
  BY <1>8 DEF BeginMove, Held, Live, Passed, Idle
<1>9. ASSUME NEW r \in Requests, Move(r) PROVE Shape
  <2>1. \A x \in Docs : docs'[x].state = docs[x].state
    BY <1>9, Moved
  <2> QED
    BY <1>9, <2>1, Ended DEF Move, Held, Live, Passed, Idle
<1>19. ASSUME NEW r \in Requests, NEW d \in Docs, NEW b \in Owners, BeginRetag(r, d, b) PROVE Shape
  BY <1>19 DEF BeginRetag, Held, Live, Passed, Idle
<1>20. ASSUME NEW r \in Requests, Retag(r) PROVE Shape
  <2>1. \A x \in Docs : docs'[x].state = docs[x].state
    BY <1>20, Retagged
  <2> QED
    BY <1>20, <2>1, Ended DEF Retag, Held, Live, Passed, Idle
<1>10. ASSUME NEW d \in Docs, DeleteDocument(d) PROVE Shape
  BY <1>10 DEF DeleteDocument, Held, Live, Passed, Idle
<1>11. ASSUME NEW r \in Requests, NEW b \in Owners, NEW p \in Folders \union {None}, NEW n \in Names, BeginFolder(r, b, p, n) PROVE Shape
  BY <1>11 DEF BeginFolder, Held, Live, Passed, Idle
<1>12. ASSUME NEW r \in Requests, NEW f \in Folders, NEW n \in Names, BeginRename(r, f, n) PROVE Shape
  BY <1>12 DEF BeginRename, Held, Live, Passed, Idle
<1>13. ASSUME NEW r \in Requests, MakeFolder(r) PROVE Shape
  BY <1>13, Ended DEF MakeFolder, Held, Live, Passed, Idle
<1>14. ASSUME NEW r \in Requests, RenameFolder(r) PROVE Shape
  BY <1>14, Ended DEF RenameFolder, Held, Live, Passed, Idle
<1>15. ASSUME NEW r \in Requests, NEW f \in Folders, BeginDrop(r, f) PROVE Shape
  BY <1>15 DEF BeginDrop, Held, Live, Passed, Idle
<1>16. ASSUME NEW r \in Requests, DropFolder(r) PROVE Shape
  BY <1>16, Ended DEF DropFolder, Held, Live, Passed, Idle
<1>17. ASSUME NEW r \in Requests, Fail(r) PROVE Shape
  BY <1>17, Ended DEF Fail, Held, Live, Passed, Idle
<1>18. CASE UNCHANGED vars
  BY <1>18 DEF vars, Held, Live, Passed
<1> QED
  BY <1>1, <1>2, <1>3, <1>4, <1>5, <1>6, <1>7, <1>8, <1>9,
     <1>10, <1>11, <1>12, <1>13, <1>14, <1>15, <1>16, <1>17, <1>18, <1>19, <1>20 DEF Next, Begin, Work

LEMMA FiniteCounts ==
  /\ IsFiniteSet(Held) /\ IsFiniteSet(Passed)
  /\ Cardinality(Held) \in Nat /\ Cardinality(Passed) \in Nat
  /\ Cardinality(Passed) <= Cardinality(Requests)
  /\ Cardinality(Requests) \in Nat /\ Cardinality(Requests) > 0
<1>1. Held \subseteq Docs /\ Passed \subseteq Requests
  BY DEF Held, Passed
<1>2. /\ IsFiniteSet(Held) /\ IsFiniteSet(Passed)
      /\ Cardinality(Passed) <= Cardinality(Requests)
  BY <1>1, DocsAssumption, RequestsAssumption, FS_Subset
<1>3. /\ Cardinality(Held) \in Nat /\ Cardinality(Passed) \in Nat /\ Cardinality(Requests) \in Nat
  BY <1>2, RequestsAssumption, FS_CardinalityType
<1>4. Cardinality(Requests) # 0
  BY RequestsAssumption, FS_EmptySet
<1> QED
  BY <1>2, <1>3, <1>4

(* However many uploads pass the quota together, what the tenant holds exceeds   *)
(* it by fewer files than there are requests in flight.                          *)
THEOREM QuotaOvershootIsBounded == Spec => []OvershootBounded
<1>1. Init => OvershootBounded
  <2> SUFFICES ASSUME Init PROVE OvershootBounded
    OBVIOUS
  <2>1. Held = {} /\ Passed = {}
    BY DEF Init, Held, Live, Passed, NoDoc, Idle
  <2> QED
    BY <2>1, FiniteCounts, FS_EmptySet, QuotaAssumption DEF OvershootBounded
<1>2. IInv /\ OvershootBounded /\ [Next]_vars => OvershootBounded'
  <2> SUFFICES ASSUME IInv, OvershootBounded, [Next]_vars PROVE OvershootBounded'
    OBVIOUS
  <2>c. /\ IsFiniteSet(Held) /\ IsFiniteSet(Passed)
        /\ Cardinality(Held) \in Nat /\ Cardinality(Passed) \in Nat
        /\ Cardinality(Passed) <= Cardinality(Requests) /\ Cardinality(Requests) \in Nat
    BY FiniteCounts
  <2>p. /\ IsFiniteSet(Held') /\ IsFiniteSet(Passed')
        /\ Cardinality(Held') \in Nat /\ Cardinality(Passed') \in Nat
        /\ Cardinality(Passed') <= Cardinality(Requests)
    <3>1. Held' \subseteq Docs /\ Passed' \subseteq Requests
      BY DEF Held, Passed
    <3> QED
      BY <3>1, DocsAssumption, RequestsAssumption, FS_Subset, FS_CardinalityType
  <2>1. CASE Held' \subseteq Held /\ Passed' \subseteq Passed
    <3>1. Cardinality(Held') <= Cardinality(Held) /\ Cardinality(Passed') <= Cardinality(Passed)
      BY <2>1, <2>c, FS_Subset
    <3> QED
      BY <3>1, <2>c, <2>p, QuotaAssumption DEF OvershootBounded
  <2>2. CASE Held' = Held /\ Cardinality(Held) + 1 <= TenantQuota
    BY <2>2, <2>c, <2>p, QuotaAssumption DEF OvershootBounded
  <2>3. ASSUME NEW r \in Passed, NEW d \in Docs, Held' \subseteq Held \union {d}, d \notin Held,
               Passed' \subseteq Passed \ {r}
        PROVE  OvershootBounded'
    <3>1. IsFiniteSet(Held \union {d}) /\ Cardinality(Held \union {d}) = Cardinality(Held) + 1
      BY <2>3, <2>c, FS_AddElement
    <3>2. IsFiniteSet(Passed \ {r}) /\ Cardinality(Passed \ {r}) = Cardinality(Passed) - 1
      BY <2>3, <2>c, FS_RemoveElement
    <3>3. Cardinality(Held') <= Cardinality(Held) + 1 /\ Cardinality(Passed') <= Cardinality(Passed) - 1
      BY <2>3, <3>1, <3>2, FS_Subset
    <3> QED
      BY <3>3, <2>c, <2>p, QuotaAssumption DEF OvershootBounded
  <2> QED
    BY <2>1, <2>2, <2>3, QuotaSteps
<1> QED
  BY <1>1, <1>2, InvariantCorrect, PTL DEF Spec
================================================================================
