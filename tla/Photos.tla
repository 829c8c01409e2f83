------------------------------- MODULE Photos -------------------------------
(***************************************************************************)
(* The photos of products, pickings and packings: addPhoto and removePhoto *)
(* of products/, picking/ and packing/, over the files that                *)
(* uploads/uploads.service.ts stores.  An addition is one statement; a     *)
(* removal reads the list, writes it without the photo and then deletes    *)
(* the file.                                                               *)
(*                                                                         *)
(* A photo is uploaded, added to one record and removed from that record,  *)
(* the way uploads.controller.ts describes.  Abstracted: the order of a    *)
(* list, images and their formats, the activity log.                       *)
(***************************************************************************)
EXTENDS Naturals, FiniteSets

CONSTANTS Photo, Record,
          NoRecord,
          Request      \* requests that run at the same time

\* What an instance has to give its constants.
PhotosAssumption == NoRecord \notin Record

VARIABLES files,     \* the files in the storage
          home,      \* the record each photo was added to
          listed,    \* photos of each record
          asked,     \* what its users asked for: added and not removed
          doing      \* what each request does

vars == <<files, home, listed, asked, doing>>

Idle == [stage |-> "idle"]

Init ==
  /\ files = {}
  /\ home = [p \in Photo |-> NoRecord]
  /\ listed = [r \in Record |-> {}]
  /\ asked = [r \in Record |-> {}]
  /\ doing = [q \in Request |-> Idle]

\* saveFile: names are random, so a photo is stored once.
Upload(p) ==
  /\ p \notin files /\ home[p] = NoRecord
  /\ files' = files \union {p}
  /\ UNCHANGED <<home, listed, asked, doing>>

\* addPhoto (push)
AddPhoto(r, p) ==
  /\ p \in files /\ home[p] = NoRecord
  /\ home' = [home EXCEPT ![p] = r]
  /\ listed' = [listed EXCEPT ![r] = @ \union {p}]
  /\ asked' = [asked EXCEPT ![r] = @ \union {p}]
  /\ UNCHANGED <<files, doing>>

\* Mutated form: the file is deleted before the list is written.
FindAndDelete(q, r, p) ==
  /\ doing[q] = Idle /\ home[p] = r
  /\ doing' = [doing EXCEPT ![q] =
       [stage |-> "deleting", record |-> r, photo |-> p, read |-> listed[r]]]
  /\ UNCHANGED <<files, home, listed, asked>>

\* removePhoto (findById): also when the photo was removed already.
FindToRemove(q, r, p) ==
  /\ doing[q] = Idle /\ home[p] = r
  /\ doing' = [doing EXCEPT ![q] =
       [stage |-> "writing", record |-> r, photo |-> p, read |-> listed[r]]]
  /\ UNCHANGED <<files, home, listed, asked>>

\* Mutated form: list.splice(list.indexOf(photo), 1), which removes another
\* photo when this one is not in the list.
Spliced(list, p) ==
  IF p \in list \/ list = {} THEN list \ {p} ELSE list \ {CHOOSE o \in list : TRUE}

\* photos.filter
Rest(list, p) == list \ {p}

\* removePhoto (update)
WriteRest(q) ==
  LET d == doing[q]
  IN  /\ d.stage = "writing"
      /\ listed' = [listed EXCEPT ![d.record] = Rest(d.read, d.photo)]
      /\ asked' = [asked EXCEPT ![d.record] = @ \ {d.photo}]
      /\ doing' = [doing EXCEPT ![q].stage = "deleting"]
      /\ UNCHANGED <<files, home>>

\* removePhoto (deleteFile): a failure of the storage is only logged.
DeleteFile(q) ==
  /\ doing[q].stage = "deleting"
  /\ files' \in {files, files \ {doing[q].photo}}
  /\ doing' = [doing EXCEPT ![q] = Idle]
  /\ UNCHANGED <<home, listed, asked>>

Next ==
  \/ \E p \in Photo : Upload(p) \/ \E r \in Record : AddPhoto(r, p)
  \/ \E q \in Request :
       \/ \E p \in Photo, r \in Record : FindToRemove(q, r, p)
       \/ WriteRest(q) \/ DeleteFile(q)

Spec == Init /\ [][Next]_vars

\* One request at a time: nothing is added while a photo is removed.
AloneNext ==
  /\ Next
  /\ Cardinality({q \in Request : doing'[q] # Idle}) <= 1
  /\ home # home' => \A q \in Request : doing[q] = Idle

-----------------------------------------------------------------------------
(* Correctness *)

\* Type invariant: a list holds photos that were added to it, and nobody who
\* deletes a file has still to take it off the list.
PhotosTypeOK ==
  /\ files \subseteq Photo
  /\ home \in [Photo -> Record \union {NoRecord}]
  /\ \A r \in Record : listed[r] \union asked[r] \subseteq {p \in Photo : home[p] = r}
  /\ \A q \in Request :
       doing[q].stage = "deleting" => doing[q].photo \notin asked[doing[q].record]

\* A file is deleted from the storage only after its removal was asked for and
\* written, however the requests for a record interleave.
OnlyRemovedDeleted ==
  \A r \in Record : asked[r] \subseteq files

\* "Elimina una foto de la lista": a removal takes one photo off the list, and
\* no other photo comes or goes with it.
PhotosAsAsked ==
  \A r \in Record : listed[r] = asked[r]

\* A photo in a list can be shown: its file is there.
PhotosHaveFiles ==
  \A r \in Record : listed[r] \subseteq files

=============================================================================
