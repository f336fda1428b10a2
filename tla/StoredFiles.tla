------------------------------ MODULE StoredFiles ------------------------------
(***************************************************************************)
(* The rows of one inspection that name a stored file, and the files: the  *)
(* official report, the draft of the current round, and the reviewer's map *)
(* image, in the private Blob store.                                       *)
(*                                                                         *)
(* A handler stores its file before the transaction that writes the row,   *)
(* and removes the replaced one after it; nothing ties the two together.   *)
(* put asks whether the key exists and, if so, leaves the stored object    *)
(* alone, though it returns the checksum of what it was given.             *)
(*                                                                         *)
(* The key of a map image is its content.  The key of a report is its      *)
(* number and version, whatever was rendered: two renderings always        *)
(* differ, since each prints the time.  Each report number has at most one *)
(* row: two first generations that overlap create the same version, and    *)
(* the unique key rolls one of them back (Abandon).  Sizes, the reviewer's *)
(* name and the audit rows are left out.                                   *)
(***************************************************************************)
EXTENDS Integers

CONSTANTS
  Handlers,     \* slots for requests the server handles at one time
  Images,       \* contents of map images
  NoImage,      \* no row, or no key
  MaxRenderings \* bound: the number of PDFs rendered

ASSUME FilesAssumption ==
  /\ NoImage \notin Images
  /\ MaxRenderings \in Nat

VARIABLES
  stage,       \* where the inspection stands
  reports,     \* the row of each report: its version (0: none) and checksum
  files,       \* the stored PDF of each kind and version (0: none)
  mapImage,    \* the key in the reviewer_map_images row
  images,      \* the stored map images
  handlers,    \* what each request slot is doing
  renderings,  \* the number of PDFs rendered so far
  overlapped,  \* history: a handler has begun while another was running
  interrupted  \* history: one has ended between storing a PDF and its commit

vars == <<stage, reports, files, mapImage, images, handlers, renderings,
          overlapped, interrupted>>
rows == <<stage, reports, mapImage>>
store == <<files, images>>

\* SUBMITTED, UNDER_REVIEW or RESUBMITTED; APPROVED; REPORT_GENERATED.
Stages == {"review", "approved", "reported"}

Kinds == {"official", "draft"}

\* A PDF is named by the order in which it was rendered; a version is at most
\* the number of renderings.
Bodies == 1..MaxRenderings
Versions == 1..MaxRenderings

Row == [version : 0..MaxRenderings, checksum : 0..MaxRenderings]
NoRow == [version |-> 0, checksum |-> 0]

Steps == {"idle", "look", "write", "stored", "serving", "read", "ready",
          "deleting"}

\* first: the official report of a generation that is at its draft; image: the
\* uploaded image; previous: the one its row named before.
Handler == [op : {"none", "draft", "generate", "download", "upload", "remove"},
            step : Steps, kind : Kinds, pdf : Row, first : Row,
            image : Images \cup {NoImage}, previous : Images \cup {NoImage}]

Idle == [op |-> "none", step |-> "idle", kind |-> "draft", pdf |-> NoRow,
         first |-> NoRow, image |-> NoImage, previous |-> NoImage]

FilesTypeOK ==
  /\ stage \in Stages
  /\ reports \in [Kinds -> Row]
  /\ files \in [Kinds -> [Versions -> 0..MaxRenderings]]
  /\ mapImage \in Images \cup {NoImage}
  /\ images \in SUBSET Images
  /\ handlers \in [Handlers -> Handler]
  /\ renderings \in 0..MaxRenderings
  /\ overlapped \in BOOLEAN
  /\ interrupted \in BOOLEAN

At(h, op, step) == handlers[h].op = op /\ handlers[h].step = step

Set(h, q) == handlers' = [handlers EXCEPT ![h] = q]

Begin(h, q) ==
  /\ handlers[h].step = "idle"
  /\ Set(h, q)
  /\ overlapped' = (overlapped \/ \E g \in Handlers : handlers[g].step # "idle")
  /\ UNCHANGED interrupted

Proceed(h, q) == Set(h, q) /\ UNCHANGED <<overlapped, interrupted>>

-----------------------------------------------------------------------------
(* Reports: the newest version is read, the next is rendered and stored. *)

\* Mutant: the version is kept.
SameVersion(kind) == IF reports[kind].version = 0 THEN 1
                     ELSE reports[kind].version

\* Mutant: a version is left out.
SkippedVersion(kind) == reports[kind].version + 2

NextVersion(kind) == reports[kind].version + 1

\* The handler's next PDF: rendered, and about to be put.
Rendering(q, kind) ==
  [q EXCEPT !.step = "look", !.kind = kind,
            !.pdf = [version |-> NextVersion(kind),
                     checksum |-> renderings + 1]]

Render ==
  /\ renderings < MaxRenderings
  /\ renderings' = renderings + 1

\* Every stage is one that generateDraft accepts.
DraftRead(h) ==
  /\ Render
  /\ Begin(h, Rendering([Idle EXCEPT !.op = "draft"], "draft"))
  /\ UNCHANGED <<rows, store>>

GenerateRead(h) ==
  /\ stage \in {"approved", "reported"}
  /\ Render
  /\ Begin(h, Rendering([Idle EXCEPT !.op = "generate"], "official"))
  /\ UNCHANGED <<rows, store>>

\* A download of the official report renders it anew.  (One of a draft signs
\* the key in its row and writes nothing.)
DownloadRead(h) ==
  /\ reports["official"].version > 0
  /\ stage \in {"approved", "reported"}
  /\ Render
  /\ Begin(h, Rendering([Idle EXCEPT !.op = "download"], "official"))
  /\ UNCHANGED <<rows, store>>

\* put: the key is looked up, and written if nothing was found under it.
\* Mutant: put returns before the object is there.
AssumeStored(found) == "stored"

AfterLook(found) == IF found THEN "stored" ELSE "write"

PutLook(h) ==
  LET q == handlers[h]
  IN  /\ q.op \in {"draft", "generate", "download"}
      /\ q.step = "look"
      /\ Proceed(h, [q EXCEPT !.step =
                       AfterLook(files[q.kind][q.pdf.version] # 0)])
      /\ UNCHANGED <<rows, store, renderings>>

\* allowOverwrite: whatever has come there since is replaced.
PutWrite(h) ==
  LET q == handlers[h]
  IN  /\ q.op \in {"draft", "generate", "download"}
      /\ q.step = "write"
      /\ files' = [files EXCEPT ![q.kind][q.pdf.version] = q.pdf.checksum]
      /\ Proceed(h, [q EXCEPT !.step = "stored"])
      /\ UNCHANGED <<rows, images, renderings>>

DraftCommit(h) ==
  /\ At(h, "draft", "stored")
  /\ reports' = [reports EXCEPT !["draft"] = handlers[h].pdf]
  /\ Proceed(h, Idle)
  /\ UNCHANGED <<stage, mapImage, store, renderings>>

\* The official PDF is stored; the draft of the round is rendered again.
GenerateReadDraft(h) ==
  LET q == handlers[h]
  IN  /\ At(h, "generate", "stored")
      /\ q.kind = "official"
      /\ Render
      /\ Proceed(h, Rendering([q EXCEPT !.first = q.pdf], "draft"))
      /\ UNCHANGED <<rows, store>>

GenerateCommit(h) ==
  LET q == handlers[h]
  IN  /\ At(h, "generate", "stored")
      /\ q.kind = "draft"
      /\ reports' = [official |-> q.first, draft |-> q.pdf]
      /\ stage' = "reported"
      /\ Proceed(h, Idle)
      /\ UNCHANGED <<mapImage, store, renderings>>

\* The row is updated by id, outside a transaction; then its key is signed.
DownloadCommit(h) ==
  LET q == handlers[h]
  IN  /\ At(h, "download", "stored")
      /\ reports' = [reports EXCEPT !["official"] = q.pdf]
      /\ Proceed(h, [q EXCEPT !.step = "serving"])
      /\ UNCHANGED <<stage, mapImage, store, renderings>>

\* Mutant: the key that the row held when it was read.
KeptKey(q) == q.pdf.version - 1

\* The version whose key is signed.
SignedKey(q) == q.pdf.version

Serve(h) ==
  /\ At(h, "download", "serving")
  /\ Proceed(h, Idle)
  /\ UNCHANGED <<rows, store, renderings>>

-----------------------------------------------------------------------------
(* The map image: stored before its row, the replaced one deleted after. *)

UploadRead(h, image) ==
  /\ stage = "review"
  /\ Begin(h, [Idle EXCEPT !.op = "upload", !.step = "look", !.image = image])
  /\ UNCHANGED <<rows, store, renderings>>

UploadLook(h) ==
  LET q == handlers[h]
  IN  /\ At(h, "upload", "look")
      /\ Proceed(h, [q EXCEPT !.step = AfterLook(q.image \in images)])
      /\ UNCHANGED <<rows, store, renderings>>

UploadWrite(h) ==
  LET q == handlers[h]
  IN  /\ At(h, "upload", "write")
      /\ images' = images \cup {q.image}
      /\ Proceed(h, [q EXCEPT !.step = "stored"])
      /\ UNCHANGED <<rows, files, renderings>>

UploadReadPrevious(h) ==
  /\ At(h, "upload", "stored")
  /\ Proceed(h, [handlers[h] EXCEPT !.step = "ready", !.previous = mapImage])
  /\ UNCHANGED <<rows, store, renderings>>

\* Mutant: an upload of the same image again deletes it.
ReplacesAny(q) == q.previous # NoImage

\* Whether the upload leaves a file behind that its row no longer names.
Replaces(q) == q.previous \notin {NoImage, q.image}

UploadCommit(h) ==
  LET q == handlers[h]
  IN  /\ At(h, "upload", "ready")
      /\ mapImage' = q.image
      /\ Proceed(h, IF Replaces(q) THEN [q EXCEPT !.step = "deleting"]
                    ELSE Idle)
      /\ UNCHANGED <<stage, reports, store, renderings>>

RemoveRead(h) ==
  /\ stage = "review"
  /\ Begin(h, [Idle EXCEPT !.op = "remove", !.step = "read"])
  /\ UNCHANGED <<rows, store, renderings>>

RemoveReadRow(h) ==
  /\ At(h, "remove", "read")
  /\ mapImage # NoImage
  /\ Proceed(h, [handlers[h] EXCEPT !.step = "ready", !.previous = mapImage])
  /\ UNCHANGED <<rows, store, renderings>>

\* DELETE ... WHERE inspection_id: the row, whatever it names by now.
RemoveCommit(h) ==
  /\ At(h, "remove", "ready")
  /\ mapImage' = NoImage
  /\ Proceed(h, [handlers[h] EXCEPT !.step = "deleting"])
  /\ UNCHANGED <<stage, reports, store, renderings>>

DeleteFile(h) ==
  /\ handlers[h].step = "deleting"
  /\ images' = images \ {handlers[h].previous}
  /\ Proceed(h, Idle)
  /\ UNCHANGED <<rows, files, renderings>>

-----------------------------------------------------------------------------

\* A refusal, a failed call to the store, a rolled back transaction, a server
\* that stops: what was stored stays stored.
Abandon(h) ==
  LET q == handlers[h]
  IN  /\ q.step # "idle"
      /\ Set(h, Idle)
      /\ interrupted' = (interrupted \/ q.first # NoRow
                           \/ (q.pdf # NoRow /\ q.step = "stored"))
      /\ UNCHANGED <<rows, store, renderings, overlapped>>

\* The reviewer approves (module InspectionWorkflow).
Approve ==
  /\ stage = "review"
  /\ stage' = "approved"
  /\ UNCHANGED <<reports, mapImage, store, handlers, renderings, overlapped,
                 interrupted>>

Init ==
  /\ stage = "review"
  /\ reports = [kind \in Kinds |-> NoRow]
  /\ files = [kind \in Kinds |-> [v \in Versions |-> 0]]
  /\ mapImage = NoImage
  /\ images = {}
  /\ handlers = [h \in Handlers |-> Idle]
  /\ renderings = 0
  /\ overlapped = FALSE
  /\ interrupted = FALSE

ReportStep(h) ==
  \/ DraftRead(h)
  \/ GenerateRead(h)
  \/ DownloadRead(h)
  \/ PutLook(h)
  \/ PutWrite(h)
  \/ DraftCommit(h)
  \/ GenerateReadDraft(h)
  \/ GenerateCommit(h)
  \/ DownloadCommit(h)
  \/ Serve(h)

MapStep(h) ==
  \/ \E image \in Images : UploadRead(h, image)
  \/ UploadLook(h)
  \/ UploadWrite(h)
  \/ UploadReadPrevious(h)
  \/ UploadCommit(h)
  \/ RemoveRead(h)
  \/ RemoveReadRow(h)
  \/ RemoveCommit(h)
  \/ DeleteFile(h)

Next ==
  \/ \E h \in Handlers : ReportStep(h) \/ MapStep(h) \/ Abandon(h)
  \/ Approve

Spec == Init /\ [][Next]_vars

-----------------------------------------------------------------------------
(* Properties *)

(***************************************************************************)
(* However generations and downloads overlap or break off, the row of a    *)
(* report names a PDF that is stored: the file is put before the row is    *)
(* written and nothing removes it.                                         *)
(***************************************************************************)
ReportRowsNameStoredFiles ==
  \A kind \in Kinds :
    reports[kind].version > 0 => files[kind][reports[kind].version] # 0

(***************************************************************************)
(* The checksum in a report's row is that of the PDF stored under its key, *)
(* so long as no handlers overlapped and none broke off between its put    *)
(* and its commit: every new version has a key of its own.                 *)
(***************************************************************************)
ReportDescribesItsFile ==
  ~ overlapped /\ ~ interrupted =>
    \A kind \in Kinds :
      reports[kind].version > 0 =>
        files[kind][reports[kind].version] = reports[kind].checksum

(***************************************************************************)
(* A download of the official report serves the PDF it has just rendered   *)
(* from the live data, under the same condition.                           *)
(***************************************************************************)
DownloadsAreLive ==
  \A h \in Handlers :
    At(h, "download", "serving") /\ ~ overlapped /\ ~ interrupted =>
      files["official"][SignedKey(handlers[h])] = handlers[h].pdf.checksum

(***************************************************************************)
(* The reviewer's map image is there when its row says so, though uploads  *)
(* and removals break off anywhere, unless two have overlapped: a removal  *)
(* deletes its file last, when an upload of the same content may already   *)
(* have found it and named it again.                                       *)
(***************************************************************************)
MapImageIsStored ==
  ~ overlapped => mapImage = NoImage \/ mapImage \in images

=============================================================================
