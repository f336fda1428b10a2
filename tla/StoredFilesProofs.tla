------------------------- MODULE StoredFilesProofs -------------------------
(***************************************************************************)
(* Theorems about StoredFiles: for any number of handlers, images and      *)
(* renderings, that a report's row names a stored PDF; and until handlers  *)
(* overlap or break off, that it describes that PDF, that a download       *)
(* serves what it rendered, and that the map image is there.               *)
(***************************************************************************)
EXTENDS StoredFiles, TLAPS

ReportOps == {"draft", "generate", "download"}

\* A PDF that has been rendered.
Rendered(pdf) == pdf.version \in 1..renderings /\ pdf.checksum \in 1..renderings

Stored(kind, version) == files[kind][version] # 0

\* What a handler carries from one of its steps to the next.
Carried(q) ==
  /\ q.op = "upload" => q.image \in Images
  /\ q.op \in ReportOps =>
       /\ Rendered(q.pdf)
       /\ q.op = "draft" => q.kind = "draft"
       /\ q.op = "download" => q.kind = "official"
       /\ q.step \in {"stored", "serving"} => Stored(q.kind, q.pdf.version)
       /\ q.op = "generate" /\ q.kind = "draft" =>
            Rendered(q.first) /\ Stored("official", q.first.version)

VersionsAreRendered ==
  \A kind \in Kinds : reports[kind].version <= renderings

FilesInv ==
  /\ FilesTypeOK
  /\ VersionsAreRendered
  /\ \A h \in Handlers : Carried(handlers[h])
  /\ ReportRowsNameStoredFiles

-----------------------------------------------------------------------------

LEMMA IdleHandler == Idle \in Handler /\ Idle.step = "idle" /\ Idle.op = "none"
BY FilesAssumption DEF Idle, Handler, Steps, Kinds, NoRow, Row

\* What is carried stays true: files stay and renderings only grow.
LEMMA CarriedIsStable ==
  ASSUME FilesInv, NEW q \in Handler, Carried(q), renderings' \in Nat,
         renderings <= renderings',
         \A kind \in Kinds : \A version \in Versions :
           Stored(kind, version) => Stored(kind, version)'
  PROVE  Carried(q)'
<1>1. /\ renderings \in 0..MaxRenderings
      /\ MaxRenderings \in Nat
      /\ q.kind \in Kinds
      /\ q.pdf \in Row /\ q.first \in Row
  BY FilesAssumption DEF FilesInv, FilesTypeOK, Handler
<1>2. ASSUME NEW pdf \in Row, Rendered(pdf)
      PROVE  Rendered(pdf)' /\ pdf.version \in Versions
  BY <1>1, <1>2 DEF Rendered, Row, Versions
<1>3. "official" \in Kinds
  BY DEF Kinds
<1>4. QED
  BY <1>1, <1>2, <1>3 DEF Carried

\* What it takes for a step of handler h to preserve FilesInv.
LEMMA HandlerStep ==
  ASSUME FilesInv, NEW h \in Handlers, NEW q \in Handler, Set(h, q),
         Carried(q)',
         stage' \in Stages, reports' \in [Kinds -> Row],
         files' \in [Kinds -> [Versions -> 0..MaxRenderings]],
         mapImage' \in Images \cup {NoImage}, images' \in SUBSET Images,
         renderings' \in 0..MaxRenderings, renderings <= renderings',
         overlapped' \in BOOLEAN, interrupted' \in BOOLEAN,
         \A kind \in Kinds : \A version \in Versions :
           Stored(kind, version) => Stored(kind, version)',
         \A kind \in Kinds :
           \/ reports'[kind] = reports[kind]
           \/ /\ reports'[kind].version \in 1..renderings
              /\ Stored(kind, reports'[kind].version)
  PROVE  FilesInv'
<1>1. MaxRenderings \in Nat /\ FilesTypeOK
  BY FilesAssumption DEF FilesInv
<1>2. handlers' = [handlers EXCEPT ![h] = q]
  BY DEF Set
<1>3. FilesTypeOK'
  BY <1>1, <1>2 DEF FilesTypeOK
<1>4. \A kind \in Kinds : reports'[kind].version \in 0..MaxRenderings
  BY DEF Row
<1>5. VersionsAreRendered'
  BY <1>1, <1>4 DEF FilesInv, FilesTypeOK, VersionsAreRendered, Row
<1>6. ASSUME NEW g \in Handlers
      PROVE  Carried(handlers[g])'
  <2>1. handlers[g] \in Handler /\ Carried(handlers[g])
    BY <1>1 DEF FilesInv, FilesTypeOK
  <2>2. handlers'[g] = q \/ handlers'[g] = handlers[g]
    BY <1>1, <1>2 DEF FilesTypeOK
  <2>3. ASSUME NEW r, r = handlers'[g], Carried(r)'
        PROVE  Carried(handlers[g])'
    BY <2>3 DEF Carried, Rendered, Stored
  <2>4. renderings' \in Nat
    BY <1>1
  <2>5. Carried(q)' /\ (handlers'[g] = handlers[g] => Carried(handlers[g])')
    BY <2>1, <2>4, CarriedIsStable
  <2>6. QED
    BY <2>2, <2>3, <2>5
<1>7. ReportRowsNameStoredFiles'
  BY <1>1, <1>4 DEF FilesInv, FilesTypeOK, ReportRowsNameStoredFiles, Stored,
                    Versions, Row
<1>8. QED
  BY <1>3, <1>5, <1>6, <1>7 DEF FilesInv

\* A rendering: a new version of its kind, with a checksum of its own.
LEMMA RenderingIsCarried ==
  ASSUME FilesInv, NEW r \in Handler, NEW kind \in Kinds, Render,
         r.op \in ReportOps,
         r.op = "draft" => kind = "draft",
         r.op = "download" => kind = "official",
         r.op = "generate" /\ kind = "draft" =>
           Rendered(r.first) /\ Stored("official", r.first.version),
         UNCHANGED files
  PROVE  \E q \in Handler : q = Rendering(r, kind) /\ Carried(q)'
<1>1. /\ renderings \in 0..MaxRenderings /\ MaxRenderings \in Nat
      /\ renderings < MaxRenderings /\ renderings' = renderings + 1
  BY FilesAssumption DEF FilesInv, FilesTypeOK, Render
<1>2. reports[kind].version \in 0..renderings
  BY <1>1 DEF FilesInv, FilesTypeOK, VersionsAreRendered, Row
<1>3. PICK pdf \in Row : pdf = [version |-> reports[kind].version + 1,
                                checksum |-> renderings + 1]
  <2>1. /\ reports[kind].version + 1 \in 0..MaxRenderings
        /\ renderings + 1 \in 0..MaxRenderings
    BY <1>1, <1>2
  <2>2. QED
    BY <2>1 DEF Row
<1>4. PICK q \in Handler : q = Rendering(r, kind)
  BY <1>3 DEF Rendering, NextVersion, Handler, Steps
<1>5. /\ q.op = r.op /\ q.step = "look" /\ q.kind = kind /\ q.first = r.first
      /\ q.pdf = pdf
  BY <1>3, <1>4 DEF Rendering, NextVersion, Handler
<1>6. Rendered(q.pdf)'
  BY <1>1, <1>2, <1>3, <1>5 DEF Rendered
<1>7. r.first \in Row
  BY DEF Handler
<1>8. Rendered(r.first) => Rendered(r.first)'
  BY <1>1, <1>7 DEF Rendered, Row
<1>9. Carried(q)'
  BY <1>5, <1>6, <1>8 DEF Carried, Stored, ReportOps
<1>10. QED
  BY <1>4, <1>9

\* A handler that goes on without touching the rows or the store.
LEMMA QuietStep ==
  ASSUME FilesInv, NEW h \in Handlers, NEW q \in Handler, Set(h, q),
         Carried(q)', UNCHANGED <<rows, store>>,
         renderings' \in 0..MaxRenderings, renderings <= renderings',
         overlapped' \in BOOLEAN, interrupted' \in BOOLEAN
  PROVE  FilesInv'
<1>1. FilesTypeOK
  BY DEF FilesInv
<1>2. QED
  BY <1>1, HandlerStep DEF FilesTypeOK, rows, store, Stored

LEMMA RenderKeepsInv ==
  ASSUME FilesInv, NEW h \in Handlers,
         DraftRead(h) \/ GenerateRead(h) \/ DownloadRead(h)
           \/ GenerateReadDraft(h)
  PROVE  FilesInv'
<1>1. /\ Render /\ UNCHANGED <<rows, store>>
      /\ overlapped' \in BOOLEAN /\ interrupted' \in BOOLEAN
  BY DEF DraftRead, GenerateRead, DownloadRead, GenerateReadDraft, Begin,
         Proceed, FilesInv, FilesTypeOK
<1>2. PICK q \in Handler : Set(h, q) /\ Carried(q)'
  <2>1. "draft" \in Kinds /\ "official" \in Kinds
    BY DEF Kinds
  <2>2. UNCHANGED files
    BY <1>1 DEF store
  <2>3. CASE DraftRead(h)
    <3> DEFINE r == [Idle EXCEPT !.op = "draft"]
    <3>1. r \in Handler /\ r.op = "draft"
      BY IdleHandler DEF Handler, Idle
    <3>2. PICK q \in Handler : q = Rendering(r, "draft") /\ Carried(q)'
      BY <1>1, <2>1, <2>2, <3>1, RenderingIsCarried DEF ReportOps
    <3>3. Set(h, q)
      BY <2>3, <3>2 DEF DraftRead, Begin
    <3>4. QED
      BY <3>2, <3>3
  <2>4. CASE GenerateRead(h)
    <3> DEFINE r == [Idle EXCEPT !.op = "generate"]
    <3>1. r \in Handler /\ r.op = "generate"
      BY IdleHandler DEF Handler, Idle
    <3>2. PICK q \in Handler : q = Rendering(r, "official") /\ Carried(q)'
      BY <1>1, <2>1, <2>2, <3>1, RenderingIsCarried DEF ReportOps
    <3>3. Set(h, q)
      BY <2>4, <3>2 DEF GenerateRead, Begin
    <3>4. QED
      BY <3>2, <3>3
  <2>5. CASE DownloadRead(h)
    <3> DEFINE r == [Idle EXCEPT !.op = "download"]
    <3>1. r \in Handler /\ r.op = "download"
      BY IdleHandler DEF Handler, Idle
    <3>2. PICK q \in Handler : q = Rendering(r, "official") /\ Carried(q)'
      BY <1>1, <2>1, <2>2, <3>1, RenderingIsCarried DEF ReportOps
    <3>3. Set(h, q)
      BY <2>5, <3>2 DEF DownloadRead, Begin
    <3>4. QED
      BY <3>2, <3>3
  <2>6. CASE GenerateReadDraft(h)
    <3>1. PICK p \in Handler :
            /\ p = handlers[h] /\ Carried(p)
            /\ p.op = "generate" /\ p.step = "stored" /\ p.kind = "official"
      BY <2>6 DEF FilesInv, FilesTypeOK, GenerateReadDraft, At
    <3> DEFINE r == [p EXCEPT !.first = p.pdf]
    <3>2. r \in Handler /\ r.op = "generate" /\ r.first = p.pdf
      BY <3>1 DEF Handler
    <3>3. Rendered(r.first) /\ Stored("official", r.first.version)
      BY <3>1, <3>2 DEF Carried, ReportOps
    <3>4. PICK q \in Handler : q = Rendering(r, "draft") /\ Carried(q)'
      BY <1>1, <2>1, <2>2, <3>2, <3>3, RenderingIsCarried DEF ReportOps
    <3>5. Set(h, q)
      BY <2>6, <3>1, <3>4 DEF GenerateReadDraft, Proceed
    <3>6. QED
      BY <3>4, <3>5
  <2>7. QED
    BY <2>3, <2>4, <2>5, <2>6
<1>3. renderings' \in 0..MaxRenderings /\ renderings <= renderings'
  BY <1>1, FilesAssumption DEF Render, FilesInv, FilesTypeOK
<1>4. QED
  BY <1>1, <1>2, <1>3, QuietStep

LEMMA PutKeepsInv ==
  ASSUME FilesInv, NEW h \in Handlers, PutLook(h) \/ PutWrite(h)
  PROVE  FilesInv'
<1>1. PICK q \in Handler :
        q = handlers[h] /\ FilesTypeOK /\ Carried(q) /\ q.op \in ReportOps
  BY DEF FilesInv, FilesTypeOK, PutLook, PutWrite, ReportOps
<1>2. /\ q.kind \in Kinds /\ Rendered(q.pdf)
      /\ q.pdf.version \in Versions /\ q.pdf.checksum \in 1..MaxRenderings
  BY <1>1, FilesAssumption
  DEF Carried, Rendered, Handler, Row, FilesTypeOK, Versions
<1>3. CASE PutLook(h)
  <2>1. PICK step \in {"stored", "write"} :
          /\ Set(h, [q EXCEPT !.step = step])
          /\ step = "stored" => Stored(q.kind, q.pdf.version)
    BY <1>1, <1>3 DEF PutLook, Proceed, AfterLook, Stored
  <2>2. UNCHANGED <<rows, store, renderings, overlapped, interrupted>>
    BY <1>3 DEF PutLook, Proceed
  <2> DEFINE r == [q EXCEPT !.step = step]
  <2>3. /\ r \in Handler /\ r.op = q.op /\ r.step = step /\ r.kind = q.kind
        /\ r.pdf = q.pdf /\ r.first = q.first /\ r.image = q.image
    BY <1>1 DEF Handler, Steps
  <2>4. Carried(r)'
    BY <1>1, <2>1, <2>2, <2>3 DEF Carried, Rendered, Stored, store
  <2>5. QED
    BY <1>1, <2>1, <2>2, <2>3, <2>4, QuietStep, FilesAssumption DEF FilesTypeOK
<1>4. CASE PutWrite(h)
  <2> DEFINE r == [q EXCEPT !.step = "stored"]
  <2>1. /\ files' = [files EXCEPT ![q.kind][q.pdf.version] = q.pdf.checksum]
        /\ Set(h, r)
        /\ UNCHANGED <<rows, images, renderings, overlapped, interrupted>>
    BY <1>1, <1>4 DEF PutWrite, Proceed
  <2>2. /\ files' \in [Kinds -> [Versions -> 0..MaxRenderings]]
        /\ files'[q.kind][q.pdf.version] = q.pdf.checksum
        /\ \A kind \in Kinds : \A version \in Versions :
             files'[kind][version] = files[kind][version]
               \/ files'[kind][version] = q.pdf.checksum
    BY <1>1, <1>2, <2>1 DEF FilesTypeOK
  <2>3. \A kind \in Kinds : \A version \in Versions :
          Stored(kind, version) => Stored(kind, version)'
    BY <1>2, <2>2 DEF Stored
  <2>4. /\ r \in Handler /\ r.op = q.op /\ r.step = "stored"
        /\ r.kind = q.kind /\ r.pdf = q.pdf /\ r.first = q.first
        /\ r.image = q.image
    BY <1>1 DEF Handler, Steps
  <2>5. Stored(q.kind, q.pdf.version)'
    BY <1>2, <2>2 DEF Stored
  <2>6. Rendered(q.first) => q.first.version \in Versions
    BY <1>1, FilesAssumption DEF Rendered, FilesTypeOK, Versions, Handler, Row
  <2>7. Carried(r)'
    BY <1>1, <2>1, <2>3, <2>4, <2>5, <2>6 DEF Carried, Rendered, Kinds
  <2>8. /\ renderings' \in 0..MaxRenderings /\ renderings <= renderings'
        /\ UNCHANGED <<stage, reports, mapImage>>
    BY <1>1, <2>1, FilesAssumption DEF FilesTypeOK, rows
  <2>9. QED
    BY <1>1, <2>1, <2>2, <2>3, <2>4, <2>7, <2>8, HandlerStep DEF FilesTypeOK
<1>5. QED
  BY <1>3, <1>4

LEMMA CommitKeepsInv ==
  ASSUME FilesInv, NEW h \in Handlers,
         DraftCommit(h) \/ GenerateCommit(h) \/ DownloadCommit(h)
  PROVE  FilesInv'
<1>1. PICK q \in Handler :
        /\ q = handlers[h] /\ FilesTypeOK /\ Carried(q)
        /\ q.op \in ReportOps /\ q.step = "stored"
  BY DEF FilesInv, FilesTypeOK, DraftCommit, GenerateCommit, DownloadCommit, At,
         ReportOps
<1>2. /\ q.kind \in Kinds /\ q.pdf \in Row /\ q.first \in Row
      /\ q.pdf.version \in 1..renderings /\ Stored(q.kind, q.pdf.version)
  BY <1>1 DEF Carried, Rendered, Handler
<1>3. /\ UNCHANGED <<mapImage, store, renderings, overlapped, interrupted>>
      /\ stage' \in Stages
  BY <1>1 DEF DraftCommit, GenerateCommit, DownloadCommit, Proceed, FilesTypeOK,
              Stages
<1>4. PICK r \in Handler : Set(h, r) /\ Carried(r)'
  <2>1. CASE DraftCommit(h) \/ GenerateCommit(h)
    <3>1. Carried(Idle)'
      BY IdleHandler DEF Carried, ReportOps
    <3>2. QED
      BY <2>1, <3>1, IdleHandler DEF DraftCommit, GenerateCommit, Proceed
  <2>2. CASE DownloadCommit(h)
    <3> DEFINE r == [q EXCEPT !.step = "serving"]
    <3>1. /\ r \in Handler /\ r.op = q.op /\ r.step = "serving"
          /\ r.kind = q.kind /\ r.pdf = q.pdf /\ r.first = q.first
          /\ r.image = q.image
      BY <1>1 DEF Handler, Steps
    <3>2. Carried(r)'
      BY <1>1, <1>3, <3>1 DEF Carried, Rendered, Stored, store
    <3>3. QED
      BY <1>1, <2>2, <3>1, <3>2 DEF DownloadCommit, Proceed
  <2>3. QED
    BY <2>1, <2>2
<1>5. /\ reports' \in [Kinds -> Row]
      /\ \A kind \in Kinds :
           \/ reports'[kind] = reports[kind]
           \/ /\ reports'[kind].version \in 1..renderings
              /\ Stored(kind, reports'[kind].version)
  <2>1. CASE DraftCommit(h)
    BY <1>1, <1>2, <2>1 DEF DraftCommit, At, Carried, ReportOps, FilesTypeOK
  <2>2. CASE GenerateCommit(h)
    <3>1. /\ q.kind = "draft" /\ q.op = "generate"
          /\ reports' = [official |-> q.first, draft |-> q.pdf]
      BY <1>1, <2>2 DEF GenerateCommit, At
    <3>2. /\ q.first.version \in 1..renderings
          /\ Stored("official", q.first.version)
      BY <1>1, <3>1 DEF Carried, Rendered
    <3>3. reports' \in [Kinds -> Row]
      BY <1>2, <3>1 DEF Kinds
    <3>4. QED
      BY <1>2, <3>1, <3>2, <3>3 DEF Kinds
  <2>3. CASE DownloadCommit(h)
    BY <1>1, <1>2, <2>3 DEF DownloadCommit, At, Carried, ReportOps, FilesTypeOK
  <2>4. QED
    BY <2>1, <2>2, <2>3
<1>6. /\ files' \in [Kinds -> [Versions -> 0..MaxRenderings]]
      /\ images' \in SUBSET Images /\ mapImage' \in Images \cup {NoImage}
      /\ overlapped' \in BOOLEAN /\ interrupted' \in BOOLEAN
      /\ renderings' \in 0..MaxRenderings /\ renderings <= renderings'
  BY <1>1, <1>3, FilesAssumption DEF FilesTypeOK, store
<1>7. \A kind \in Kinds : \A version \in Versions :
        Stored(kind, version) => Stored(kind, version)'
  BY <1>3 DEF Stored, store
<1>8. QED
  BY <1>3, <1>4, <1>5, <1>6, <1>7, HandlerStep

\* The map image's requests leave the reports alone.
LEMMA MapStepKeepsInv ==
  ASSUME FilesInv, NEW h \in Handlers, MapStep(h)
  PROVE  FilesInv'
<1>1. /\ FilesTypeOK /\ handlers[h] \in Handler /\ Carried(handlers[h])
  BY DEF FilesInv, FilesTypeOK
<1>2. PICK q \in Handler : Set(h, q) /\ Carried(q)'
  <2>1. CASE \E image \in Images : UploadRead(h, image)
    <3>1. PICK image \in Images : UploadRead(h, image)
      BY <2>1
    <3> DEFINE q == [Idle EXCEPT !.op = "upload", !.step = "look",
                                 !.image = image]
    <3>2. q \in Handler /\ q.op = "upload" /\ q.image = image
      BY IdleHandler DEF Handler, Steps, Idle
    <3>3. QED
      BY <3>1, <3>2 DEF UploadRead, Begin, Carried, ReportOps
  <2>2. CASE RemoveRead(h)
    <3> DEFINE q == [Idle EXCEPT !.op = "remove", !.step = "read"]
    <3>1. q \in Handler /\ q.op = "remove"
      BY IdleHandler DEF Handler, Steps, Idle
    <3>2. QED
      BY <2>2, <3>1 DEF RemoveRead, Begin, Carried, ReportOps
  <2>3. CASE DeleteFile(h)
    <3>1. Carried(Idle)'
      BY IdleHandler DEF Carried, ReportOps
    <3>2. QED
      BY <2>3, <3>1, IdleHandler DEF DeleteFile, Proceed
  <2>4. CASE \/ UploadLook(h) \/ UploadWrite(h) \/ UploadReadPrevious(h)
             \/ UploadCommit(h) \/ RemoveReadRow(h) \/ RemoveCommit(h)
    <3>1. handlers[h].op \in {"upload", "remove"}
      BY <2>4 DEF UploadLook, UploadWrite, UploadReadPrevious, UploadCommit,
                  RemoveReadRow, RemoveCommit, At
    <3>2. PICK q \in Handler :
            /\ Set(h, q)
            /\ \/ q = Idle
               \/ q.op = handlers[h].op /\ q.image = handlers[h].image
      <4>1. /\ [handlers[h] EXCEPT !.step = "deleting"] \in Handler
            /\ [handlers[h] EXCEPT !.step = "stored"] \in Handler
            /\ [handlers[h] EXCEPT !.step = "write"] \in Handler
            /\ [handlers[h] EXCEPT !.step = "ready", !.previous = mapImage]
                 \in Handler
        BY <1>1 DEF Handler, Steps, FilesTypeOK
      <4>2. CASE UploadLook(h)
        <5>1. \/ Set(h, [handlers[h] EXCEPT !.step = "stored"])
              \/ Set(h, [handlers[h] EXCEPT !.step = "write"])
          BY <4>2 DEF UploadLook, Proceed, AfterLook
        <5>2. QED
          BY <1>1, <4>1, <5>1 DEF Handler
      <4>3. CASE UploadWrite(h)
        BY <1>1, <4>1, <4>3 DEF UploadWrite, Proceed, Handler
      <4>4. CASE UploadReadPrevious(h)
        BY <1>1, <4>1, <4>4 DEF UploadReadPrevious, Proceed, Handler
      <4>5. CASE UploadCommit(h)
        BY <1>1, <4>1, <4>5, IdleHandler DEF UploadCommit, Proceed, Handler
      <4>6. CASE RemoveReadRow(h)
        BY <1>1, <4>1, <4>6 DEF RemoveReadRow, Proceed, Handler
      <4>7. CASE RemoveCommit(h)
        BY <1>1, <4>1, <4>7 DEF RemoveCommit, Proceed, Handler
      <4>8. QED
        BY <2>4, <4>2, <4>3, <4>4, <4>5, <4>6, <4>7
    <3>3. Carried(q)'
      BY <1>1, <3>1, <3>2, IdleHandler DEF Carried, ReportOps
    <3>4. QED
      BY <3>2, <3>3
  <2>5. QED
    BY <2>1, <2>2, <2>3, <2>4 DEF MapStep
<1>3. /\ UNCHANGED <<stage, reports, files, renderings>>
      /\ mapImage' \in Images \cup {NoImage} /\ images' \in SUBSET Images
      /\ overlapped' \in BOOLEAN /\ interrupted' \in BOOLEAN
  <2>1. CASE (\E image \in Images : UploadRead(h, image)) \/ RemoveRead(h)
    BY <1>1, <2>1 DEF UploadRead, RemoveRead, Begin, rows, store, FilesTypeOK
  <2>2. CASE UploadLook(h) \/ UploadReadPrevious(h) \/ RemoveReadRow(h)
    BY <1>1, <2>2 DEF UploadLook, UploadReadPrevious, RemoveReadRow, Proceed,
                      rows, store, FilesTypeOK
  <2>3. CASE UploadWrite(h) \/ DeleteFile(h)
    BY <1>1, <2>3 DEF UploadWrite, DeleteFile, At, Carried, Proceed, rows,
                      FilesTypeOK
  <2>4. CASE UploadCommit(h) \/ RemoveCommit(h)
    BY <1>1, <2>4 DEF UploadCommit, RemoveCommit, At, Proceed, Handler, store,
                      FilesTypeOK
  <2>5. QED
    BY <2>1, <2>2, <2>3, <2>4 DEF MapStep
<1>4. renderings' \in 0..MaxRenderings /\ renderings <= renderings'
  BY <1>1, <1>3, FilesAssumption DEF FilesTypeOK
<1>5. QED
  BY <1>1, <1>2, <1>3, <1>4, HandlerStep DEF FilesTypeOK, Stored

LEMMA EndKeepsInv ==
  ASSUME FilesInv, NEW h \in Handlers, Serve(h) \/ Abandon(h)
  PROVE  FilesInv'
<1>1. /\ Set(h, Idle) /\ UNCHANGED <<rows, store, renderings>>
      /\ overlapped' \in BOOLEAN /\ interrupted' \in BOOLEAN
  BY DEF Serve, Abandon, Proceed, FilesInv, FilesTypeOK
<1>2. Carried(Idle)'
  BY IdleHandler DEF Carried, ReportOps
<1>3. renderings' \in 0..MaxRenderings /\ renderings <= renderings'
  BY <1>1, FilesAssumption DEF FilesInv, FilesTypeOK
<1>4. QED
  BY <1>1, <1>2, <1>3, IdleHandler, QuietStep

(***************************************************************************)
(* FilesInv is an invariant: what a handler carries, and only that, keeps  *)
(* the rows true when it commits.                                          *)
(***************************************************************************)
THEOREM FilesInvariant == Spec => []FilesInv
<1>1. Init => FilesInv
  <2> SUFFICES ASSUME Init
               PROVE  FilesInv
    OBVIOUS
  <2>1. FilesTypeOK
    <3>1. NoRow \in Row /\ 0 \in 0..MaxRenderings
      BY FilesAssumption DEF NoRow, Row
    <3>2. /\ handlers \in [Handlers -> Handler]
          /\ reports \in [Kinds -> Row]
          /\ files \in [Kinds -> [Versions -> 0..MaxRenderings]]
      BY <3>1, IdleHandler DEF Init
    <3>3. QED
      BY <3>1, <3>2 DEF Init, FilesTypeOK, Stages
  <2>2. VersionsAreRendered /\ ReportRowsNameStoredFiles
    BY DEF Init, NoRow, VersionsAreRendered, ReportRowsNameStoredFiles
  <2>3. \A h \in Handlers : Carried(handlers[h])
    BY IdleHandler DEF Init, Carried, ReportOps
  <2>4. QED
    BY <2>1, <2>2, <2>3 DEF FilesInv
<1>2. FilesInv /\ [Next]_vars => FilesInv'
  <2> SUFFICES ASSUME FilesInv, [Next]_vars
               PROVE  FilesInv'
    OBVIOUS
  <2>1. ASSUME NEW h \in Handlers, ReportStep(h)
        PROVE  FilesInv'
    BY <2>1, RenderKeepsInv, PutKeepsInv, CommitKeepsInv, EndKeepsInv
    DEF ReportStep
  <2>2. CASE Approve
    BY <2>2 DEF Approve, FilesInv, FilesTypeOK, Stages, VersionsAreRendered,
                Carried, Rendered, Stored, ReportRowsNameStoredFiles, store
  <2>3. CASE UNCHANGED vars
    BY <2>3 DEF vars, FilesInv, FilesTypeOK, VersionsAreRendered, Carried,
                Rendered, Stored, ReportRowsNameStoredFiles
  <2>4. QED
    BY <2>1, <2>2, <2>3, MapStepKeepsInv, EndKeepsInv DEF Next
<1>3. QED
  BY <1>1, <1>2, PTL DEF Spec

(***************************************************************************)
(* Every variable of StoredFiles keeps its type, and no version exceeds    *)
(* the number of PDFs rendered.                                            *)
(***************************************************************************)
THEOREM FilesTypeCorrect == Spec => []FilesTypeOK
<1>1. FilesInv => FilesTypeOK
  BY DEF FilesInv
<1>2. QED
  BY <1>1, FilesInvariant, PTL

(***************************************************************************)
(* However generations and downloads overlap or break off, the row of a    *)
(* report names a PDF that is stored.                                      *)
(***************************************************************************)
THEOREM RowsNameStoredFiles == Spec => []ReportRowsNameStoredFiles
<1>1. FilesInv => ReportRowsNameStoredFiles
  BY DEF FilesInv
<1>2. QED
  BY <1>1, FilesInvariant, PTL

-----------------------------------------------------------------------------
(* Until handlers overlap, there is one at a time. *)

OneBusy ==
  \A g, h \in Handlers :
    handlers[g].step # "idle" /\ handlers[h].step # "idle" => g = h

Alone == ~ overlapped => OneBusy

HandlerActs(h) == ReportStep(h) \/ MapStep(h) \/ Abandon(h)

\* The two ways in which a step is taken by a handler.
LEMMA BeginOrContinue ==
  ASSUME NEW h \in Handlers, HandlerActs(h)
  PROVE  \/ \E q : Begin(h, q)
         \/ /\ handlers[h].step # "idle"
            /\ overlapped' = overlapped
            /\ \E q : Set(h, q)
<1>1. CASE DraftRead(h) \/ GenerateRead(h) \/ DownloadRead(h)
             \/ (\E image \in Images : UploadRead(h, image)) \/ RemoveRead(h)
  BY <1>1 DEF DraftRead, GenerateRead, DownloadRead, UploadRead, RemoveRead
<1>2. CASE PutLook(h) \/ PutWrite(h)
  BY <1>2 DEF PutLook, PutWrite, Proceed
<1>3. CASE \/ DraftCommit(h) \/ GenerateReadDraft(h) \/ GenerateCommit(h)
           \/ DownloadCommit(h) \/ Serve(h)
  BY <1>3 DEF DraftCommit, GenerateReadDraft, GenerateCommit, DownloadCommit,
              Serve, At, Proceed
<1>4. CASE \/ UploadLook(h) \/ UploadWrite(h) \/ UploadReadPrevious(h)
           \/ UploadCommit(h) \/ RemoveReadRow(h) \/ RemoveCommit(h)
  BY <1>4 DEF UploadLook, UploadWrite, UploadReadPrevious, UploadCommit,
              RemoveReadRow, RemoveCommit, At, Proceed
<1>5. CASE DeleteFile(h) \/ Abandon(h)
  BY <1>5 DEF DeleteFile, Abandon, Proceed
<1>6. QED
  BY <1>1, <1>2, <1>3, <1>4, <1>5 DEF HandlerActs, ReportStep, MapStep

\* When one acts and none has overlapped, the others are idle and stay so.
LEMMA OthersAreIdle ==
  ASSUME FilesTypeOK, Alone, NEW h \in Handlers, HandlerActs(h), ~ overlapped'
  PROVE  /\ ~ overlapped
         /\ OneBusy'
         /\ \A g \in Handlers \ {h} :
              handlers[g].step = "idle" /\ handlers'[g] = handlers[g]
<1>1. ~ overlapped /\ \A g \in Handlers \ {h} : handlers[g].step = "idle"
  BY BeginOrContinue DEF Begin, Alone, OneBusy, FilesTypeOK
<1>2. \A g \in Handlers \ {h} : handlers'[g] = handlers[g]
  BY BeginOrContinue DEF Begin, Set, FilesTypeOK
<1>3. QED
  BY <1>1, <1>2 DEF OneBusy

LEMMA AloneStep ==
  ASSUME FilesTypeOK, Alone, [Next]_vars
  PROVE  Alone'
<1>1. ASSUME NEW h \in Handlers, HandlerActs(h)
      PROVE  Alone'
  BY <1>1, OthersAreIdle DEF Alone
<1>2. CASE Approve \/ UNCHANGED vars
  BY <1>2 DEF Approve, vars, Alone, OneBusy
<1>3. QED
  BY <1>1, <1>2 DEF Next, HandlerActs

-----------------------------------------------------------------------------
(* The map image *)

\* What a request about the map image carries, while it is alone.
MapCarried(q) ==
  /\ q.op = "upload" /\ q.step \in {"stored", "ready"} => q.image \in images
  /\ q.op = "remove" /\ q.step = "ready" => q.previous # NoImage
  /\ q.step = "deleting" => q.previous # mapImage

MapInv ==
  /\ Alone
  /\ MapImageIsStored
  /\ ~ overlapped => \A h \in Handlers : MapCarried(handlers[h])

LEMMA RenderingLooks ==
  ASSUME NEW r \in Handler, NEW kind
  PROVE  Rendering(r, kind).op = r.op /\ Rendering(r, kind).step = "look"
BY DEF Rendering, Handler

LEMMA ReportStepIsNoMapStep ==
  ASSUME FilesTypeOK, NEW h \in Handlers,
         ReportStep(h) \/ Abandon(h) \/ DeleteFile(h)
  PROVE  /\ UNCHANGED mapImage
         /\ \E q : /\ Set(h, q)
                   /\ q.op \notin {"upload", "remove"} \/ q.step = "idle"
                   /\ q.step # "deleting"
<1>1. handlers[h] \in Handler
  BY DEF FilesTypeOK
<1>2. CASE DraftRead(h) \/ GenerateRead(h) \/ DownloadRead(h)
  <2>1. PICK op \in ReportOps, kind \in Kinds :
          Set(h, Rendering([Idle EXCEPT !.op = op], kind)) /\ UNCHANGED rows
    BY <1>2 DEF DraftRead, GenerateRead, DownloadRead, Begin, ReportOps, Kinds
  <2>2. [Idle EXCEPT !.op = op] \in Handler /\ [Idle EXCEPT !.op = op].op = op
    BY IdleHandler DEF Handler, ReportOps
  <2>3. QED
    BY <2>1, <2>2, RenderingLooks DEF ReportOps, rows
<1>3. CASE PutLook(h)
  BY <1>1, <1>3 DEF PutLook, Proceed, AfterLook, Handler, rows
<1>4. CASE PutWrite(h)
  BY <1>1, <1>4 DEF PutWrite, Proceed, Handler, rows
<1>5. CASE GenerateReadDraft(h)
  <2> DEFINE r == [handlers[h] EXCEPT !.first = handlers[h].pdf]
  <2>1. r \in Handler /\ r.op = handlers[h].op
    BY <1>1 DEF Handler
  <2>2. Set(h, Rendering(r, "draft")) /\ handlers[h].op = "generate"
    BY <1>5 DEF GenerateReadDraft, At, Proceed
  <2>3. QED
    BY <1>5, <2>1, <2>2, RenderingLooks DEF GenerateReadDraft, rows
<1>6. CASE DownloadCommit(h)
  BY <1>1, <1>6 DEF DownloadCommit, At, Proceed, Handler
<1>7. CASE DraftCommit(h) \/ GenerateCommit(h) \/ Serve(h) \/ Abandon(h)
             \/ DeleteFile(h)
  BY <1>7, IdleHandler
  DEF DraftCommit, GenerateCommit, Serve, Abandon, DeleteFile, Proceed, rows
<1>8. QED
  BY <1>2, <1>3, <1>4, <1>5, <1>6, <1>7 DEF ReportStep

LEMMA ReportStepKeepsImages ==
  ASSUME NEW h \in Handlers, ReportStep(h) \/ Abandon(h)
  PROVE  UNCHANGED images
BY DEF ReportStep, DraftRead, GenerateRead, DownloadRead, PutLook, PutWrite,
       DraftCommit, GenerateReadDraft, GenerateCommit, DownloadCommit, Serve,
       Abandon, store

LEMMA MapOrderStep ==
  ASSUME FilesInv, MapInv, NEW h \in Handlers, HandlerActs(h), ~ overlapped'
  PROVE  MapImageIsStored' /\ \A g \in Handlers : MapCarried(handlers[g])'
<1>1. PICK q \in Handler :
        /\ q = handlers[h] /\ FilesTypeOK /\ MapCarried(q) /\ Carried(q)
        /\ mapImage = NoImage \/ mapImage \in images
  BY OthersAreIdle
  DEF FilesInv, FilesTypeOK, MapInv, MapImageIsStored
<1>2. \A g \in Handlers \ {h} :
        handlers[g].step = "idle" /\ handlers'[g] = handlers[g]
  BY <1>1, OthersAreIdle DEF MapInv
<1>3. ASSUME NEW r, Set(h, r),
             r.op = "upload" /\ r.step \in {"stored", "ready"} =>
               r.image \in images',
             r.op = "remove" /\ r.step = "ready" => r.previous # NoImage,
             r.step = "deleting" => r.previous # mapImage'
      PROVE  \A g \in Handlers : MapCarried(handlers[g])'
  <2>1. handlers'[h] = r
    BY <1>1, <1>3 DEF Set, FilesTypeOK
  <2>2. QED
    BY <1>2, <1>3, <2>1 DEF MapCarried
<1>4. CASE ReportStep(h) \/ Abandon(h)
  BY <1>1, <1>3, <1>4, ReportStepIsNoMapStep, ReportStepKeepsImages
  DEF MapImageIsStored
<1>5. CASE DeleteFile(h)
  <2>1. q.previous # mapImage /\ images' = images \ {q.previous}
    BY <1>1, <1>5 DEF DeleteFile, MapCarried
  <2>2. QED
    BY <1>1, <1>3, <1>5, <2>1, ReportStepIsNoMapStep DEF MapImageIsStored
<1>6. CASE \E image \in Images : UploadRead(h, image)
  BY <1>1, <1>3, <1>6
  DEF UploadRead, Begin, Idle, rows, store, MapImageIsStored
<1>7. CASE RemoveRead(h)
  BY <1>1, <1>3, <1>7 DEF RemoveRead, Begin, Idle, rows, store, MapImageIsStored
<1>8. CASE UploadLook(h)
  <2>1. PICK step \in {"stored", "write"} :
          /\ Set(h, [q EXCEPT !.step = step])
          /\ step = "stored" => q.image \in images
    BY <1>1, <1>8 DEF UploadLook, Proceed, AfterLook
  <2> DEFINE r == [q EXCEPT !.step = step]
  <2>2. r.op = q.op /\ r.step = step /\ r.image = q.image
    BY <1>1 DEF Handler
  <2>3. Set(h, r) /\ q.op = "upload" /\ UNCHANGED <<images, mapImage>>
    BY <1>1, <1>8, <2>1 DEF UploadLook, At, rows, store
  <2> HIDE DEF r
  <2>4. QED
    BY <1>1, <1>3, <2>1, <2>2, <2>3 DEF MapImageIsStored
<1>9. CASE UploadWrite(h)
  <2> DEFINE r == [q EXCEPT !.step = "stored"]
  <2>1. r.op = q.op /\ r.step = "stored" /\ r.image = q.image
    BY <1>1 DEF Handler
  <2>2. /\ Set(h, r) /\ q.op = "upload" /\ UNCHANGED mapImage
        /\ images' = images \cup {q.image}
    BY <1>1, <1>9 DEF UploadWrite, At, Proceed, rows
  <2> HIDE DEF r
  <2>3. QED
    BY <1>1, <1>3, <2>1, <2>2 DEF MapImageIsStored
<1>10. CASE UploadReadPrevious(h)
  <2>1. PICK previous : previous = mapImage
    OBVIOUS
  <2> DEFINE r == [q EXCEPT !.step = "ready", !.previous = previous]
  <2>2. r.op = q.op /\ r.step = "ready" /\ r.image = q.image
    BY <1>1 DEF Handler
  <2>3. /\ Set(h, r) /\ q.op = "upload" /\ q.step = "stored"
        /\ UNCHANGED <<mapImage, images>>
    BY <1>1, <1>10, <2>1 DEF UploadReadPrevious, At, Proceed, rows, store
  <2> HIDE DEF r
  <2>4. QED
    BY <1>1, <1>3, <2>2, <2>3 DEF MapImageIsStored, MapCarried
<1>11. CASE UploadCommit(h)
  <2>1. /\ q.op = "upload" /\ q.image \in images
        /\ mapImage' = q.image /\ UNCHANGED images
    BY <1>1, <1>11 DEF UploadCommit, At, MapCarried, store
  <2>2. CASE Replaces(q)
    <3> DEFINE r == [q EXCEPT !.step = "deleting"]
    <3>1. r.op = q.op /\ r.step = "deleting" /\ r.previous = q.previous
      BY <1>1 DEF Handler
    <3>2. Set(h, r) /\ q.previous # q.image
      BY <1>1, <1>11, <2>2 DEF UploadCommit, Proceed, Replaces
    <3>3. QED
      BY <1>3, <2>1, <3>1, <3>2 DEF MapImageIsStored
  <2>3. CASE ~ Replaces(q)
    <3>1. Set(h, Idle)
      BY <1>1, <1>11, <2>3 DEF UploadCommit, Proceed
    <3>2. QED
      BY <1>3, <2>1, <3>1, IdleHandler DEF MapImageIsStored
  <2>4. QED
    BY <2>2, <2>3
<1>12. CASE RemoveReadRow(h)
  <2>1. PICK previous : previous = mapImage
    OBVIOUS
  <2> DEFINE r == [q EXCEPT !.step = "ready", !.previous = previous]
  <2>2. r.op = q.op /\ r.step = "ready" /\ r.previous = previous
    BY <1>1 DEF Handler
  <2>3. /\ Set(h, r) /\ q.op = "remove" /\ previous # NoImage
        /\ UNCHANGED <<mapImage, images>>
    BY <1>1, <1>12, <2>1 DEF RemoveReadRow, At, Proceed, rows, store
  <2>4. QED
    BY <1>1, <1>3, <2>2, <2>3 DEF MapImageIsStored
<1>13. CASE RemoveCommit(h)
  <2> DEFINE r == [q EXCEPT !.step = "deleting"]
  <2>1. r.op = q.op /\ r.step = "deleting" /\ r.previous = q.previous
    BY <1>1 DEF Handler
  <2>2. /\ Set(h, r) /\ q.op = "remove" /\ q.previous # NoImage
        /\ mapImage' = NoImage
    BY <1>1, <1>13 DEF RemoveCommit, At, Proceed, MapCarried
  <2>3. QED
    BY <1>3, <2>1, <2>2 DEF MapImageIsStored
<1>14. QED
  BY <1>4, <1>5, <1>6, <1>7, <1>8, <1>9, <1>10, <1>11, <1>12, <1>13
  DEF HandlerActs, MapStep

(***************************************************************************)
(* Until requests overlap, the map image that the row names is stored,     *)
(* wherever an upload or a removal breaks off.                             *)
(***************************************************************************)
THEOREM MapImageStaysStored == Spec => []MapImageIsStored
<1>1. Init => MapInv
  BY IdleHandler DEF Init, MapInv, Alone, OneBusy, MapImageIsStored, MapCarried
<1>2. FilesInv /\ MapInv /\ [Next]_vars => MapInv'
  <2> SUFFICES ASSUME FilesInv, MapInv, [Next]_vars
               PROVE  MapInv'
    OBVIOUS
  <2>1. Alone'
    BY AloneStep DEF FilesInv, MapInv
  <2>2. ASSUME NEW h \in Handlers, HandlerActs(h)
        PROVE  MapInv'
    BY <2>1, <2>2, MapOrderStep DEF MapInv, MapImageIsStored
  <2>3. CASE Approve \/ UNCHANGED vars
    BY <2>1, <2>3
    DEF Approve, vars, store, MapInv, MapImageIsStored, MapCarried
  <2>4. QED
    BY <2>2, <2>3 DEF Next, HandlerActs
<1>3. MapInv => MapImageIsStored
  BY DEF MapInv
<1>4. QED
  BY <1>1, <1>2, <1>3, FilesInvariant, PTL DEF Spec

-----------------------------------------------------------------------------
(* The reports *)

\* What a handler of a report has found and done, while it is alone.
ReportCarried(q) ==
  q.op \in ReportOps =>
    /\ q.step \in {"look", "write", "stored"} =>
         /\ q.pdf.version = reports[q.kind].version + 1
         /\ q.op = "generate" /\ q.kind = "draft" =>
              /\ q.first.version = reports["official"].version + 1
              /\ files["official"][q.first.version] = q.first.checksum
    /\ q.step = "look" => ~ Stored(q.kind, q.pdf.version)
    /\ q.step = "stored" => files[q.kind][q.pdf.version] = q.pdf.checksum
    /\ q.step = "serving" => reports[q.kind] = q.pdf

\* The PDFs that a handler has stored and no row names yet.
Holds(q, kind, version) ==
  \/ /\ q.op \in ReportOps /\ q.step = "stored"
     /\ kind = q.kind /\ version = q.pdf.version
  \/ /\ q.op = "generate" /\ q.kind = "draft"
     /\ q.step \in {"look", "write", "stored"}
     /\ kind = "official" /\ version = q.first.version

\* Every key is taken by the file that its row describes, or by a handler.
Described ==
  \A kind \in Kinds :
    reports[kind].version > 0 =>
      files[kind][reports[kind].version] = reports[kind].checksum

NoStrays ==
  \A kind \in Kinds : \A version \in Versions :
    version > reports[kind].version /\ Stored(kind, version) =>
      \E h \in Handlers : Holds(handlers[h], kind, version)

Orderly ==
  Described /\ NoStrays /\ \A h \in Handlers : ReportCarried(handlers[h])

ReportInv == Alone /\ (~ overlapped /\ ~ interrupted => Orderly)

\* The steps that leave rows, reports' files and the handler's PDFs alone.
LEMMA QuietStepIsOrderly ==
  ASSUME FilesInv, NEW h \in Handlers, MapStep(h) \/ Serve(h) \/ Abandon(h),
         ~ interrupted'
  PROVE  /\ ~ interrupted
         /\ UNCHANGED <<reports, files>>
         /\ \E r : /\ Set(h, r)
                   /\ r.op \notin ReportOps
         /\ \A kind, version : ~ Holds(handlers[h], kind, version)
            \/ handlers[h].step = "idle"
<1>1. handlers[h] \in Handler /\ Carried(handlers[h])
  BY DEF FilesInv, FilesTypeOK
<1>2. CASE (\E image \in Images : UploadRead(h, image)) \/ RemoveRead(h)
  <2>1. UNCHANGED <<rows, store, interrupted>> /\ handlers[h].step = "idle"
    BY <1>2 DEF UploadRead, RemoveRead, Begin
  <2>2. ASSUME NEW image \in Images, UploadRead(h, image)
        PROVE  \E r : Set(h, r) /\ r.op = "upload"
    <3> DEFINE r == [Idle EXCEPT !.op = "upload", !.step = "look",
                                 !.image = image]
    <3>1. Set(h, r)
      BY <2>2 DEF UploadRead, Begin
    <3>2. r.op = "upload"
      BY DEF Idle
    <3>3. QED
      BY <3>1, <3>2
  <2>3. ASSUME RemoveRead(h)
        PROVE  \E r : Set(h, r) /\ r.op = "remove"
    <3> DEFINE r == [Idle EXCEPT !.op = "remove", !.step = "read"]
    <3>1. Set(h, r)
      BY <2>3 DEF RemoveRead, Begin
    <3>2. r.op = "remove"
      BY DEF Idle
    <3>3. QED
      BY <3>1, <3>2
  <2>4. QED
    BY <1>2, <2>1, <2>2, <2>3 DEF rows, store, ReportOps
<1>3. CASE Serve(h) \/ DeleteFile(h)
  BY <1>3, IdleHandler DEF Serve, DeleteFile, At, Proceed, rows, store, Holds,
                           ReportOps
<1>4. CASE Abandon(h)
  <2>1. /\ UNCHANGED <<reports, files>> /\ Set(h, Idle) /\ ~ interrupted
        /\ handlers[h].first = NoRow
        /\ handlers[h].pdf = NoRow \/ handlers[h].step # "stored"
    BY <1>4 DEF Abandon, rows, store
  <2>2. ~ Rendered(NoRow)
    BY DEF Rendered, NoRow
  <2>3. \A kind, version : ~ Holds(handlers[h], kind, version)
    BY <1>1, <2>1, <2>2 DEF Holds, Carried, ReportOps
  <2>4. QED
    BY <2>1, <2>3, IdleHandler DEF ReportOps
<1>5. CASE \/ UploadLook(h) \/ UploadWrite(h) \/ UploadReadPrevious(h)
           \/ UploadCommit(h) \/ RemoveReadRow(h) \/ RemoveCommit(h)
  <2>1. /\ handlers[h].op \in {"upload", "remove"}
        /\ UNCHANGED <<reports, files, interrupted>>
    BY <1>5 DEF UploadLook, UploadWrite, UploadReadPrevious, UploadCommit,
                RemoveReadRow, RemoveCommit, At, Proceed, rows, store
  <2>2. \A kind, version : ~ Holds(handlers[h], kind, version)
    BY <2>1 DEF Holds, ReportOps
  <2>3. \E r : Set(h, r) /\ r.op \notin ReportOps
    <3>1. PICK step, previous :
            \/ Set(h, Idle)
            \/ Set(h, [handlers[h] EXCEPT !.step = step])
            \/ Set(h, [handlers[h] EXCEPT !.step = step,
                                          !.previous = previous])
      BY <1>5 DEF UploadLook, UploadWrite, UploadReadPrevious, UploadCommit,
                  RemoveReadRow, RemoveCommit, Proceed
    <3>2. /\ [handlers[h] EXCEPT !.step = step].op = handlers[h].op
          /\ [handlers[h] EXCEPT !.step = step, !.previous = previous].op
               = handlers[h].op
      BY <1>1 DEF Handler
    <3>3. QED
      BY <2>1, <3>1, <3>2, IdleHandler DEF ReportOps
  <2>4. QED
    BY <2>1, <2>2, <2>3
<1>6. QED
  BY <1>2, <1>3, <1>4, <1>5 DEF MapStep

LEMMA OrderStep ==
  ASSUME FilesInv, ReportInv, NEW h \in Handlers, HandlerActs(h),
         ~ overlapped', ~ interrupted'
  PROVE  Orderly'
<1>1. PICK q \in Handler : q = handlers[h] /\ FilesTypeOK /\ Carried(q)
  BY DEF FilesInv, FilesTypeOK
<1>2. /\ ~ overlapped
      /\ \A g \in Handlers \ {h} :
           handlers[g].step = "idle" /\ handlers'[g] = handlers[g]
  BY <1>1, OthersAreIdle DEF ReportInv
<1>3. ~ interrupted
  BY QuietStepIsOrderly
  DEF HandlerActs, ReportStep, DraftRead, GenerateRead, DownloadRead, Begin,
      PutLook, PutWrite, DraftCommit, GenerateReadDraft, GenerateCommit,
      DownloadCommit, Proceed
<1>4. Orderly
  BY <1>2, <1>3 DEF ReportInv
<1>5. /\ Described /\ ReportCarried(q)
      /\ \A kind \in Kinds : \A version \in Versions :
           version > reports[kind].version /\ Stored(kind, version) =>
             Holds(q, kind, version) /\ q.step # "idle"
  <2>1. \A g \in Handlers : \A kind, version :
          Holds(handlers[g], kind, version) => g = h /\ q.step # "idle"
    BY <1>1, <1>2 DEF Holds
  <2>2. QED
    BY <1>1, <1>4, <2>1 DEF Orderly, NoStrays
\* It is enough to show that the handler's new record is in order.
<1>6. ASSUME NEW r, Set(h, r), ReportCarried(r)', Described',
             \A kind \in Kinds : \A version \in Versions :
               version > reports'[kind].version /\ Stored(kind, version)' =>
                 Holds(r, kind, version)
      PROVE  Orderly'
  <2>1. handlers'[h] = r
    BY <1>1, <1>6 DEF Set, FilesTypeOK
  <2>2. NoStrays'
    BY <1>6, <2>1 DEF NoStrays
  <2>3. \A g \in Handlers : ReportCarried(handlers[g])'
    BY <1>2, <1>6, <2>1 DEF ReportCarried
  <2>4. QED
    BY <1>6, <2>2, <2>3 DEF Orderly
<1>7. /\ reports \in [Kinds -> Row] /\ q.kind \in Kinds
      /\ q.pdf \in Row /\ q.first \in Row
      /\ "official" \in Kinds /\ "draft" \in Kinds
      /\ \A kind \in Kinds : reports[kind].version \in Nat
  BY <1>1, FilesAssumption DEF FilesTypeOK, Handler, Kinds, Row
<1>8. CASE MapStep(h) \/ Serve(h) \/ Abandon(h)
  <2>1. PICK r : Set(h, r) /\ r.op \notin ReportOps
    BY <1>8, QuietStepIsOrderly
  <2>2. /\ UNCHANGED <<reports, files>>
        /\ \A kind, version : ~ Holds(q, kind, version) \/ q.step = "idle"
    BY <1>1, <1>8, QuietStepIsOrderly
  <2>3. Described' /\ ReportCarried(r)'
    BY <1>5, <2>1, <2>2 DEF Described, ReportCarried
  <2>4. QED
    BY <1>5, <1>6, <2>1, <2>2, <2>3 DEF Stored
\* A rendering takes a version that no file has.
<1>9. ASSUME NEW r \in Handler, NEW kind \in Kinds,
             Set(h, Rendering(r, kind)), UNCHANGED <<reports, files>>,
             r.op \in ReportOps,
             \A version : ~ Holds(q, kind, version) \/ q.step = "idle",
             r.op = "generate" /\ kind = "draft" =>
               /\ r.first.version = reports["official"].version + 1
               /\ files["official"][r.first.version] = r.first.checksum,
             \A k \in Kinds : \A version \in Versions :
               Holds(q, k, version) /\ q.step # "idle" =>
                 /\ r.op = "generate" /\ kind = "draft"
                 /\ k = "official" /\ version = r.first.version,
             reports[kind].version + 1 \in Versions
      PROVE  Orderly'
  <2>1. PICK n : n = Rendering(r, kind)
    OBVIOUS
  <2>2. /\ n.op = r.op /\ n.step = "look" /\ n.kind = kind
        /\ n.first = r.first /\ n.pdf.version = reports[kind].version + 1
    BY <2>1 DEF Rendering, NextVersion, Handler
  <2>3. ~ Stored(kind, n.pdf.version)
    BY <1>5, <1>7, <1>9, <2>2
  <2>4. ReportCarried(n)'
    BY <1>7, <1>9, <2>2, <2>3 DEF ReportCarried, Stored
  <2>5. Described'
    BY <1>5, <1>9 DEF Described
  <2>6. ASSUME NEW k \in Kinds, NEW version \in Versions,
               version > reports'[k].version, Stored(k, version)'
        PROVE  Holds(n, k, version)
    BY <1>5, <1>9, <2>2, <2>6 DEF Holds, Stored
  <2>7. \A k \in Kinds : \A version \in Versions :
          version > reports'[k].version /\ Stored(k, version)' =>
            Holds(n, k, version)
    BY <2>6
  <2>8. Set(h, n)
    BY <1>9, <2>1
  <2>9. QED
    BY <1>6, <2>4, <2>5, <2>7, <2>8
<1>10. Render => \A kind \in Kinds : reports[kind].version + 1 \in Versions
  <2>1. /\ \A kind \in Kinds : reports[kind].version <= renderings
        /\ renderings \in Nat /\ MaxRenderings \in Nat
    BY <1>1, FilesAssumption DEF FilesInv, VersionsAreRendered, FilesTypeOK
  <2>2. QED
    BY <1>7, <2>1 DEF Render, Versions
<1>11. CASE DraftRead(h) \/ GenerateRead(h) \/ DownloadRead(h)
  <2>1. PICK op \in ReportOps, kind \in Kinds :
          /\ Set(h, Rendering([Idle EXCEPT !.op = op], kind))
          /\ op = "generate" => kind # "draft"
          /\ UNCHANGED <<rows, store>> /\ Render /\ q.step = "idle"
    BY <1>1, <1>11
    DEF DraftRead, GenerateRead, DownloadRead, Begin, ReportOps, Kinds
  <2> DEFINE r == [Idle EXCEPT !.op = op]
  <2>2. r \in Handler /\ r.op = op
    BY IdleHandler DEF Handler, ReportOps
  <2>3. UNCHANGED <<reports, files>>
    BY <2>1 DEF rows, store
  <2> HIDE DEF r
  <2>4. QED
    BY <1>9, <1>10, <2>1, <2>2, <2>3 DEF r
<1>12. CASE GenerateReadDraft(h)
  <2> DEFINE r == [q EXCEPT !.first = q.pdf]
  <2>1. r \in Handler /\ r.op = q.op /\ r.first = q.pdf
    BY <1>1 DEF Handler
  <2>2. /\ Set(h, Rendering(r, "draft")) /\ Render
        /\ q.op = "generate" /\ q.step = "stored" /\ q.kind = "official"
        /\ UNCHANGED <<reports, files>>
    BY <1>1, <1>12 DEF GenerateReadDraft, At, Proceed, rows, store
  <2>3. /\ q.pdf.version = reports["official"].version + 1
        /\ files["official"][q.pdf.version] = q.pdf.checksum
    BY <1>5, <2>2 DEF ReportCarried, ReportOps
  <2>4. \A k, version : Holds(q, k, version) =>
          k = "official" /\ version = q.pdf.version
    BY <2>2 DEF Holds
  <2> HIDE DEF r
  <2>5. QED
    BY <1>7, <1>9, <1>10, <2>1, <2>2, <2>3, <2>4 DEF ReportOps
<1>13. CASE PutLook(h)
  <2>1. /\ q.op \in ReportOps /\ q.step = "look"
        /\ UNCHANGED <<reports, files>>
    BY <1>1, <1>13 DEF PutLook, ReportOps, rows, store
  <2>2. ~ Stored(q.kind, q.pdf.version)
    BY <1>5, <2>1 DEF ReportCarried
  <2> DEFINE r == [q EXCEPT !.step = "write"]
  <2>3. Set(h, r)
    BY <1>1, <1>13, <2>2 DEF PutLook, Proceed, AfterLook, Stored
  <2>4. /\ r.op = q.op /\ r.step = "write" /\ r.kind = q.kind
        /\ r.pdf = q.pdf /\ r.first = q.first
    BY <1>1 DEF Handler
  <2> HIDE DEF r
  <2>5. ReportCarried(r)' /\ Described'
    BY <1>5, <2>1, <2>4 DEF ReportCarried, Described
  <2>6. \A k, version : Holds(q, k, version) => Holds(r, k, version)
    BY <2>1, <2>4 DEF Holds
  <2>7. QED
    BY <1>5, <1>6, <2>1, <2>3, <2>5, <2>6 DEF Stored
<1>14. CASE PutWrite(h)
  <2>1. /\ q.op \in ReportOps /\ q.step = "write" /\ UNCHANGED reports
        /\ files' = [files EXCEPT ![q.kind][q.pdf.version] = q.pdf.checksum]
    BY <1>1, <1>14 DEF PutWrite, ReportOps, rows
  <2> DEFINE r == [q EXCEPT !.step = "stored"]
  <2>2. Set(h, r)
    BY <1>1, <1>14 DEF PutWrite, Proceed
  <2>3. /\ r.op = q.op /\ r.step = "stored" /\ r.kind = q.kind
        /\ r.pdf = q.pdf /\ r.first = q.first
    BY <1>1 DEF Handler
  <2> HIDE DEF r
  <2>4. /\ q.pdf.version = reports[q.kind].version + 1
        /\ q.pdf.version \in Versions
    BY <1>1, <1>5, <2>1, FilesAssumption
    DEF ReportCarried, Carried, Rendered, FilesTypeOK, Versions
  <2>5. /\ files'[q.kind][q.pdf.version] = q.pdf.checksum
        /\ \A k \in Kinds : \A version \in Versions :
             k # q.kind \/ version # q.pdf.version =>
               files'[k][version] = files[k][version]
    BY <1>1, <1>7, <2>1, <2>4 DEF FilesTypeOK
  <2>6. Described'
    <3> SUFFICES ASSUME NEW k \in Kinds, reports[k].version > 0
                 PROVE  files'[k][reports[k].version] = reports[k].checksum
      BY <2>1 DEF Described
    <3>1. reports[k].version \in Versions
      BY <1>7, FilesAssumption DEF Row, Versions
    <3>2. k = q.kind => reports[k].version # q.pdf.version
      BY <1>7, <2>4
    <3>3. QED
      BY <1>5, <2>5, <3>1, <3>2 DEF Described
  <2>7. ReportCarried(r)'
    <3>1. ASSUME q.op = "generate", q.kind = "draft"
          PROVE  q.first.version \in Versions
      BY <1>1, <3>1, FilesAssumption
      DEF Carried, Rendered, ReportOps, FilesTypeOK, Versions
    <3>2. QED
      BY <1>5, <1>7, <2>1, <2>3, <2>4, <2>5, <3>1 DEF ReportCarried
  <2>8. ASSUME NEW k \in Kinds, NEW version \in Versions,
               version > reports'[k].version, Stored(k, version)'
        PROVE  Holds(r, k, version)
    <3>1. CASE k = q.kind /\ version = q.pdf.version
      BY <2>1, <2>3, <3>1 DEF Holds
    <3>2. CASE ~ (k = q.kind /\ version = q.pdf.version)
      <4>1. Holds(q, k, version)
        BY <1>5, <2>1, <2>5, <2>8, <3>2 DEF Stored
      <4>2. QED
        BY <2>1, <2>3, <4>1 DEF Holds
    <3>3. QED
      BY <3>1, <3>2
  <2>9. QED
    BY <1>6, <2>2, <2>6, <2>7, <2>8
\* A commit of the handler's PDFs names them.
<1>15. ASSUME DraftCommit(h) \/ GenerateCommit(h) \/ DownloadCommit(h)
       PROVE  /\ q.op \in ReportOps /\ q.step = "stored" /\ UNCHANGED files
              /\ q.pdf.version = reports[q.kind].version + 1
              /\ files[q.kind][q.pdf.version] = q.pdf.checksum
  BY <1>1, <1>5, <1>15
  DEF DraftCommit, GenerateCommit, DownloadCommit, At, ReportCarried, ReportOps,
      store
<1>16. CASE DraftCommit(h) \/ DownloadCommit(h)
  <2>1. reports' = [reports EXCEPT ![q.kind] = q.pdf] /\ q.op # "generate"
    BY <1>1, <1>16 DEF DraftCommit, DownloadCommit, At, Carried, ReportOps
  <2>2. PICK r : Set(h, r) /\ (r = Idle \/ r = [q EXCEPT !.step = "serving"])
    BY <1>1, <1>16 DEF DraftCommit, DownloadCommit, Proceed
  <2>3. \/ r.op = "none"
        \/ r.op = q.op /\ r.step = "serving" /\ r.kind = q.kind /\ r.pdf = q.pdf
    BY <1>1, <2>2, IdleHandler DEF Handler
  <2>4. ReportCarried(r)'
    BY <1>7, <2>1, <2>3 DEF ReportCarried, ReportOps
  <2>5. Described'
    BY <1>5, <1>7, <1>15, <1>16, <2>1 DEF Described
  <2>6. ASSUME NEW k \in Kinds, NEW version \in Versions,
               version > reports'[k].version, Stored(k, version)'
        PROVE  FALSE
    <3>1. version > reports[k].version
      BY <1>7, <1>15, <1>16, <2>1, <2>6 DEF Versions, Row
    <3>2. k = q.kind /\ version = q.pdf.version
      BY <1>5, <1>15, <1>16, <2>1, <2>6, <3>1 DEF Holds, Stored
    <3>3. QED
      BY <1>7, <2>1, <2>6, <3>2 DEF Versions
  <2>7. QED
    BY <1>6, <2>2, <2>4, <2>5, <2>6
<1>17. CASE GenerateCommit(h)
  <2>1. /\ reports' = [official |-> q.first, draft |-> q.pdf]
        /\ q.op = "generate" /\ q.kind = "draft" /\ Set(h, Idle)
    BY <1>1, <1>17 DEF GenerateCommit, At, Proceed
  <2>2. /\ q.first.version = reports["official"].version + 1
        /\ files["official"][q.first.version] = q.first.checksum
    BY <1>5, <1>15, <1>17, <2>1 DEF ReportCarried
  <2>3. reports'["official"] = q.first /\ reports'["draft"] = q.pdf
    BY <2>1
  <2>4. Described'
    BY <1>15, <1>17, <2>1, <2>2, <2>3 DEF Described, Kinds
  <2>5. ASSUME NEW k \in Kinds, NEW version \in Versions,
               version > reports'[k].version, Stored(k, version)'
        PROVE  FALSE
    <3>1. version > reports[k].version
      BY <1>7, <1>15, <1>17, <2>1, <2>2, <2>3, <2>5 DEF Versions, Kinds
    <3>2. Holds(q, k, version)
      BY <1>5, <1>15, <1>17, <2>5, <3>1 DEF Stored
    <3>3. \/ k = "draft" /\ version = q.pdf.version
          \/ k = "official" /\ version = q.first.version
      BY <2>1, <3>2 DEF Holds
    <3>4. QED
      BY <1>7, <2>3, <2>5, <3>3 DEF Versions
  <2>6. ReportCarried(Idle)'
    BY IdleHandler DEF ReportCarried, ReportOps
  <2>7. QED
    BY <1>6, <2>1, <2>4, <2>5, <2>6
<1>18. QED
  BY <1>8, <1>11, <1>12, <1>13, <1>14, <1>16, <1>17 DEF HandlerActs, ReportStep

\* Until handlers overlap or break off, the reports are in order.
LEMMA ReportInvariant == Spec => []ReportInv
<1>1. Init => ReportInv
  BY IdleHandler
  DEF Init, ReportInv, Alone, OneBusy, Orderly, Described, NoStrays,
      ReportCarried, ReportOps, NoRow, Stored
<1>2. FilesInv /\ ReportInv /\ [Next]_vars => ReportInv'
  <2> SUFFICES ASSUME FilesInv, ReportInv, [Next]_vars
               PROVE  ReportInv'
    OBVIOUS
  <2>1. Alone'
    BY AloneStep DEF FilesInv, ReportInv
  <2>2. ASSUME NEW h \in Handlers, HandlerActs(h)
        PROVE  ReportInv'
    BY <2>1, <2>2, OrderStep DEF ReportInv
  <2>3. CASE Approve \/ UNCHANGED vars
    BY <2>1, <2>3
    DEF Approve, vars, store, ReportInv, Orderly, Described, NoStrays, Holds,
        ReportCarried, Stored
  <2>4. QED
    BY <2>2, <2>3 DEF Next, HandlerActs
<1>3. QED
  BY <1>1, <1>2, FilesInvariant, PTL DEF Spec

(***************************************************************************)
(* Until generations overlap or one breaks off between its put and its     *)
(* commit, the checksum in a report's row is that of the stored PDF.       *)
(***************************************************************************)
THEOREM RowsDescribeTheirFiles == Spec => []ReportDescribesItsFile
<1>1. ReportInv => ReportDescribesItsFile
  BY DEF ReportInv, Orderly, Described, ReportDescribesItsFile
<1>2. QED
  BY <1>1, ReportInvariant, PTL

(***************************************************************************)
(* Under the same condition, a download serves the PDF it has rendered.    *)
(***************************************************************************)
THEOREM DownloadsServeTheirRendering == Spec => []DownloadsAreLive
<1>1. FilesInv /\ ReportInv => DownloadsAreLive
  <2> SUFFICES ASSUME FilesInv, ReportInv, NEW h \in Handlers,
                      At(h, "download", "serving"), ~ overlapped, ~ interrupted
               PROVE  files["official"][handlers[h].pdf.version]
                        = handlers[h].pdf.checksum
    BY DEF DownloadsAreLive, SignedKey
  <2>1. /\ handlers[h].kind = "official"
        /\ handlers[h].pdf.version \in 1..renderings
    BY DEF FilesInv, At, Carried, Rendered, ReportOps
  <2>2. reports["official"] = handlers[h].pdf
    BY <2>1 DEF ReportInv, Orderly, ReportCarried, At, ReportOps
  <2>3. QED
    BY <2>1, <2>2 DEF ReportInv, Orderly, Described, Kinds
<1>2. QED
  BY <1>1, FilesInvariant, ReportInvariant, PTL

=============================================================================
