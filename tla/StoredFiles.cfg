\* Two handlers, alone or overlapping, two images and five PDFs.
SPECIFICATION Spec
CONSTANTS
  NoImage = NoImage
  Handlers = {h1, h2}
  Images = {i1, i2}
  MaxRenderings = 5
\* Nothing happens once the PDFs are used up.
CHECK_DEADLOCK FALSE
SYMMETRY Symmetry
INVARIANTS
  FilesTypeOK
  ReportRowsNameStoredFiles
  ReportDescribesItsFile
  DownloadsAreLive
  MapImageIsStored
