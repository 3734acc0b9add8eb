----------------------------- MODULE ChartCache -----------------------------
(***************************************************************************)
(* DownloadChart in internal/helm/release.go.  The operator has one chart  *)
(* at one version (helmChartName, helmChartVer), hence one file in its     *)
(* cache directory, which is part of its container and starts empty.       *)
(***************************************************************************)

VARIABLE chart      \* the file

\* "partial" is a file that was created and not written to its end.
ChartTypeOK == chart \in {"absent", "partial", "whole"}

ChartInit == chart = "absent"

\* os.Stat finds the file, whatever is in it: nothing is downloaded.
Stat == chart # "absent"

\* The index is fetched, then the archive, into memory, then into the file.
Download == ~Stat /\ chart' = "whole"

\* An error before the file is created leaves nothing.
DownloadFails == ~Stat /\ chart' = chart

\* An error of io.Copy leaves what has been written.
CopyFails == ~Stat /\ chart' = "partial"

\* loader.Load reads an archive that is whole.
Loads == chart = "whole"
=============================================================================
