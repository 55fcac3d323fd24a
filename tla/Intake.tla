------------------------------- MODULE Intake -------------------------------
(***************************************************************************)
(* What an upload request accepts and what it answers about the rest       *)
(* (application/intake.py, the reading of a file in                        *)
(* presentation/upload_limits.py, the order of both in                     *)
(* presentation/api.py).  Pure operators; Package is the process that      *)
(* attaches what is accepted.                                              *)
(*                                                                         *)
(* A parcel is one file of a request: its content stands for its SHA-256,  *)
(* size counts in units of the bounds, safe says that the name has no path *)
(* and no control character, header is what the content begins with, bomb  *)
(* that its central directory inflates beyond the limits, and av the       *)
(* answer of the antivirus.                                                *)
(***************************************************************************)
EXTENDS Integers, FiniteSets, Sequences

CONSTANTS
  Content,        \* contents of files
  NoHash,         \* the file was not read to its end
  MaxFileBytes,   \* bound of the program: 50 MB
  MaxBatchBytes   \* bound of the program: 200 MB

ASSUME IntakeAssumption ==
  /\ MaxFileBytes \in Nat /\ MaxBatchBytes \in Nat /\ NoHash \notin Content

AllowedDocumentSuffixes == {"pdf", "docx", "xml"}
AllowedArchiveSuffixes == {"zip", "7z", "rar"}
AllowedSuffixes == AllowedDocumentSuffixes \cup AllowedArchiveSuffixes

\* docx is a zip: one header for both.
MagicPrefixes ==
  [pdf |-> {"pdf"}, docx |-> {"pk"}, xml |-> {"markup"}, zip |-> {"pk", "pk-empty"},
   7z |-> {"7z"}, rar |-> {"rar"}]

Parcel ==
  [content : Content, size : Nat, safe : BOOLEAN, suffix : STRING, header : STRING,
   bomb : BOOLEAN, av : {"clean", "not_configured", "infected", "unreachable"}]

\* read_bounded_upload stops at the first byte past the limit: no hash.
ReadBoundedUpload(parcel) ==
  [parcel EXCEPT !.size = IF @ > MaxFileBytes THEN MaxFileBytes + 1 ELSE @,
                 !.content = IF parcel.size > MaxFileBytes THEN NoHash ELSE @]

AntivirusRejects(parcel) == parcel.av \notin {"clean", "not_configured"}

Check(fails, reason) == [fails |-> fails, reason |-> reason]
\* check_file: cheap checks first, the first that fails is the answer.
Checks(c) ==
  <<Check(~c.safe, "UNSAFE_FILENAME"),
    Check(c.suffix \notin AllowedSuffixes, "UNSUPPORTED_FORMAT"),
    Check(c.size = 0, "CORRUPTED_FILE"),
    Check(c.size > MaxFileBytes, "FILE_TOO_LARGE"),
    Check(c.suffix \in AllowedSuffixes /\ c.header \notin MagicPrefixes[c.suffix], "CORRUPTED_FILE"),
    Check(c.suffix \in {"zip", "docx"} /\ c.header = "pk" /\ c.bomb, "CORRUPTED_FILE")>>
Problems(c) == {i \in DOMAIN Checks(c) : Checks(c)[i].fails}
Reason(c) == Checks(c)[CHOOSE i \in Problems(c) : \A j \in Problems(c) : i <= j].reason

\* What the antivirus refuses does not count for the batch.
Scanned(batch) == {i \in DOMAIN batch : ~AntivirusRejects(batch[i])}
TotalSize(batch) ==
  LET sum[i \in 0..Len(batch)] ==
        IF i = 0 THEN 0 ELSE sum[i - 1] + (IF i \in Scanned(batch) THEN batch[i].size ELSE 0)
  IN sum[Len(batch)]
TooLarge(batch) == TotalSize(batch) > MaxBatchBytes

\* evaluate_batch: a file that has a problem costs only itself, a batch that is
\* too large costs every file; a second copy is a duplicate.
Sound(batch) == {i \in Scanned(batch) : Problems(batch[i]) = {}}
First(batch) ==
  {i \in Sound(batch) : \A j \in Sound(batch) : batch[j].content = batch[i].content => i <= j}
Accepted(batch) == IF TooLarge(batch) THEN {} ELSE {batch[i] : i \in First(batch)}
Rejected(batch) ==
  IF TooLarge(batch) THEN {"BATCH_LIMIT_EXCEEDED"}
  ELSE {Reason(batch[i]) : i \in Scanned(batch) \ Sound(batch)}

\* _upload_documents reads and scans every file before it decides.
Decision(parcels) ==
  LET batch == [i \in DOMAIN parcels |-> ReadBoundedUpload(parcels[i])] IN
  [accepted |-> Accepted(batch),
   rejected |-> Rejected(batch) \cup
                (IF Scanned(batch) # DOMAIN batch THEN {"ANTIVIRUS_REJECTED"} ELSE {})]

=============================================================================
