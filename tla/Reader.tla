------------------------------- MODULE Reader -------------------------------
(***************************************************************************)
(* How a run reads its files (application/process_pipeline.py): one after  *)
(* another, each PDF in a child process with a deadline and two repeats    *)
(* (infrastructure/pdf_guard.py), its scanned pages in a second one, which *)
(* shares them between processes of a pool                                 *)
(* (infrastructure/ocr_tesseract.py).  Children may hang or die, a pool    *)
(* may break, the reading of a page may raise.                             *)
(*                                                                         *)
(* What the pages say is in OcrPage, what a document is in Passports.  The  *)
(* ids of the files of a run differ (the pipeline refuses a second file of  *)
(* an id); the remark that parts of a DOCX were skipped is left out.        *)
(* Definitions named Faulty... are bugs that could be introduced there; no *)
(* specification uses them.                                                *)
(***************************************************************************)
EXTENDS Passports

CONSTANTS
  Packages,     \* what a run may be given: files in order
  Form,         \* [File -> what the suffix of its name says]
  Stored,       \* the files whose body is there
  Members,      \* [File -> sequence of the files in it], for archives
  Text,         \* [File -> words], for text documents
  Pages,        \* [File -> its pages], for PDF
  Damage,       \* [File -> "none", "broken" (a ValueError) or "odd" (another)]
  Name,         \* [File -> its name]
  Entry,        \* [File -> its entry in the index of the package]
  ParseAttempts,\* bound of the program: 3
  MaxFault,     \* bound: children that die, pools that break, pages that raise
  NoFile

ASSUME ReaderAssumption ==
  /\ Packages \subseteq Seq(File) /\ Stored \subseteq File /\ NoFile \notin File
  /\ Form \in [File -> {"pdf", "text", "zip", "other"}]
  /\ Members \in [File -> Seq(File)]
  /\ Text \in [File -> Seq(Word)] /\ Pages \in [File -> Seq(Page)]
  /\ Name \in [File -> [stem : Value, ciphers : SUBSET Value, sections : SUBSET Value,
                        stage : Value \cup {Blank}]]
  /\ Entry \in [File -> [section : Value \cup {Blank}, path : SUBSET Value]]
  /\ Damage \in [File -> {"none", "broken", "odd"}]
  /\ ParseAttempts \in Nat \ {0} /\ MaxFault \in Nat

\* A file is given once or is a member of one archive: attached files have ids of
\* their own, and the id of a member is its archive's with a number.
ASSUME IdAssumption ==
  /\ \A package \in Packages : \A i, j \in DOMAIN package : package[i] = package[j] => i = j
  /\ \A a, b \in File : \A i \in DOMAIN Members[a], j \in DOMAIN Members[b] :
       Members[a][i] = Members[b][j] => a = b /\ i = j
  /\ \A package \in Packages, a \in File :
       \A i \in DOMAIN package, j \in DOMAIN Members[a] : package[i] # Members[a][j]

VARIABLES
  given,     \* the files of the run
  pending,   \* files the run still has to take
  errors,    \* files it answered with an error
  passports, \* [file -> passport] of the documents it read
  opened,    \* archives it expanded
  reader,    \* the thread of the run
  child,     \* the child process it waits for
  document,  \* words of the pages of the file at hand
  blind,     \* files whose OCR was given up
  marred,    \* files with a page whose OCR raised
  faults
vars ==
  <<given, pending, errors, passports, opened, reader, child, document, blind, marred, faults>>

-----------------------------------------------------------------------------
(* A reading without faults.                                               *)

Layer == [f \in File |-> [p \in DOMAIN Pages[f] |-> VectorWords(Pages[f][p])]]
OcrOf == [f \in File |-> [p \in DOMAIN Pages[f] |-> OcrPdfPage(Pages[f][p])]]
Targets(pages) == {p \in DOMAIN pages : NeedsOcr(pages[p])}

\* fill_empty_raster_pages: pages that have words stay as they are.
Fill(pages, filled) == [p \in DOMAIN pages |-> IF p \in DOMAIN filled THEN filled[p] ELSE pages[p]]
WantsOcr(pages) == TesseractAvailable /\ RasterPagesNeedOcr(pages)
Full ==
  [f \in File |-> IF WantsOcr(Layer[f])
                  THEN Fill(Layer[f], [p \in Targets(Layer[f]) |-> OcrOf[f][p]]) ELSE Layer[f]]

SecondOpinions ==
  [f \in File |-> {CipherFromText(AsTheyCome(words)) : words \in BandReads(Pages[f][Len(Pages[f])])} \ {Blank}]
PassportOf(f, pages, alternates) ==
  ApplyManifestSection(ReadPassport(Flatten(pages), Name[f], alternates), Entry[f], f)
OfPdf(f, pages) == PassportOf(f, pages, SecondOpinions[f])
OfText == [f \in File |-> PassportOf(f, <<Text[f]>>, {})]
Alone == [f \in File |-> IF Form[f] = "pdf" THEN OfPdf(f, Full[f]) ELSE OfText[f]]

-----------------------------------------------------------------------------
NoChild == [st |-> "none", answer |-> "none", tasks |-> <<>>, filled |-> <<>>, marred |-> FALSE]
NewChild == [NoChild EXCEPT !.st = "works"]
Between == [pc |-> "next", job |-> "none", file |-> NoFile, attempt |-> 0, expired |-> FALSE]

Init ==
  /\ given \in Packages /\ pending = given /\ errors = {} /\ passports = <<>> /\ opened = {}
  /\ reader = Between /\ child = NoChild /\ document = <<>>
  /\ blind = {} /\ marred = {} /\ faults = 0

Current == reader.file
Sent == child.st \in {"sent", "gone"}
Dead == child.st \in {"dead", "gone"}

\* The run goes on with the next file; leaving _parse_once kills the child.
Leave(end) == reader' = [Between EXCEPT !.pc = end] /\ child' = NoChild /\ document' = <<>>
StartJob(job, file) ==
  /\ reader' = [pc |-> "poll", job |-> job, file |-> file, attempt |-> 1, expired |-> FALSE]
  /\ child' = NewChild

-----------------------------------------------------------------------------
(* _pages_from_blobs.                                                      *)

Taken(file) ==
  /\ reader.pc = "next" /\ pending # <<>> /\ file = Head(pending)
Refuse(file) ==
  /\ errors' = errors \cup {file} /\ pending' = Tail(pending)
  /\ UNCHANGED <<given, passports, opened, reader, child, document, blind, marred, faults>>

\* Nothing to read in it: other formats, no body, no text, an archive that does
\* not open.
Unreadable(file) ==
  \/ Form[file] = "other" \/ file \notin Stored
  \/ Form[file] = "text" /\ Text[file] = <<>>
  \/ Form[file] = "zip" /\ Damage[file] # "none"
TakeUnreadable(file) == Taken(file) /\ Unreadable(file) /\ Refuse(file)

TakeText(file) ==
  /\ Taken(file) /\ ~Unreadable(file) /\ Form[file] = "text"
  /\ passports' = [g \in DOMAIN passports \cup {file} |->
                     IF g = file THEN OfText[file] ELSE passports[g]]
  /\ pending' = Tail(pending)
  /\ UNCHANGED <<given, errors, opened, reader, child, document, blind, marred, faults>>

\* The members of an archive go to the end of the queue.
TakeArchive(file) ==
  /\ Taken(file) /\ ~Unreadable(file) /\ Form[file] = "zip"
  /\ pending' = Tail(pending) \o Members[file] /\ opened' = opened \cup {file}
  /\ UNCHANGED <<given, errors, passports, reader, child, document, blind, marred, faults>>

TakePdf(file) ==
  /\ Taken(file) /\ ~Unreadable(file) /\ Form[file] = "pdf"
  /\ StartJob("parse", file) /\ pending' = Tail(pending)
  /\ UNCHANGED <<given, errors, passports, opened, document, blind, marred, faults>>

End ==
  /\ reader.pc = "next" /\ pending = <<>> /\ Leave("ended")
  /\ UNCHANGED <<given, pending, errors, passports, opened, blind, marred, faults>>

\* stamp_cipher_reads, read_passport and apply_manifest_section, in the thread
\* of the run.
MakePassport ==
  /\ reader.pc = "bands"
  /\ passports' = [g \in DOMAIN passports \cup {Current} |->
                     IF g = Current THEN OfPdf(Current, document) ELSE passports[g]]
  /\ Leave("next")
  /\ UNCHANGED <<given, pending, errors, opened, blind, marred, faults>>

-----------------------------------------------------------------------------
(* _parse_once.                                                            *)

\* A file whose parse ends in a ValueError or without an answer is left out; an
\* error of its OCR, and an error of another kind, ends the run.
Drop ==
  IF reader.job = "parse" THEN Leave("next") /\ errors' = errors \cup {Current}
  ELSE Leave("failed") /\ UNCHANGED errors

\* What the child sent, at a poll before the deadline.
Receive ==
  /\ reader.pc = "poll" /\ ~reader.expired /\ Sent
  /\ \/ /\ child.answer = "ok" /\ reader.job = "parse" /\ WantsOcr(Layer[Current])
        /\ document' = Layer[Current] /\ StartJob("ocr", Current) /\ UNCHANGED <<errors, marred>>
     \/ /\ child.answer = "ok" /\ reader.job = "parse" /\ ~WantsOcr(Layer[Current])
        /\ document' = Layer[Current] /\ reader' = [reader EXCEPT !.pc = "bands"] /\ child' = NoChild
        /\ UNCHANGED <<errors, marred>>
     \/ /\ child.answer = "ok" /\ reader.job = "ocr"
        /\ document' = Fill(document, child.filled) /\ reader' = [reader EXCEPT !.pc = "bands"] /\ child' = NoChild
        /\ marred' = IF child.marred THEN marred \cup {Current} ELSE marred
        /\ UNCHANGED errors
     \/ child.answer = "broken" /\ Drop /\ UNCHANGED marred
     \/ child.answer = "odd" /\ Leave("failed") /\ UNCHANGED <<errors, marred>>
  /\ UNCHANGED <<given, pending, passports, opened, blind, faults>>

\* A child that died closes the pipe: the poll says there is something to read,
\* and reading it raises EOFError, which nobody expects.
ReceiveEnd ==
  /\ reader.pc = "poll" /\ ~reader.expired /\ child.st = "dead" /\ Leave("failed")
  /\ UNCHANGED <<given, pending, errors, passports, opened, blind, marred, faults>>

PollNothing ==
  /\ reader.pc = "poll" /\ ~reader.expired /\ ~Sent /\ ~Dead
  /\ reader' = [reader EXCEPT !.pc = "alive"]
  /\ UNCHANGED <<given, pending, errors, passports, opened, child, document, blind, marred, faults>>

\* A child that ended after the poll is taken for one that broke off, also
\* where its answer waits in the pipe.
CheckAlive ==
  /\ reader.pc = "alive"
  /\ IF Dead THEN Drop
     ELSE /\ reader' = [reader EXCEPT !.pc = "poll"] /\ UNCHANGED <<errors, child, document>>
  /\ UNCHANGED <<given, pending, passports, opened, blind, marred, faults>>

Expire ==
  /\ reader.pc \in {"poll", "alive"} /\ ~reader.expired
  /\ reader' = [reader EXCEPT !.expired = TRUE]
  /\ UNCHANGED <<given, pending, errors, passports, opened, child, document, blind, marred, faults>>

FaultyMayRepeat == reader.attempt <= ParseAttempts   \* one repeat too many
\* run_pdf_parse_sync repeats a job that ran out of time in a new child.
MayRepeat == reader.attempt < ParseAttempts
FaultyRestarted == [reader EXCEPT !.expired = FALSE]   \* the repeat is not counted
Restarted == [reader EXCEPT !.attempt = @ + 1, !.expired = FALSE]
TimedOut == reader.pc = "poll" /\ reader.expired
Repeat ==
  /\ TimedOut /\ MayRepeat /\ reader' = Restarted /\ child' = NewChild
  /\ UNCHANGED <<given, pending, errors, passports, opened, document, blind, marred, faults>>
FaultyGiveUp ==   \* a file that ran out of time is passed over in silence
  /\ TimedOut /\ ~MayRepeat /\ Leave("next")
  /\ UNCHANGED <<given, pending, errors, passports, opened, blind, marred, faults>>
\* Without time a parse loses its file and OCR leaves what the layer says.
GiveUp ==
  /\ TimedOut /\ ~MayRepeat
  /\ \/ reader.job = "parse" /\ Drop /\ UNCHANGED blind
     \/ /\ reader.job = "ocr"
        /\ reader' = [reader EXCEPT !.pc = "bands"] /\ child' = NoChild
        /\ blind' = blind \cup {Current} /\ UNCHANGED <<errors, document>>
  /\ UNCHANGED <<given, pending, passports, opened, marred, faults>>

-----------------------------------------------------------------------------
(* The child.                                                              *)

OnlyChild == UNCHANGED <<given, pending, errors, passports, opened, reader, document, blind, marred>>
Fault == faults < MaxFault /\ faults' = faults + 1

\* _pdf_parse_worker with extract_pdf_bytes.
ChildParses ==
  /\ child.st = "works" /\ reader.job = "parse"
  /\ child' = [child EXCEPT !.st = "sent", !.answer = IF Damage[Current] = "none" THEN "ok" ELSE Damage[Current]]
  /\ UNCHANGED faults /\ OnlyChild

\* fill_empty_raster_pages: one page is read in the child, several in a pool.
ChildOpens ==
  /\ child.st = "works" /\ reader.job = "ocr"
  /\ child' = [child EXCEPT !.st = IF Cardinality(Targets(document)) < 2 THEN "here" ELSE "pool",
                            !.tasks = [p \in Targets(document) |-> "waits"]]
  /\ UNCHANGED faults /\ OnlyChild

\* _ocr_job: what a page raises leaves it empty.
WorkerReads(p) ==
  /\ child.st = "pool" /\ p \in DOMAIN child.tasks /\ child.tasks[p] = "waits"
  /\ \/ child' = [child EXCEPT !.tasks[p] = "read"] /\ UNCHANGED faults
     \/ child' = [child EXCEPT !.tasks[p] = "raised"] /\ Fault
  /\ OnlyChild

\* A worker that dies takes every page that waits with it.
PoolBreaks ==
  /\ child.st = "pool" /\ Fault
  /\ child' = [child EXCEPT !.tasks = [p \in DOMAIN @ |-> IF @[p] = "waits" THEN "lost" ELSE @[p]]]
  /\ OnlyChild

Filled(p, words) ==
  [q \in DOMAIN child.filled \cup {p} |-> IF q = p THEN words ELSE child.filled[q]]
Unfilled == DOMAIN child.tasks \ DOMAIN child.filled
NextPage(p) == p \in Unfilled /\ \A q \in Unfilled : p <= q

\* _fill_with_pool collects in the order of the pages.
Collect(p) ==
  /\ child.st = "pool" /\ NextPage(p)
  /\ \/ /\ child.tasks[p] = "read"
        /\ child' = [child EXCEPT !.filled = Filled(p, OcrOf[Current][p])]
     \/ /\ child.tasks[p] = "raised"
        /\ child' = [child EXCEPT !.filled = Filled(p, <<>>), !.marred = TRUE]
  /\ UNCHANGED faults /\ OnlyChild

FaultyReread == [child EXCEPT !.st = "sent", !.answer = "ok"]   \* sent as it is
\* At the first page that is lost the pages not collected are read here.
Reread == [child EXCEPT !.st = "here"]
CollectLost(p) ==
  /\ child.st = "pool" /\ NextPage(p) /\ child.tasks[p] = "lost"
  /\ child' = Reread /\ UNCHANGED faults /\ OnlyChild

\* _fill_pages_here
ReadHere(p) ==
  /\ child.st = "here" /\ NextPage(p)
  /\ \/ child' = [child EXCEPT !.filled = Filled(p, OcrOf[Current][p])] /\ UNCHANGED faults
     \/ child' = [child EXCEPT !.filled = Filled(p, <<>>), !.marred = TRUE] /\ Fault
  /\ OnlyChild

SendPages ==
  /\ child.st \in {"pool", "here"} /\ Unfilled = {}
  /\ child' = [child EXCEPT !.st = "sent", !.answer = "ok"]
  /\ UNCHANGED faults /\ OnlyChild

ChildExits ==
  /\ child.st = "sent" /\ child' = [child EXCEPT !.st = "gone"]
  /\ UNCHANGED faults /\ OnlyChild

ChildDies ==
  /\ child.st \in {"works", "pool", "here"} /\ Fault
  /\ child' = [child EXCEPT !.st = "dead"] /\ OnlyChild

-----------------------------------------------------------------------------
Take(file) == TakeUnreadable(file) \/ TakeText(file) \/ TakeArchive(file) \/ TakePdf(file)
Guard == Receive \/ ReceiveEnd \/ PollNothing \/ CheckAlive \/ Repeat \/ GiveUp
Child ==
  \/ ChildParses \/ ChildOpens \/ PoolBreaks \/ SendPages \/ ChildExits \/ ChildDies
  \/ \E p \in DOMAIN document :
       WorkerReads(p) \/ Collect(p) \/ CollectLost(p) \/ ReadHere(p)

Next == (\E file \in File : Take(file)) \/ MakePassport \/ End \/ Guard \/ Expire \/ Child

Spec == Init /\ [][Next]_vars

\* The thread of the run is scheduled and time passes; no child ever has to
\* answer.  That the engines answer when they are called without a child, in
\* MakePassport, is assumed: nothing in the code enforces it.
FairSpec ==
  /\ Spec
  /\ WF_vars(\E file \in File : Take(file)) /\ WF_vars(MakePassport) /\ WF_vars(End)
  /\ WF_vars(Guard) /\ WF_vars(Expire)

-----------------------------------------------------------------------------
(* Correctness.                                                            *)

Ended == reader.pc \in {"ended", "failed"}

In(files) == {files[i] : i \in DOMAIN files}
\* The files of the run, and of the archives it opened.
Known == In(given) \cup UNION {In(Members[a]) : a \in opened}

\* The budget of repeats is kept, a child is there while the run waits for one,
\* and the passports have their shape.
TypeOK ==
  /\ given \in Seq(File) /\ pending \in Seq(File)
  /\ errors \subseteq File /\ opened \subseteq File
  /\ DOMAIN passports \subseteq File /\ \A g \in DOMAIN passports : passports[g] \in Passport
  /\ reader \in [pc : {"next", "poll", "alive", "bands", "ended", "failed"},
                 job : {"none", "parse", "ocr"}, file : File \cup {NoFile},
                 attempt : 0..ParseAttempts, expired : BOOLEAN]
  /\ child.st \in {"none", "works", "pool", "here", "sent", "gone", "dead"}
  /\ child.st = "none" <=> reader.pc \notin {"poll", "alive"}
  /\ DOMAIN child.filled \subseteq DOMAIN document
  /\ blind \cup marred \subseteq File /\ faults \in 0..MaxFault

\* Whatever hung, died, broke or was repeated on the way, a document of the run
\* whose OCR was neither given up nor raised is what it is read as alone and
\* without faults: no page is missing, none is at another's place, none is what
\* an earlier attempt left (_fill_with_pool, run_pdf_parse_sync).
ReadAsAlone ==
  \A g \in DOMAIN passports \ (blind \cup marred) : passports[g] = Alone[g]

\* A run that ends answers for every file it was given and for every file of an
\* archive it opened, once: read, opened, or named among the errors
\* (_pages_from_blobs, run_pdf_parse_sync).
EveryFileAnswered ==
  reader.pc = "ended" =>
    /\ Known = DOMAIN passports \cup opened \cup errors
    /\ DOMAIN passports \cap opened = {} /\ (DOMAIN passports \cup opened) \cap errors = {}

\* A run ends, although every child may hang for ever.
RunEnds == <>Ended

=============================================================================
