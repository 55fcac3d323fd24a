------------------------------- MODULE Catalog -------------------------------
(***************************************************************************)
(* The list of documents the inspector sees next to the queue: cipher,     *)
(* approval and whether a file is the current revision                     *)
(* (application/document_catalog.py).  It is read anew from the files on   *)
(* every request, without OCR, and is told the choices of the inspector    *)
(* but no recorded link.  Package is the process.                          *)
(* Definitions named Faulty... are bugs that could be introduced there; no *)
(* specification uses them.                                                *)
(***************************************************************************)
EXTENDS Package

Actualities == {"CURRENT", "SUPERSEDED", "CLARIFICATION_REQUIRED", "UNREADABLE"}

\* _stamp_ref: a scanned file has only its name to say.
StampRef(f, sel) == ApprovalWithBasis(DocumentOf(Unlinked(f), Raster), f \in sel)

\* What is no PDF, and what cannot be parsed in time, has no passport.
Unparseable(files, lost) == {f \in files : f \in lost \/ Members[f] # {}}
Parsed(files, sel, lost) == {StampRef(f, sel) : f \in files \ Unparseable(files, lost)}

FaultyIdentities(refs, sel) ==   \* the choice of the inspector is not looked at
  UNION {ResolveHeadsByIdentity(refs, s, {}) : s \in DocStage}
Identities(refs, sel) == UNION {ResolveHeadsByIdentity(refs, s, sel) : s \in DocStage}

Shown(refs, sel) == UNION {i.resolution.doc : i \in Identities(refs, sel)}
Unresolved(refs, sel) ==
  UNION {i.group : i \in {j \in Identities(refs, sel) : j.resolution.status # "RESOLVED"}}

Actuality(ref, refs, sel) ==
  IF ref.file \in {d.file : d \in Unresolved(refs, sel)} THEN "CLARIFICATION_REQUIRED"
  ELSE IF ref.file \in {d.file : d \in Shown(refs, sel)} THEN "CURRENT" ELSE "SUPERSEDED"

\* The row of a current file shows the head, with the basis it was resolved on.
Row(f, approval, basis, actuality) ==
  [file |-> f, approval |-> approval, basis |-> basis, actuality |-> actuality]
RowOf(ref, refs, sel) ==
  LET actuality == Actuality(ref, refs, sel)
      shown == IF actuality = "CURRENT" THEN CHOOSE d \in Shown(refs, sel) : d.file = ref.file
               ELSE ref IN
  Row(ref.file, shown.approval, shown.basis, actuality)
BuildDocumentCatalog(files, sel, lost) ==
  LET refs == Parsed(files, sel, lost) IN
  {Row(f, "UNKNOWN", "UNPROVEN", "UNREADABLE") : f \in Unparseable(files, lost)}
  \cup {RowOf(ref, refs, sel) : ref \in refs}

-----------------------------------------------------------------------------
(* Correctness.                                                            *)

Listed(f, rows) == CHOOSE row \in rows : row.file = f
CurrentIn(rows) == {row.file : row \in {r \in rows : r.actuality = "CURRENT"}}

\* The last run and the list read the same: no recorded link, every scanned file
\* read blindly, nothing lost, and no archive that only the run of a choice could
\* open (select_revision does not attach its members).
ReadAlike ==
  /\ \A a \in attached : a.pred = NoFile
  /\ last.lost = {} /\ last.blind = Files \cap Raster
  /\ {d.file : d \in LastPool} \subseteq Files

\* The list has a row for every file of the process and calls current no file
\* that is not approved.  Where no link was recorded and the run used no OCR the
\* list calls current exactly what the run compared, with the same approval on
\* the same basis, but for designs without cipher that were not chosen
\* (build_document_catalog beside resolve_heads_by_identity and the stage heads of
\* a run).
CatalogAgrees ==
  last # NoRun =>
    LET rows == BuildDocumentCatalog(Files, last.selected, {}) IN
    /\ {row.file : row \in rows} = Files
    /\ \A f \in CurrentIn(rows) : f \in Raster \/ Passport[f].approval # "NOT_APPROVED"
    /\ ReadAlike =>
         /\ {h.file : h \in LastHeads} \subseteq CurrentIn(rows)
         /\ \A h \in LastHeads : /\ Listed(h.file, rows).approval = h.approval
                                 /\ Listed(h.file, rows).basis = h.basis
         /\ \A f \in CurrentIn(rows) \ {h.file : h \in LastHeads} :
              Passport[f].stage = "PD" /\ last.selected # {} /\ f \notin last.selected

=============================================================================
