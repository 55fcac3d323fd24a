------------------------------ MODULE Statuses ------------------------------
(***************************************************************************)
(* The four status domains of the system (ADR-0005) and the transition     *)
(* tables of processes and findings: domain/statuses.py and                *)
(* domain/state_machines.py.  Every other module takes its states here.    *)
(***************************************************************************)

ProcessState ==
  {"PENDING", "PARSING", "READY", "VERIFYING", "COMPLETED", "FINALIZED"}

FindingStatus ==
  {"CANDIDATE", "CONFIRMED_VIOLATION", "NEGATIVE_VERIFIED",
   "AUTO_NO_DIFFERENCE", "MISSING_EVIDENCE", "NOT_APPLICABLE",
   "NOT_COMPARABLE", "LOW_QUALITY", "ABSTAIN", "CLARIFICATION_REQUIRED",
   "SUSPICION"}

SyncState ==
  {"NOT_REQUESTED", "PENDING_SYNC", "SYNCING", "SYNCED", "RETRY_WAIT",
   "FAILED_TERMINAL"}

OutboxStatus == {"PENDING", "DELIVERING", "DELIVERED", "FAILED_TERMINAL"}

HumanOnlyStatuses == {"CONFIRMED_VIOLATION", "NEGATIVE_VERIFIED"}

(***************************************************************************)
(* advance_process and advance_finding accept exactly the pairs of these   *)
(* tables.  VERIFYING, COMPLETED and FINALIZED are entered through         *)
(* functions of their own (Workspace: Source and Target).                  *)
(***************************************************************************)
ProcessTransitions ==
  {<<"PENDING", "PARSING">>, <<"PARSING", "READY">>, <<"PARSING", "PENDING">>,
   <<"READY", "PARSING">>, <<"VERIFYING", "PARSING">>,
   <<"COMPLETED", "PARSING">>}

FindingTransitions ==
  ({"CANDIDATE"} \X (HumanOnlyStatuses \cup {"CLARIFICATION_REQUIRED"}))
  \cup ({"CLARIFICATION_REQUIRED", "SUSPICION"}
          \X (HumanOnlyStatuses \cup {"CANDIDATE"}))
  \cup {<<"AUTO_NO_DIFFERENCE", "NEGATIVE_VERIFIED">>,
        <<"NOT_APPLICABLE", "CANDIDATE">>}

=============================================================================
