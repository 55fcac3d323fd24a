---------------------------- MODULE MCLiveClient ----------------------------
(* Model values for the run of LiveClient: a design with its approved and   *)
(* its refused file, working documents, two findings.                      *)
EXTENDS LiveClient

SettingDef ==
  [flag |-> TRUE, env |-> "demo", algorithm |-> "RS256", issuer |-> TRUE, audience |-> TRUE,
   key |-> TRUE]
Legacy(subject, roles, object) ==
  [present |-> TRUE, dotted |-> FALSE, grammatical |-> TRUE, algorithm |-> "none",
   verified |-> FALSE, subject |-> subject, roles |-> roles, object |-> object]
Signed(subject, roles, object) ==
  [Legacy(subject, roles, object) EXCEPT !.dotted = TRUE, !.grammatical = FALSE,
     !.algorithm = "RS256", !.verified = TRUE]
Inspector == Legacy("inspector", {"INSPECTOR"}, "mine")
SitesDef ==
  {[token |-> Inspector, durable |-> FALSE], [token |-> Inspector, durable |-> TRUE],
   [token |-> Signed("admin", {"ADMIN"}, "mine"), durable |-> FALSE],
   [token |-> Legacy("inspector", {"INSPECTOR"}, NoObject), durable |-> FALSE]}
ColleagueDef == [subject |-> "supervisor", roles |-> {"SUPERVISOR"}, object |-> "mine"]

CatalogDef == {[section |-> "AR", stage |-> s] : s \in DocStage}
FileStageDef == [f \in File |-> IF f = "rd" THEN "RD" ELSE "PD"]
At(status, value) == [status |-> status, value |-> value, decided |-> FALSE]

\* The first rule needs both stages; with an etalon its numbers agree. The second is
\* a hypothesis that a working document raises.
MachineDef ==
  [files, etalons \in SUBSET File |->
     [i \in Id |->
        CASE i = 1 -> IF ~({"pd", "rd"} \subseteq files) THEN At("MISSING_EVIDENCE", 1)
                      ELSE IF etalons = {} THEN At("CANDIDATE", 1) ELSE At("AUTO_NO_DIFFERENCE", 2)
          [] i = 2 -> IF "rd" \in files THEN At("SUSPICION", 1) ELSE NoFinding]]
=============================================================================
