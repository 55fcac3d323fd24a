------------------------------ MODULE MCInbox ------------------------------
(* Model values for the run of Inbox: a readable and an unreadable event,   *)
(* each published twice (the relay lost a confirm), and one without         *)
(* identity.  Two messages of any of them are published in a history.  An   *)
(* event whose protocol has no row behaves like one whose inserts all fail. *)
EXTENDS Inbox, TLC

CONSTANTS m1, m2, m3, m4, m5, good, bad, anonymous, c1, c2

Events == m1 :> good @@ m2 :> good @@ m3 :> bad @@ m4 :> bad
          @@ m5 :> anonymous
Qualities == good :> "good" @@ bad :> "bad" @@ anonymous :> "anonymous"
=============================================================================
