--------------------------------- MODULE MCBoard ---------------------------------
(***************************************************************************)
(* Two instances of BackgroundRuns on one state: cards that depend on each *)
(* other, of which the clock starts one, once; and a single recurrent      *)
(* task, B, which people move, archive, toggle and delete.  part, chosen   *)
(* at the start, says which.                                               *)
(***************************************************************************)
EXTENDS MCBackgroundRuns

CONSTANT B

VARIABLE part

Recurrent == INSTANCE BackgroundRuns WITH
  Trigger <- IntervalTask, NeedsReview <- {},
  Events <- {"create", "move", "unblock", "archive", "toggle", "delete", "run",
             "resume", "cancel", "crash"}

BoardInit == part \in {"linked", "recurrent"} /\ Init

BoardNext ==
  /\ UNCHANGED part
  /\ \/ part = "linked" /\ Next
     \/ /\ part = "recurrent" /\ Recurrent!Next
        /\ \A t \in Tasks \ {B} : card'[t] = card[t]

BoardSpec == BoardInit /\ [][BoardNext]_<<part, vars>>
=============================================================================
