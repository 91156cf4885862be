-------------------------- MODULE MCOutboxSchedule --------------------------
(* Instances of OutboxSchedule for TLC: the loop's interval, with a backoff  *)
(* of 20 and 40 s where the code doubles from 5 to 900 s, and a limit of two *)
(* where the code's is fifty.                                                *)
EXTENDS OutboxSchedule

MCEntry == {"unanswered", "refused", "dossier", "update"}
MCCall == [e \in MCEntry |->
  [function |-> IF e = "update" THEN "updateRecordStatus" ELSE "addRecord",
   lacks |-> IF e = "update" THEN {"checksum"} ELSE {"record_id"}]]
=============================================================================
