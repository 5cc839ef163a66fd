----------------------------- MODULE StopRecord -----------------------------
(***************************************************************************)
(* What the driver owes the gateway about stops, without the driver: one   *)
(* record per sandbox that says whether it is stopped.  It is held, free,  *)
(* or torn while it is rewritten, and goes from one to the other only by   *)
(* way of torn.  Once the gateway has been told of a stop, start or delete *)
(* it keeps what it was told until it asks for something else.             *)
(* Module Driver implements it, and says by which of its variables.        *)
(***************************************************************************)
CONSTANT Names

VARIABLES
  record,   (* Each sandbox's record.                                      *)
  told      (* What the gateway was last told.                             *)

(* What the record is when the gateway was told for sure.                  *)
Meaning == [stopped |-> "held", started |-> "free", deleted |-> "free"]

Sure == {"stopped", "started", "deleted"}
Unsure == {"new", "unknown", "deleting"}

Init ==
  /\ record = [n \in Names |-> "free"]
  /\ told = [n \in Names |-> "new"]

(* The record is rewritten by halves, while nothing is promised of it.     *)
Rewrite(n) ==
  /\ told[n] \in Unsure
  /\ record'[n] \in IF record[n] = "torn" THEN {"held", "free"} ELSE {"torn"}

Keep(n) == record'[n] = record[n]

(* The gateway asks, or hears that the actor is gone.                      *)
Ask(n) == told'[n] \in Unsure /\ Keep(n)

(* It is told what the record says by now.                                 *)
Tell(n) ==
  /\ told'[n] \in Sure
  /\ record'[n] = Meaning[told'[n]]
  /\ Keep(n) \/ Rewrite(n)

(* It gets no answer, or one it cannot be sure of, as the record changes.  *)
GiveUp(n) == told[n] \in Unsure /\ told'[n] \in Unsure /\ Rewrite(n)

Step(n) ==
  \/ told'[n] = told[n] /\ (Keep(n) \/ Rewrite(n))
  \/ Ask(n) \/ Tell(n) \/ GiveUp(n)

(* A crash finds any number of sandboxes at work.                          *)
Next == \A n \in Names : Step(n)

Spec == Init /\ [][Next]_<<record, told>>
=============================================================================
