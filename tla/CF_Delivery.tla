------------------------------ MODULE CF_Delivery ------------------------------
(***************************************************************************)
(* What a file transfer promises to the two sides that ask for it, without *)
(* PDUs, timers and sub-states: what becomes of the source, when the copy  *)
(* is put in place, what each side takes the outcome to be, and what the   *)
(* receiver reports of it.  Nothing is promised about when it ends.        *)
(***************************************************************************)
EXTENDS Naturals

CONSTANT Confirmed  \* the sender waits to hear of the outcome

VARIABLES source,   \* where the source file is
          copy,     \* whether the destination holds the file sent
          tx,       \* the sender: open, cancelled, success, failure, over
          rx,       \* the receiver: none, open, cancelled
          attempts, \* how many receive transactions there were
          reports   \* what the receiver has reported of the outcome

vars == <<source, copy, tx, rx, attempts, reports>>

Init ==
  /\ source = "present" /\ copy = "none"
  /\ tx = "open" /\ rx = "none"
  /\ attempts = 0 /\ reports = {}

-------------------------------------------------------------------------------
(* The sender's side *)

(* The source stays, or goes from its place to one of these places. *)
SourceGoesTo(places) ==
  source' = source \/ (source = "present" /\ source' \in places)

Cancel ==
  /\ tx = "open" /\ tx' = "cancelled"
  /\ UNCHANGED <<source, copy, rx, attempts, reports>>

(* A success is known to be one, if it is confirmed; only then, and at once, *)
(* the source may go.                                                        *)
Succeed ==
  /\ tx = "open" /\ tx' \in {"success", "over"}
  /\ Confirmed => copy = "good"
  /\ SourceGoesTo({"removed", "in_move_dir"})
  /\ UNCHANGED <<copy, rx, attempts, reports>>

Fail ==
  /\ tx \in {"open", "cancelled"} /\ tx' \in {"failure", "over"}
  /\ SourceGoesTo({"in_fail_dir"})
  /\ UNCHANGED <<copy, rx, attempts, reports>>

(* What comes later may turn success into failure, never the reverse. *)
Spoil ==
  /\ tx = "success" /\ tx' = "failure"
  /\ UNCHANGED <<source, copy, rx, attempts, reports>>

Forget ==
  /\ tx \in {"success", "failure"} /\ tx' = "over"
  /\ UNCHANGED <<source, copy, rx, attempts, reports>>

-------------------------------------------------------------------------------
(* The receiver's side *)

Attempt ==
  /\ rx = "none" /\ rx' = "open"
  /\ attempts' = attempts + 1
  /\ UNCHANGED <<source, copy, tx, reports>>

CancelAttempt ==
  /\ rx = "open" /\ rx' = "cancelled"
  /\ UNCHANGED <<source, copy, tx, attempts, reports>>

(* The one attempt has not reported anything. *)
Unreported == attempts = 1 => reports = {}

Deliver == rx = "open" /\ Unreported /\ copy' = "good"

(* A cancelled attempt reports no success; what is reported of the copy is *)
(* true; and one attempt never says two things about it.                   *)
Truthful(r) ==
  /\ r.success => rx = "open"
  /\ r.success \/ r.file_status = "RETAINED" => copy' = "good"
  /\ attempts = 1 =>
       \A said \in reports' : /\ said.file_status = r.file_status
                              /\ said.delivery_code = r.delivery_code

(* A turn of the receiver may put the copy in place, report, and be its last. *)
Serve ==
  /\ rx # "none" /\ rx' \in {rx, "none"}
  /\ copy' = copy \/ Deliver
  /\ reports \subseteq reports' /\ \A r \in reports' \ reports : Truthful(r)
  /\ UNCHANGED <<source, tx, attempts>>

-------------------------------------------------------------------------------

Next ==
  \/ Cancel \/ Succeed \/ Fail \/ Spoil \/ Forget
  \/ Attempt \/ CancelAttempt \/ Serve

Spec == Init /\ [][Next]_vars
===============================================================================
