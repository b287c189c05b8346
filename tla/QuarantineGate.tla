---------------------------- MODULE QuarantineGate ----------------------------
(***************************************************************************)
(* What the quarantine of one untrusted file promises, to tickets and to   *)
(* the Knowledge Base alike: the file gets at most one verdict, and the    *)
(* verdict is the truth about its content.  While no verdict is known the  *)
(* file may be served only where the deployment does not scan.             *)
(***************************************************************************)
CONSTANT Content      \* what the file really is: "clean" or "malware"

VARIABLES
  verdict,    \* "none", "clean", "infected" or "blocked" (refused by policy)
  policy      \* whether the deployment scans: "on" or "off"

vars == <<verdict, policy>>

Served == verdict = "clean" \/ (verdict = "none" /\ policy = "off")

Init ==
  /\ verdict = "none"
  /\ policy \in {"on", "off"}

Decide ==
  /\ verdict = "none"
  /\ verdict' = IF Content = "clean" THEN "clean" ELSE "infected"
  /\ UNCHANGED policy

(* The file is refused before it is stored.                                 *)
Refuse ==
  /\ verdict = "none"
  /\ verdict' = "blocked"
  /\ UNCHANGED policy

ChangePolicy ==
  /\ policy' \in {"on", "off"}
  /\ UNCHANGED verdict

Next == Decide \/ Refuse \/ ChangePolicy

Spec == Init /\ [][Next]_vars

(* Malware is never served by a deployment that scans.                      *)
MalwareHeld == Content = "malware" /\ policy = "on" => ~Served
=============================================================================
