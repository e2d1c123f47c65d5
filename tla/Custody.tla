------------------------------- MODULE Custody -------------------------------
(***************************************************************************)
(* What inspect-capture promises of a capture directory, with the files    *)
(* abstracted away: the directory is in the custody of at most one         *)
(* capture, the evidence a reader accepts (if it accepts any) is the       *)
(* custodian's, and a capture exits 0 or 1 only while its own evidence,    *)
(* with that outcome, would be accepted.                                   *)
(***************************************************************************)
CONSTANTS Captures, Absent

VARIABLES
    owner,      \* the capture whose evidence may be accepted, or Absent
    sealed,     \* what a reader accepts: [by, outcome], or Absent
    verdict     \* capture -> its exit status, "none" before it exits

vars == <<owner, sealed, verdict>>

Outcomes == {"success", "findings", "trouble"}

Init ==
    /\ owner = Absent
    /\ sealed = Absent
    /\ verdict = [c \in Captures |-> "none"]

\* A capture that has not exited takes the directory over: the earlier
\* evidence is gone for good.
Take(c) ==
    /\ verdict[c] = "none"
    /\ owner' = c
    /\ sealed' = Absent
    /\ UNCHANGED verdict

\* Only the custodian's evidence becomes acceptable.
Seal(outcome) ==
    /\ sealed = Absent
    /\ owner # Absent
    /\ sealed' = [by |-> owner, outcome |-> outcome]
    /\ UNCHANGED <<owner, verdict>>

\* A file is rewritten: what was accepted no longer is.
Unseal ==
    /\ sealed # Absent
    /\ sealed' = Absent
    /\ UNCHANGED <<owner, verdict>>

\* A signalled command is reported as findings by the capture, and read back
\* as trouble.
Agrees(code, outcome) == code = "success" <=> outcome = "success"

ExitSealed(c, code) ==
    /\ verdict[c] = "none"
    /\ code \in {"success", "findings"}
    /\ sealed # Absent
    /\ sealed.by = c
    /\ Agrees(code, sealed.outcome)
    /\ verdict' = [verdict EXCEPT ![c] = code]
    /\ UNCHANGED <<owner, sealed>>

ExitTrouble(c) ==
    /\ verdict[c] = "none"
    /\ verdict' = [verdict EXCEPT ![c] = "trouble"]
    /\ UNCHANGED <<owner, sealed>>

Next ==
    \/ \E c \in Captures : Take(c) \/ ExitTrouble(c)
    \/ \E c \in Captures : \E code \in Outcomes : ExitSealed(c, code)
    \/ \E outcome \in Outcomes : Seal(outcome)
    \/ Unseal

Spec == Init /\ [][Next]_vars
=============================================================================
