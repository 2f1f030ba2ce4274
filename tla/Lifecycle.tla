----------------------------- MODULE Lifecycle ------------------------------
(***************************************************************************)
(* What a client of the system is promised about a document, with no       *)
(* queue, no handler and no stage: a status, a report that grows section   *)
(* by section while the document is processed, a number of failed          *)
(* attempts, and a verdict that has been earned.                           *)
(*                                                                         *)
(* The verdict is taken back by one thing only: a redelivery of the task,  *)
(* which processes the document again.                                     *)
(***************************************************************************)
EXTENDS Naturals

CONSTANTS Doc, Section, MaxRetries

VARIABLES
    phase,      \* of each document
    report,     \* the sections it shows
    attempts,   \* failed attempts so far
    reason,     \* does the document show a failure reason?
    redeliveries  \* faults that may have handed out a task again

vars == <<phase, report, attempts, reason, redeliveries>>

Init ==
    /\ phase = [d \in Doc |-> "NEW"]
    /\ report = [d \in Doc |-> {}]
    /\ attempts = [d \in Doc |-> 0]
    /\ reason = [d \in Doc |-> FALSE]
    /\ redeliveries = 0

Accept(d) ==
    /\ phase[d] = "NEW"
    /\ phase' = [phase EXCEPT ![d] = "PENDING"]
    /\ UNCHANGED <<report, attempts, reason, redeliveries>>

\* A verdict stays, except that a redelivered task opens the document again.
Open(d) ==
    \/ phase[d] \in {"PENDING", "PROCESSING"}
    \/ phase[d] \in {"DONE", "FAILED"} /\ redeliveries > 0

Process(d) ==
    /\ Open(d)
    /\ phase' = [phase EXCEPT ![d] = "PROCESSING"]
    /\ reason' = [reason EXCEPT ![d] = FALSE]
    /\ UNCHANGED <<report, attempts, redeliveries>>

\* A section is added or replaced, and nothing else in the report changes.
Report(d, key) ==
    /\ phase[d] = "PROCESSING"
    /\ report' = [report EXCEPT ![d] = @ \union {key}]
    /\ UNCHANGED <<phase, attempts, reason, redeliveries>>

Complete(d) ==
    /\ phase[d] = "PROCESSING" /\ report[d] = Section
    /\ phase' = [phase EXCEPT ![d] = "DONE"]
    /\ UNCHANGED <<report, attempts, reason, redeliveries>>

AttemptFails(d) ==
    /\ Open(d)
    /\ attempts' = [attempts EXCEPT ![d] = @ + 1]
    /\ UNCHANGED <<phase, report, reason, redeliveries>>

\* Only an exhausted document is FAILED, and it says why.
GiveUp(d) ==
    /\ attempts[d] >= MaxRetries
    /\ Open(d)
    /\ phase' = [phase EXCEPT ![d] = "FAILED"]
    /\ reason' = [reason EXCEPT ![d] = TRUE]
    /\ UNCHANGED <<report, attempts, redeliveries>>

Remove(d) ==
    /\ phase[d] \notin {"NEW", "GONE"}
    /\ phase' = [phase EXCEPT ![d] = "GONE"]
    /\ report' = [report EXCEPT ![d] = {}]
    /\ UNCHANGED <<attempts, reason, redeliveries>>

Redelivery ==
    /\ redeliveries' = redeliveries + 1
    /\ UNCHANGED <<phase, report, attempts, reason>>

Next ==
    \/ \E d \in Doc :
        \/ Accept(d) \/ Process(d) \/ Complete(d)
        \/ AttemptFails(d) \/ GiveUp(d) \/ Remove(d)
        \/ \E key \in Section : Report(d, key)
    \/ Redelivery

Spec == Init /\ [][Next]_vars
=============================================================================
