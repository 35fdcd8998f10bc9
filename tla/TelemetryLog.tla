---------------------------- MODULE TelemetryLog ----------------------------
(***************************************************************************)
(* What the spool promises its callers, without parts, files, retries,     *)
(* splits, crashes or restarts: a lossy FIFO of telemetry items.  Items    *)
(* are numbered in the order they are collected.  Only the oldest queued   *)
(* items ever leave the queue, and each leaves it for one stated reason.   *)
(***************************************************************************)
EXTENDS Integers

CONSTANT Refusable  \* the items Pulse may refuse

VARIABLES queued,    \* items waiting for delivery
          delivered, \* items Pulse stored
          dropped,   \* items given up to age or budget
          refused    \* items given up because Pulse refuses them

Known == queued \cup delivered \cup dropped \cup refused

(* The items of S are older than every other queued item. *)
AtFront(S) == \A i \in S, j \in queued \ S : i < j

Init == queued = {} /\ delivered = {} /\ dropped = {} /\ refused = {}

(* Items newer than anything accepted before are queued. *)
Accept ==
  /\ queued \subseteq queued'
  /\ \A i \in queued' \ queued, j \in Known : i \in Nat /\ i > j
  /\ UNCHANGED <<delivered, dropped, refused>>

(* Pulse stores the items at the front.  They can have been on the wire    *)
(* when the queue dropped them, or be accepted by an attempt that follows  *)
(* a refusal.                                                              *)
Store ==
  LET S == delivered' \ delivered
  IN /\ delivered \subseteq delivered'
     /\ S \subseteq queued \cup dropped \cup refused
     /\ AtFront(S)
     /\ queued' = queued \ S /\ dropped' = dropped \ S /\ refused' = refused \ S

(* The oldest items expire or make room for newer ones. *)
Drop ==
  LET S == queued \ queued'
  IN /\ queued' \subseteq queued
     /\ AtFront(S)
     /\ dropped' = dropped \cup S
     /\ UNCHANGED <<delivered, refused>>

(* A single item Pulse refuses is given up; its neighbours stay queued. *)
Refuse ==
  \E i \in Refusable \cap (queued \cup dropped) :
    /\ AtFront({i})
    /\ refused' = refused \cup {i}
    /\ queued' = queued \ {i} /\ dropped' = dropped \ {i}
    /\ UNCHANGED delivered

Next == Accept \/ Store \/ Drop \/ Refuse

LogSpec == Init /\ [][Next]_<<queued, delivered, dropped, refused>>
=============================================================================
