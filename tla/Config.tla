------------------------------- MODULE Config -------------------------------
(***************************************************************************)
(* From the configuration file, the environment and the flags to the       *)
(* configuration in force and the schedule of the collectors               *)
(* (internal/config/config.go, cmd/pulse-linux/main.go).                   *)
(*                                                                         *)
(* A field stands for its kind: the interval for the numbers, whose zero   *)
(* means not set, a switch for the optional Booleans.  The token and the   *)
(* cadences, where layers and checks meet, are followed one by one.        *)
(* Numbers stay far from the width of a duration.                          *)
(***************************************************************************)
EXTENDS Integers, FiniteSets

CONSTANTS
  Files,      \* the files a user may write
  Overlays,   \* what environment and flags may say
  BuiltIn,    \* the default cadence per built-in collector (linuxCadences)
  Script,     \* the name of the script's collector
  Default     \* the default interval

VARIABLES
  file,       \* the file: [missing, explicit, interval, source, spool, bytes, cadence, script, switch]
  overlay,    \* [interval, source, switchedOff, local]
  credential, \* whether systemd provides a credential: "none", "good" or "bad"
  step,       \* "load", "resolve", "schedule", "running" or "rejected"
  cfg,        \* the configuration in force
  every       \* per collector: its cadence
vars == <<file, overlay, credential, step, cfg, every>>
-----------------------------------------------------------------------------
Unset == 0
Absent == -1
Collectors == DOMAIN BuiltIn \cup {Script}
Sources == {"none", "token", "path", "both"}
Larger(a, b) == IF a > b THEN a ELSE b
Layer(value, below) == IF value # Unset THEN value ELSE below

(* An absent file is an empty one. *)
EmptyFile ==
  [interval |-> Unset, source |-> "none", spool |-> FALSE, bytes |-> Unset,
   cadence |-> [c \in Collectors \cup {"unknown"} |-> Absent], script |-> Unset, switch |-> "unset"]
NoCfg == [interval |-> Unset, token |-> "none", spool |-> FALSE, bytes |-> Unset, switch |-> "unset"]

Init ==
  /\ file \in Files /\ overlay \in Overlays /\ credential \in {"none", "good", "bad"}
  /\ step = "load" /\ cfg = NoCfg /\ every = [c \in Collectors |-> Unset]

(* LoadFile: without the file that was asked for, or with fields it does   *)
(* not know, nothing starts.                                               *)
LoadFile ==
  /\ step = "load" /\ step' = "resolve" /\ file' \in {file, EmptyFile}
  /\ UNCHANGED <<overlay, credential, cfg, every>>
LoadFails ==
  /\ step = "load" /\ step' = "rejected"
  /\ UNCHANGED <<file, overlay, credential, cfg, every>>

(* The token: merge takes the file's source, applyOverlay replaces it by   *)
(* the environment's, whichever of the two it is; resolveToken looks for a *)
(* systemd credential if neither has one, and reads it.  Mutant: the       *)
(* environment's token leaves the file's path.                             *)
Ambiguous == file.source = "both" \/ overlay.source = "both"
Token_PathStays ==
  IF file.source = "path" THEN "file:path"
  ELSE IF overlay.source # "none" THEN "env:token"
  ELSE IF file.source # "none" THEN "file:token"
  ELSE IF credential # "none" THEN "credential" ELSE "none"
Token ==
  CASE overlay.source = "token" -> "env:token"
    [] overlay.source = "path" -> "env:path"
    [] overlay.source = "none" /\ file.source = "token" -> "file:token"
    [] overlay.source = "none" /\ file.source = "path" -> "file:path"
    [] overlay.source = "none" /\ file.source = "none" /\ credential # "none" -> "credential"
    [] OTHER -> "none"

Resolved ==
  [interval |-> Layer(overlay.interval, Layer(file.interval, Default)),
   token |-> IF overlay.local THEN "none" ELSE Token,
   spool |-> file.spool, bytes |-> file.bytes,
   switch |-> IF overlay.switchedOff THEN "off" ELSE file.switch]

(* The checks of Resolve. *)
CadenceAccepted(seconds, interval) == seconds >= interval
Accepted(c) ==
  /\ ~Ambiguous /\ c.interval > 0
  /\ overlay.local \/ c.token # "none"
  /\ c.token = "credential" => credential = "good"
  /\ c.spool => c.bytes > 0
  /\ c.bytes >= 0
  /\ \A n \in DOMAIN file.cadence :
       file.cadence[n] # Absent => CadenceAccepted(file.cadence[n], c.interval)
  /\ file.script # Unset => file.script >= c.interval

Resolve ==
  /\ step = "resolve" /\ Accepted(Resolved)
  /\ cfg' = Resolved /\ step' = "schedule"
  /\ UNCHANGED <<file, overlay, credential, every>>
Reject ==
  /\ step = "resolve" /\ ~Accepted(Resolved) /\ step' = "rejected"
  /\ UNCHANGED <<file, overlay, credential, cfg, every>>

(* main.go: unknown names are refused; the default of a collector is       *)
(* raised to the interval, what the user asks for is taken as it is.       *)
Known == \A n \in DOMAIN file.cadence : file.cadence[n] # Absent => n \in Collectors
Asked(c) == file.cadence[c]
Every(c) ==
  IF c = Script
  THEN IF Asked(c) # Absent THEN Asked(c) ELSE Larger(file.script, cfg.interval)
  ELSE Larger(IF Asked(c) # Absent THEN Asked(c) ELSE BuiltIn[c], cfg.interval)
Schedule ==
  /\ step = "schedule" /\ Known
  /\ step' = "running" /\ every' = [c \in Collectors |-> Every(c)]
  /\ UNCHANGED <<file, overlay, credential, cfg>>
UnknownName ==
  /\ step = "schedule" /\ ~Known /\ step' = "rejected"
  /\ UNCHANGED <<file, overlay, credential, cfg, every>>

Next == LoadFile \/ LoadFails \/ Resolve \/ Reject \/ Schedule \/ UnknownName
Spec == Init /\ [][Next]_vars
-----------------------------------------------------------------------------
(* Only known values. *)
TypeOK ==
  /\ file \in Files \cup {EmptyFile} /\ overlay \in Overlays
  /\ credential \in {"none", "good", "bad"}
  /\ step \in {"load", "resolve", "schedule", "running", "rejected"}
  /\ cfg.interval \in Nat /\ cfg.bytes \in Int /\ cfg.spool \in BOOLEAN
  /\ every \in [Collectors -> Nat]

(* A process that runs follows what it was told: no collector is due more  *)
(* often than the loop ticks, one with a cadence of its own has exactly    *)
(* that, and the token comes from one source, the strongest layer that     *)
(* names one, so that a token in the environment never meets a file's.     *)
ConfigSound ==
  step = "running" =>
    /\ cfg.interval > 0 /\ (cfg.spool => cfg.bytes > 0)
    /\ \A c \in Collectors :
         /\ every[c] >= cfg.interval
         /\ file.cadence[c] # Absent => every[c] = file.cadence[c]
    /\ ~overlay.local =>
         /\ overlay.source # "none" => cfg.token \in {"env:token", "env:path"}
         /\ overlay.source = "none" /\ file.source # "none" => cfg.token \in {"file:token", "file:path"}
         /\ cfg.token # "none"
    /\ overlay.switchedOff => cfg.switch = "off"
-----------------------------------------------------------------------------
(* The inductive invariant of ConfigSound, see HostProofs: what runs is    *)
(* what was resolved and accepted.                                         *)
Inductive ==
  /\ TypeOK
  /\ step \in {"schedule", "running"} => cfg = Resolved /\ Accepted(Resolved)
  /\ step = "running" => \A c \in Collectors : every[c] = Every(c)
=============================================================================
