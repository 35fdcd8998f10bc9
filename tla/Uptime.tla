------------------------------- MODULE Uptime -------------------------------
(***************************************************************************)
(* The uptime collector (internal/modules/uptime): checks that share a     *)
(* semaphore, each with a budget of its own, and what a check may claim.   *)
(* Four kinds are one exchange each, with a name server, a port, an HTTP   *)
(* or a TLS server.  The others are a port scan with its workers           *)
(* (checks.go, checkPorts), a blocklist lookup with its reference query    *)
(* (checkDNSBL), a train of pings and what is made of its output (icmp.go) *)
(* and a lookup of DNS records with the aliases in its answer (dns.go).    *)
(*                                                                         *)
(* A dial that its context cuts short is taken to see that context ended.  *)
(***************************************************************************)
EXTENDS Integers, FiniteSets, Sequences, SequencesExt

CONSTANTS
  Concurrency,  \* checks that run at the same time
  Ports,        \* the range of the scan, a set of numbers without gaps
  Expected,     \* those that should be open
  Scanners,     \* the workers of the scan, at most one per port
  Lists,        \* the blocklists, a sequence
  Probes,       \* the pings of a train
  Names,        \* the DNS names of an answer, numbers; the least is asked for
  Addresses,    \* the values of the address records in it, numbers
  Wanted,       \* those the target expects
  MaxAnswers,   \* bound on the records of one answer
  TargetSets    \* the sets of targets a collector may be configured with

VARIABLES
  targets,    \* the configured targets, one of each kind at most
  cancelled,  \* whether the collector's context has ended
  over,       \* the targets whose own budget is used up
  stage,      \* per target: "waiting", "running", "checked", "done"
  result,     \* per target: [measured, success, value]
  truth,      \* history, per target: the answer, or the value that answers amount to
  dispatched, \* how many ports have been handed out
  closed,     \* whether the jobs channel is closed
  scanner,    \* per scanner: its port, Free or Left
  port,       \* per port: what the scan has found, "none" without a result
  left,       \* the lists that are left, in order
  reference,  \* per list: whether its reference query was "right" or "wrong"
  listed,     \* per list: "none", "absent", "listed" or "error"
  returned

scan == <<dispatched, closed, scanner, port>>
lookups == <<left, reference, listed>>
checks == <<stage, result, truth>>
vars == <<targets, cancelled, over, checks, scan, lookups, returned>>
-----------------------------------------------------------------------------
Kinds == {"dns", "tcp", "http", "tls", "ports", "dnsbl", "icmp", "records"}
Free == 0
Left == -1
Lowest == CHOOSE p \in Ports : \A q \in Ports : p <= q
Unmeasured == [measured |-> FALSE, success |-> FALSE, value |-> {}]

(* Whether the context of a target's check has ended. *)
Ended(t) == cancelled \/ t \in over

Init ==
  /\ targets \in TargetSets /\ cancelled = FALSE /\ over = {} /\ returned = FALSE
  /\ stage = [t \in targets |-> "waiting"]
  /\ result = [t \in targets |-> Unmeasured] /\ truth = [t \in targets |-> {}]
  /\ dispatched = 0 /\ closed = FALSE
  /\ scanner = [w \in Scanners |-> Free] /\ port = [p \in Ports |-> "none"]
  /\ left = Lists /\ reference = [l \in ToSet(Lists) |-> "unasked"]
  /\ listed = [l \in ToSet(Lists) |-> "none"]

Cancel ==
  /\ ~cancelled /\ ~returned /\ cancelled' = TRUE
  /\ UNCHANGED <<targets, over, checks, scan, lookups, returned>>
Timeout(t) ==
  /\ stage[t] = "running" /\ t \notin over /\ over' = over \cup {t}
  /\ UNCHANGED <<targets, cancelled, checks, scan, lookups, returned>>

(* A target takes a place of the semaphore or, once cancelled, gives up.   *)
Running == {t \in targets : stage[t] \in {"running", "checked"}}
Acquire(t) ==
  /\ stage[t] = "waiting" /\ Cardinality(Running) < Concurrency
  /\ stage' = [stage EXCEPT ![t] = "running"]
  /\ UNCHANGED <<targets, cancelled, over, result, truth, scan, lookups, returned>>
GiveUp(t) ==
  /\ stage[t] = "waiting" /\ cancelled
  /\ stage' = [stage EXCEPT ![t] = "done"]
  /\ UNCHANGED <<targets, cancelled, over, result, truth, scan, lookups, returned>>

IsRunning(t) == t \in targets /\ stage[t] = "running"
Checked(t, measured, success) ==
  /\ stage' = [stage EXCEPT ![t] = "checked"]
  /\ result' = [result EXCEPT ![t] = [measured |-> measured, success |-> success, value |-> {}]]

(* One exchange ends with the answer that is wanted, with another one (an  *)
(* HTTP status, a certificate), with a refusal, which is an answer, too,   *)
(* or with none: an error, an invalid target or the end of the context.    *)
Exchange(t, answers) ==
  /\ IsRunning(t)
  /\ \E answer \in answers \cup {"none"} :
       /\ Ended(t) => answer = "none"
       /\ truth' = [truth EXCEPT ![t] = {answer}]
       /\ Checked(t, answer # "none", answer = "wanted")
  /\ UNCHANGED <<targets, cancelled, over, scan, lookups, returned>>
CheckDNS == Exchange("dns", {"wanted"})
CheckTCP == Exchange("tcp", {"wanted", "refused"})
CheckHTTP == Exchange("http", {"wanted", "other", "refused"})
CheckTLS == Exchange("tls", {"wanted", "other", "refused"})

(* checkPorts: one port after the other, limited in rate, to the scanners. *)
Scanning == IsRunning("ports")
Dispatch(w) ==
  /\ Scanning /\ ~closed /\ dispatched < Cardinality(Ports) /\ scanner[w] = Free
  /\ scanner' = [scanner EXCEPT ![w] = Lowest + dispatched] /\ dispatched' = dispatched + 1
  /\ UNCHANGED <<targets, cancelled, over, checks, closed, port, lookups, returned>>
Close ==
  /\ Scanning /\ ~closed /\ (dispatched = Cardinality(Ports) \/ Ended("ports"))
  /\ closed' = TRUE
  /\ UNCHANGED <<targets, cancelled, over, checks, dispatched, scanner, port, lookups, returned>>

(* One dial: two seconds without an answer count as filtered, any other    *)
(* failure, the end of the context too, as an error.                       *)
Dial(w) ==
  /\ Scanning /\ scanner[w] \in Ports
  /\ \E answer \in {"open", "refused", "filtered", "error"} :
       /\ Ended("ports") => answer = "error"
       /\ port' = [port EXCEPT ![scanner[w]] = answer]
  /\ scanner' = [scanner EXCEPT ![w] = Free]
  /\ UNCHANGED <<targets, cancelled, over, checks, dispatched, closed, lookups, returned>>
Leave(w) ==
  /\ Scanning /\ closed /\ scanner[w] = Free
  /\ scanner' = [scanner EXCEPT ![w] = Left]
  /\ UNCHANGED <<targets, cancelled, over, checks, dispatched, closed, port, lookups, returned>>

With(answer) == {p \in Ports : port[p] = answer}
AsExpected == \A p \in Ports : port[p] = "open" <=> p \in Expected

(* A scan is no measurement if a port has no result or a failed one, or if *)
(* the host has answered nowhere.  Mutant: silence is a measurement.       *)
Measured_Silence == With("none") \cup With("error") = {}
Measured ==
  /\ With("none") \cup With("error") = {} /\ ~Ended("ports")
  /\ With("open") \cup With("refused") # {}
CheckPorts ==
  /\ Scanning /\ \A w \in Scanners : scanner[w] = Left
  /\ Checked("ports", Measured, Measured /\ AsExpected)
  /\ UNCHANGED <<targets, cancelled, over, truth, scan, lookups, returned>>

(* checkDNSBL: a list counts only if it knows its own test address.        *)
Trusted(right) == right
LookingUp == IsRunning("dnsbl") /\ left # <<>>
QueryReference ==
  /\ LookingUp /\ reference[Head(left)] = "unasked"
  /\ \E answer \in {"right", "wrong"} :
       /\ Ended("dnsbl") => answer = "wrong"
       /\ reference' = [reference EXCEPT ![Head(left)] = answer]
       /\ IF Trusted(answer = "right")
          THEN UNCHANGED <<left, listed>>
          ELSE listed' = [listed EXCEPT ![Head(left)] = "error"] /\ left' = Tail(left)
  /\ UNCHANGED <<targets, cancelled, over, checks, scan, returned>>
QueryList ==
  /\ LookingUp /\ reference[Head(left)] # "unasked"
  /\ \E answer \in {"absent", "listed", "error"} :
       /\ Ended("dnsbl") => answer = "error"
       /\ listed' = [listed EXCEPT ![Head(left)] = answer]
  /\ left' = Tail(left)
  /\ UNCHANGED <<targets, cancelled, over, checks, scan, reference, returned>>
CheckDNSBL ==
  /\ IsRunning("dnsbl") /\ left = <<>>
  /\ Checked("dnsbl", \A l \in ToSet(Lists) : listed[l] # "error",
             \A l \in ToSet(Lists) : listed[l] = "absent")
  /\ UNCHANGED <<targets, cancelled, over, truth, scan, lookups, returned>>

(* checkICMP and parsePing.  Every ping is answered in time, late or never.*)
(* iputils prints a late answer with its time, macOS counts it as late,    *)
(* with its duplicates, and prints nothing.  A line of an unknown form is  *)
(* missed; where late duplicates are counted too, nothing tells, so that   *)
(* case is left out.                                                       *)
Consistent(received, seen, late) == seen <= received /\ received - seen <= late
CheckICMP ==
  /\ IsRunning("icmp")
  /\ \E fate \in [Probes -> {"in_time", "late", "lost"}], os \in {"linux", "darwin"},
        missed \in SUBSET Probes, duplicates \in 0 .. 1 :
       LET answered == {p \in Probes : fate[p] # "lost"}
           in_time == {p \in Probes : fate[p] = "in_time"}
           late == answered \ in_time
           seen == (IF os = "darwin" THEN in_time ELSE answered) \ missed
           counted == IF os = "darwin" /\ late # {} THEN Cardinality(late) + duplicates ELSE 0
           measured == Consistent(Cardinality(answered), Cardinality(seen), counted)
       IN /\ duplicates > 0 => missed = {}
          /\ truth' = [truth EXCEPT !["icmp"] = in_time]
          /\ result' = [result EXCEPT !["icmp"] =
                          IF measured
                          THEN [measured |-> TRUE, success |-> seen \cap in_time # {},
                                value |-> seen \cap in_time]
                          ELSE Unmeasured]
  /\ stage' = [stage EXCEPT !["icmp"] = "checked"]
  /\ UNCHANGED <<targets, cancelled, over, scan, lookups, returned>>

(* checkRecords: parseDNSResponse takes the address records of the name it *)
(* asked for and of the aliases it leads to, in as many passes over the    *)
(* answer as it has records.                                               *)
Asked == CHOOSE n \in Names : \A m \in Names : n <= m
Answer == [owner : Names, type : {"cname"}, value : Names]
            \cup [owner : Names, type : {"a"}, value : Addresses]
Follow(owners, a) ==
  IF a.type = "cname" /\ a.owner \in owners THEN owners \cup {a.value} ELSE owners
Pass(owners, answers) == FoldLeft(Follow, owners, answers)
Owners(answers) == FoldLeft(LAMBDA owners, a : Pass(owners, answers), {Asked}, answers)
Values(answers, owners) ==
  {a.value : a \in {b \in ToSet(answers) : b.type = "a" /\ b.owner \in owners}}

(* The names an answer leads to: the least set with the name asked for and *)
(* the target of every alias of a member.                                  *)
ClosedUnder(answers, S) ==
  \A a \in ToSet(answers) : a.type = "cname" /\ a.owner \in S => a.value \in S
Chain(answers) ==
  {n \in Names : \A S \in SUBSET Names : Asked \in S /\ ClosedUnder(answers, S) => n \in S}

(* Name servers are asked in turn until one answers; without values there  *)
(* is no measurement.                                                      *)
CheckRecords ==
  /\ IsRunning("records")
  /\ \/ /\ result' = [result EXCEPT !["records"] = Unmeasured] /\ UNCHANGED truth
     \/ /\ ~Ended("records")
        /\ \E answers \in BoundedSeq(Answer, MaxAnswers) :
             LET values == Values(answers, Owners(answers))
             IN /\ truth' = [truth EXCEPT !["records"] = Values(answers, Chain(answers))]
                /\ result' = [result EXCEPT !["records"] =
                     [measured |-> values # {}, success |-> values = Wanted, value |-> values]]
  /\ stage' = [stage EXCEPT !["records"] = "checked"]
  /\ UNCHANGED <<targets, cancelled, over, scan, lookups, returned>>

(* The end of check: what its context cut short is not measured. *)
Cut(t) == IF Ended(t) THEN Unmeasured ELSE result[t]
Finish(t) ==
  /\ stage[t] = "checked" /\ stage' = [stage EXCEPT ![t] = "done"]
  /\ result' = [result EXCEPT ![t] = Cut(t)]
  /\ UNCHANGED <<targets, cancelled, over, truth, scan, lookups, returned>>

Return ==
  /\ ~returned /\ \A t \in targets : stage[t] = "done"
  /\ returned' = TRUE /\ UNCHANGED <<targets, cancelled, over, checks, scan, lookups>>

Next ==
  \/ Cancel \/ CheckDNS \/ CheckTCP \/ CheckHTTP \/ CheckTLS \/ Close \/ CheckPorts \/ QueryReference \/ QueryList
  \/ CheckDNSBL \/ CheckICMP \/ CheckRecords \/ Return
  \/ \E t \in targets : Timeout(t) \/ Acquire(t) \/ GiveUp(t) \/ Finish(t)
  \/ \E w \in Scanners : Dispatch(w) \/ Dial(w) \/ Leave(w)
Spec == Init /\ [][Next]_vars
-----------------------------------------------------------------------------
(* Only known values. *)
TypeOK ==
  /\ targets \subseteq Kinds /\ over \subseteq targets
  /\ \A t \in targets : stage[t] \in {"waiting", "running", "checked", "done"}
  /\ \A t \in targets : result[t].measured \in BOOLEAN /\ result[t].success \in BOOLEAN
  /\ dispatched \in 0 .. Cardinality(Ports)
  /\ scanner \in [Scanners -> {Free, Left} \cup Ports]
  /\ port \in [Ports -> {"none", "open", "refused", "filtered", "error"}]

(* What a finished check claims was measured: an exchange had an answer; a *)
(* scan has one of every port and a sign of life of the host, and one that *)
(* succeeded found the expected ports and no other; a blocklist result     *)
(* rests on a right reference query, whatever became of the whole check;   *)
(* the losses of a train are those that were not answered in time, and the *)
(* records of a name those its aliases lead to, in whichever order the     *)
(* answer has them.                                                        *)
Claims(t) == stage[t] = "done" /\ result[t].measured
PortsHonest ==
  "ports" \in targets /\ Claims("ports") =>
    /\ With("none") = {} /\ With("error") = {} /\ With("open") \cup With("refused") # {}
    /\ result["ports"].success => With("open") = Expected
ListsHonest ==
  /\ \A l \in ToSet(Lists) : listed[l] \in {"absent", "listed"} => reference[l] = "right"
  /\ "dnsbl" \in targets /\ Claims("dnsbl") =>
       \A l \in ToSet(Lists) : listed[l] \in {"absent", "listed"}
AnswersHonest ==
  \A t \in targets \cap {"dns", "tcp", "http", "tls"} :
    Claims(t) => truth[t] # {"none"} /\ (result[t].success <=> truth[t] = {"wanted"})
ValuesExact ==
  /\ "icmp" \in targets /\ Claims("icmp") => result["icmp"].value = truth["icmp"]
  /\ "records" \in targets /\ stage["records"] = "checked" =>
       result["records"].value = truth["records"]
ResultsHonest == AnswersHonest /\ PortsHonest /\ ListsHonest /\ ValuesExact
-----------------------------------------------------------------------------
(* The inductive invariant of ResultsHonest, see HostProofs.               *)

Reached(t) == stage[t] \in {"checked", "done"} /\ result[t].measured
Domains ==
  /\ DOMAIN stage = targets /\ DOMAIN result = targets /\ DOMAIN truth = targets
  /\ DOMAIN reference = ToSet(Lists) /\ DOMAIN listed = ToSet(Lists)
Fresh ==
  \A t \in targets :
    stage[t] \in {"waiting", "running"} => result[t] = Unmeasured /\ truth[t] = {}
Answered ==
  \A t \in targets \cap {"dns", "tcp", "http", "tls"} :
    Reached(t) => truth[t] # {"none"} /\ (result[t].success <=> truth[t] = {"wanted"})
Scanned ==
  "ports" \in targets /\ Reached("ports") =>
    /\ With("none") = {} /\ With("error") = {} /\ With("open") \cup With("refused") # {}
    /\ result["ports"].success => With("open") = Expected

(* A list that is left has none but a right reference query; one that is   *)
(* not left has a result.                                                  *)
LookedUp ==
  /\ left \in Seq(ToSet(Lists)) /\ \A i, j \in DOMAIN left : left[i] = left[j] => i = j
  /\ \A l \in ToSet(Lists) :
       /\ listed[l] \in {"none", "absent", "listed", "error"}
       /\ listed[l] = "none" => l \in ToSet(left)
       /\ l \in ToSet(left) => reference[l] \in {"unasked", "right"}
       /\ listed[l] \in {"absent", "listed"} => reference[l] = "right"
  /\ "dnsbl" \in targets /\ Reached("dnsbl") =>
       \A l \in ToSet(Lists) : listed[l] \in {"absent", "listed"}
Valued ==
  /\ "icmp" \in targets /\ Reached("icmp") => result["icmp"].value = truth["icmp"]
  /\ "records" \in targets /\ stage["records"] = "checked" =>
       result["records"].value = truth["records"]

Inductive == TypeOK /\ Domains /\ Fresh /\ Answered /\ Scanned /\ LookedUp /\ Valued
=============================================================================
