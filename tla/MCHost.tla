------------------------------- MODULE MCHost -------------------------------
(***************************************************************************)
(* Small instances of the runner, the collectors of the host, the batches  *)
(* and the configuration, for TLC.                                         *)
(***************************************************************************)
EXTENDS Host
-----------------------------------------------------------------------------
(* A fast collector and two slow ones, of which one takes its budget. *)
CCadence == [c \in {"a", "b"} |-> 8]
CTimeout == [a |-> 1, b |-> 4, f |-> 5]
(* Two checks for one place, of every kind. *)
CTargetSets ==
  {{"tcp", "ports"}, {"icmp", "dnsbl"}, {"records", "http"}, {"dns", "tls"}}
(* What a script writes: definitions that agree and that do not, a series  *)
(* twice, items without a script's name, one of the agent's names, an item *)
(* that is refused and one that is too large for any request.              *)
Item(name, definition, series, own, bytes, sane) ==
  [name |-> name, definition |-> definition, series |-> series, script |-> own,
   size |-> bytes, sane |-> sane]
M1 == Item("a", "gauge", "x", "", 2, TRUE)
M2 == Item("a", "gauge", "x", "own", 1, TRUE)
M3 == Item("a", "counter", "y", "", 1, TRUE)
M4 == Item("b", "gauge", "x", "", 4, TRUE)
M5 == Item("b", "gauge", "x", "", 1, FALSE)
E1 == Item("e", "", "", "", 1, TRUE)
E2 == Item("e", "", "", "", 9, TRUE)
M6 == Item("own", "counter", "", "", 1, TRUE)
CMetrics == {<<>>, <<M1>>, <<M2>>, <<M1, M2>>, <<M1, M1>>, <<M3>>, <<M4, M1>>, <<M5>>, <<M6>>}
CEvents == {<<>>, <<E1>>, <<E1, E1>>, <<E2>>}
S1 == Item("script.ok", "", "false", "s1", 1, TRUE)
COutputs == [metric : CMetrics, event : CEvents, state : {<<>>, <<S1>>}]
(* The agent's own: a metric, a state and the event of a notice, or none.  *)
CSelfSignals ==
  {[metric |-> <<>>, event |-> <<>>, state |-> <<>>],
   [metric |-> <<Item("own", "gauge", "", "", 2, TRUE)>>,
    event |-> <<Item("notice", "", "", "", 1, TRUE)>>,
    state |-> <<Item("version", "", "1", "", 1, TRUE)>>]}
(* Intervals and cadences below, at and above one another; tokens from one *)
(* source and from two.                                                    *)
File(interval, source, spool, bytes, health, own, unknown, seconds) ==
  [interval |-> interval, source |-> source, spool |-> spool, bytes |-> bytes,
   cadence |-> [health |-> health, inventory |-> -1, script |-> own, unknown |-> unknown],
   script |-> seconds, switch |-> "on"]
CFiles ==
  {File(i, "token", TRUE, 1, h, s, u, d) :
     i \in {-1, 0, 1, 3}, h \in {-1, 0, 1, 4}, s \in {-1, 1, 4}, u \in {-1, 4}, d \in {0, 1, 4}}
  \cup {File(0, source, spool, bytes, -1, -1, -1, 0) :
          source \in {"none", "token", "path", "both"}, spool \in BOOLEAN, bytes \in {-1, 0, 1}}
COverlays ==
  [interval : {0, 2}, source : {"none", "token", "path", "both"}, switchedOff : BOOLEAN,
   local : BOOLEAN]
CBuiltIn == [health |-> 1, inventory |-> 9]
CFast == <<"f">>
CSlow == <<"a", "b">>
CPorts == 1 .. 2
CExpected == {1}
CScanners == 1 .. 2
CLists == <<"l1", "l2">>
CProbes == 1 .. 2
CNames == 1 .. 3
CAddresses == {11}
CScripts == <<"s1", "s2">>
=============================================================================
