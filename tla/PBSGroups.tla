----------------------------- MODULE PBSGroups -----------------------------
(***************************************************************************)
(* The scan of backup groups (internal/modules/pbs/pbs.go, collectGroups   *)
(* and collectDatastoreGroups): every namespace of every datastore, within *)
(* a time budget and up to a number of groups, with reads that fail one by *)
(* one.  What the scan could not see it has to admit.                      *)
(***************************************************************************)
EXTENDS Integers, Sequences, SequencesExt

CONSTANTS
  Stores,      \* the datastores, sorted
  Namespaces,  \* [store -> its namespaces as a sequence, breadth-first, root first]
  MaxGroups,   \* bound: the groups of one namespace
  Limit        \* the 2000 groups of a scan

VARIABLES
  groups,     \* external: how many groups each namespace has
  expired,    \* whether the scan's context has ended
  listed,     \* whether the datastores have been listed
  stores,     \* the datastores that are left
  names,      \* the namespaces that are left of the first of them, or Unlisted
  firstErr,   \* whether a read of the first of them has failed
  remaining, truncated, complete,
  read,       \* the namespaces read
  series,     \* how many groups of each namespace have series of their own
  summary,    \* the datastores with a summary: how many groups it counts
  reported,   \* the datastores whose failure has been reported
  finished

scan == <<stores, names, firstErr, remaining, truncated, complete, read, series,
          summary, reported>>
vars == <<groups, expired, listed, scan, finished>>
-----------------------------------------------------------------------------
Unlisted == <<"unlisted", "unlisted">>  \* no list, which has a name only once
Lower(a, b) == IF a < b THEN a ELSE b
Store == Head(stores)
Spaces == {<<s, n>> : s \in ToSet(Stores), n \in UNION {ToSet(Namespaces[s]) : s \in ToSet(Stores)}}
All == {p \in Spaces : p[2] \in ToSet(Namespaces[p[1]])}
Of(s) == {p \in All : p[1] = s}

Init ==
  /\ groups \in [All -> 0 .. MaxGroups]
  /\ expired = FALSE /\ listed = FALSE /\ finished = FALSE
  /\ stores = <<>> /\ names = Unlisted /\ firstErr = FALSE
  /\ remaining = Limit /\ truncated = FALSE /\ complete = TRUE
  /\ read = {} /\ series = [p \in All |-> 0] /\ summary = [s \in {} |-> 0] /\ reported = {}

(* The scan's own timeout or the pass's end. *)
Expire ==
  /\ ~expired /\ ~finished /\ expired' = TRUE
  /\ UNCHANGED <<groups, listed, scan, finished>>

ListStores ==
  /\ ~listed /\ ~expired /\ listed' = TRUE /\ stores' = Stores
  /\ UNCHANGED <<groups, expired, names, firstErr, remaining, truncated, complete, read, series,
                 summary, reported, finished>>
ListStoresFails ==
  /\ ~listed /\ listed' = TRUE /\ complete' = FALSE /\ finished' = TRUE
  /\ UNCHANGED <<groups, expired, stores, names, firstErr, remaining, truncated, read, series,
                 summary, reported>>

(* The scan goes to the next datastore.  After an error, or once its       *)
(* context has ended, it is not complete.  Mutant: only the context counts. *)
NextStore_ContextOnly(failed) ==
  /\ complete' = (complete /\ ~expired)
  /\ reported' = IF failed THEN reported \cup {Store} ELSE reported
  /\ stores' = (IF expired THEN <<>> ELSE Tail(stores))
  /\ names' = Unlisted /\ firstErr' = FALSE
NextStore(failed) ==
  /\ complete' = (complete /\ ~failed /\ ~expired)
  /\ reported' = IF failed THEN reported \cup {Store} ELSE reported
  /\ stores' = (IF expired THEN <<>> ELSE Tail(stores))
  /\ names' = Unlisted /\ firstErr' = FALSE

ListNames ==
  /\ stores # <<>> /\ names = Unlisted /\ ~expired /\ names' = Namespaces[Store]
  /\ UNCHANGED <<groups, expired, listed, stores, firstErr, remaining, truncated, complete, read,
                 series, summary, reported, finished>>
ListNamesFails ==
  /\ stores # <<>> /\ names = Unlisted /\ NextStore(TRUE)
  /\ UNCHANGED <<groups, expired, listed, remaining, truncated, read, series, summary, finished>>

(* One namespace: its groups get series as long as the limit lasts, and    *)
(* all of them count in the summary.                                       *)
Reading == stores # <<>> /\ names # Unlisted /\ names # <<>>
ReadGroups ==
  /\ Reading /\ ~expired /\ names' = Tail(names)
  /\ LET p == <<Store, Head(names)>>
         shown == Lower(remaining, groups[p])
     IN /\ read' = read \cup {p} /\ series' = [series EXCEPT ![p] = shown]
        /\ remaining' = remaining - shown
        /\ truncated' = (truncated \/ shown < groups[p])
  /\ UNCHANGED <<groups, expired, listed, stores, firstErr, complete, summary, reported, finished>>

(* A read that fails, because the context ends during it too, does not     *)
(* keep the scan from the next namespace.                                  *)
ReadFails ==
  /\ Reading /\ names' = Tail(names) /\ firstErr' = TRUE
  /\ UNCHANGED <<groups, expired, listed, stores, remaining, truncated, complete, read, series,
                 summary, reported, finished>>

(* The end of a datastore: its summary if any of its namespaces was read.  *)
Summarised ==
  LET mine == {p \in read : p[1] = Store}
  IN summary' = IF mine = {} THEN summary
                ELSE [s \in DOMAIN summary \cup {Store} |->
                        IF s = Store THEN SumFunctionOnSet(groups, mine) ELSE summary[s]]
EndStore ==
  /\ stores # <<>> /\ names = <<>> /\ Summarised /\ NextStore(firstErr)
  /\ UNCHANGED <<groups, expired, listed, remaining, truncated, read, series, finished>>

(* Before each namespace the scan looks at its context. *)
Interrupted ==
  /\ Reading /\ expired /\ Summarised /\ NextStore(TRUE)
  /\ UNCHANGED <<groups, expired, listed, remaining, truncated, read, series, finished>>

Finish ==
  /\ listed /\ stores = <<>> /\ ~finished /\ finished' = TRUE
  /\ UNCHANGED <<groups, expired, listed, scan>>

Next ==
  \/ Expire \/ ListStores \/ ListStoresFails \/ ListNames \/ ListNamesFails
  \/ ReadGroups \/ ReadFails \/ EndStore \/ Interrupted \/ Finish
Spec == Init /\ [][Next]_vars
-----------------------------------------------------------------------------
(* What is left of a list. *)
RestOf(rest, list) ==
  /\ Len(rest) <= Len(list)
  /\ \A i \in DOMAIN rest : rest[i] = list[Len(list) - Len(rest) + i]

(* Only known values. *)
TypeOK ==
  /\ groups \in [All -> 0 .. MaxGroups]
  /\ expired \in BOOLEAN /\ listed \in BOOLEAN /\ finished \in BOOLEAN
  /\ stores \in Seq(STRING) /\ RestOf(stores, Stores)
  /\ names # Unlisted =>
       names \in Seq(STRING) /\ stores # <<>> /\ RestOf(names, Namespaces[Store])
  /\ firstErr \in BOOLEAN
  /\ remaining \in 0 .. Limit /\ truncated \in BOOLEAN /\ complete \in BOOLEAN
  /\ read \subseteq All /\ series \in [All -> 0 .. Limit]
  /\ DOMAIN summary \subseteq ToSet(Stores) /\ reported \subseteq ToSet(Stores)

(* A scan admits what it did not see: groups.complete means that every     *)
(* namespace has been read and no failure reported, every summary counts   *)
(* all groups of its datastore, the ones beyond the limit too, and unless  *)
(* groups.truncated says otherwise every group has its series.             *)
GroupsHonest ==
  finished =>
    /\ complete =>
         /\ read = All /\ reported = {} /\ DOMAIN summary = ToSet(Stores)
         /\ \A s \in ToSet(Stores) :
              summary[s] = SumFunctionOnSet(groups, Of(s))
    /\ complete /\ ~truncated => series = groups
    /\ truncated => SumFunctionOnSet(series, All) = Limit
-----------------------------------------------------------------------------
(* The inductive invariant of GroupsHonest, see ServersProofs.             *)

(* What is still to be read has not been read. *)
Unread ==
  /\ \A i \in DOMAIN stores : i > 1 \/ names = Unlisted => \A p \in read : p[1] # stores[i]
  /\ names # Unlisted => \A i \in DOMAIN names : <<Store, names[i]>> \notin read
  /\ ~listed => read = {} /\ stores = <<>> /\ reported = {} /\ names = Unlisted
  /\ finished => listed /\ stores = <<>>

(* The limit and the series add up. *)
Counted ==
  /\ SumFunctionOnSet(series, All) = Limit - remaining
  /\ \A p \in All \ read : series[p] = 0
  /\ truncated => remaining = 0
  /\ ~truncated => \A p \in read : series[p] = groups[p]

(* While the scan is complete, nothing is missing of the datastores behind *)
(* it, nor of the namespaces behind it in a datastore without an error.    *)
Behind == {Stores[i] : i \in 1 .. Len(Stores) - Len(stores)}
NothingMissing ==
  /\ listed /\ complete =>
       /\ reported = {}
       /\ \A s \in Behind : /\ Of(s) \subseteq read /\ s \in DOMAIN summary
                             /\ summary[s] = SumFunctionOnSet(groups, Of(s))
  /\ names # Unlisted /\ ~firstErr =>
       \A n \in ToSet(Namespaces[Store]) : <<Store, n>> \in read \/ n \in ToSet(names)

Inductive == TypeOK /\ Unread /\ Counted /\ NothingMissing
=============================================================================
