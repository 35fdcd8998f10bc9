------------------------------ MODULE Registry ------------------------------
(***************************************************************************)
(* The update checks of one image (internal/modules/docker/docker.go):     *)
(* each of its references asks its registry for the digest of the tag,     *)
(* with a token if the registry wants one, and compares it with the digest *)
(* the daemon pulled.  A tag can be pushed, a request can fail and the     *)
(* context can end at any time.                                            *)
(***************************************************************************)
EXTENDS Integers, Sequences, SequencesExt

CONSTANTS
  Refs,      \* references: [registry, path, form]; form is "bare" (nginx:1),
             \* "path" (team/app:1) or "explicit" (ghcr.io/team/app:1)
  Hub,       \* the registry of a reference that names none
  Digests,   \* the digests of manifests
  MaxLocal   \* how many repository digests an image has at most

VARIABLES
  local,     \* external: the daemon's RepoDigests, [registry, path, digest]
  remote,    \* external: the digest of each reference's tag at its registry
  alive,     \* whether the collection's context is still alive
  left,      \* the references still to be checked
  step,      \* "next", or the request under way: "manifest", "token", "retry"
  answered,  \* history: the references a manifest came for, and its digest
  claims     \* the states reported: <<reference, state, value>>

world == <<local, remote>>
vars == <<world, alive, left, step, answered, claims>>
-----------------------------------------------------------------------------
Unknown == 0

(* sameRepository: a digest that names no registry belongs to the          *)
(* reference with its path, whatever registry that has.                    *)
SameRepository(r, l) == l.path = r.path /\ l.registry \in {r.registry, Hub}
Matching(r) == {i \in DOMAIN local : SameRepository(r, local[i])}
MatchingLocalDigest(r) ==
  IF Matching(r) = {} THEN Unknown
  ELSE local[CHOOSE i \in Matching(r) : \A j \in Matching(r) : i <= j].digest
Checkable(r) ==
  /\ ~(r.registry = Hub /\ r.form = "bare")
  /\ r.form = "explicit" \/ MatchingLocalDigest(r) # Unknown

Init ==
  /\ local \in SeqOf([registry : {r.registry : r \in Refs}, path : {r.path : r \in Refs},
                      digest : Digests], MaxLocal)
  /\ remote \in [Refs -> Digests] /\ alive = TRUE
  /\ left = SetToSeq(Refs) /\ step = "next" /\ answered = {} /\ claims = {}

Push ==
  /\ \E r \in Refs, d \in Digests : remote' = [remote EXCEPT ![r] = d]
  /\ UNCHANGED <<local, alive, left, step, answered, claims>>
Expire == alive /\ alive' = FALSE /\ UNCHANGED <<world, left, step, answered, claims>>

Skip ==
  /\ left # <<>> /\ step = "next" /\ ~Checkable(Head(left))
  /\ claims' = claims \cup {<<Head(left), "checkable", FALSE>>} /\ left' = Tail(left)
  /\ UNCHANGED <<world, alive, step, answered>>
Ask ==
  /\ left # <<>> /\ step = "next" /\ Checkable(Head(left)) /\ step' = "manifest"
  /\ claims' = claims \cup {<<Head(left), "checkable", TRUE>>}
  /\ UNCHANGED <<world, alive, left, answered>>

(* A registry that wants a token is asked once more with one. *)
Unauthorized ==
  /\ step = "manifest" /\ alive /\ step' = "token"
  /\ UNCHANGED <<world, alive, left, answered, claims>>
BearerToken ==
  /\ step = "token" /\ alive /\ step' = "retry"
  /\ UNCHANGED <<world, alive, left, answered, claims>>

Compared(r, digest) ==
  LET own == MatchingLocalDigest(r)
  IN {<<r, "checked", TRUE>>, <<r, "local", own # Unknown>>} \cup
     (IF own # Unknown THEN {<<r, "update", own # digest>>} ELSE {})
Manifest ==
  /\ step \in {"manifest", "retry"} /\ alive
  /\ LET r == Head(left)
     IN answered' = answered \cup {<<r, remote[r]>>} /\ claims' = claims \cup Compared(r, remote[r])
  /\ step' = "next" /\ left' = Tail(left)
  /\ UNCHANGED <<world, alive>>
Fails ==
  /\ step # "next" /\ claims' = claims \cup {<<Head(left), "checked", FALSE>>}
  /\ step' = "next" /\ left' = Tail(left)
  /\ UNCHANGED <<world, alive, answered>>

Next == Push \/ Expire \/ Skip \/ Ask \/ Unauthorized \/ BearerToken \/ Manifest \/ Fails
Spec == Init /\ [][Next]_vars
-----------------------------------------------------------------------------
(* Only known values; a request under way is for a reference. *)
TypeOK ==
  /\ remote \in [Refs -> Digests] /\ alive \in BOOLEAN /\ left \in Seq(Refs)
  /\ step \in {"next", "manifest", "token", "retry"} /\ (step # "next" => left # <<>>)
  /\ answered \subseteq Refs \X Digests
  /\ claims \subseteq Refs \X {"checkable", "checked", "local", "update"} \X BOOLEAN

(* The digests of the very repository a reference names. *)
Own(r) == {l.digest : l \in {k \in ToSet(local) : k.registry = r.registry /\ k.path = r.path}}
(* An image that was pulled from Docker Hub, too, under the same path. *)
Twin(r) == r.registry # Hub /\ \E l \in ToSet(local) : l.registry = Hub /\ l.path = r.path

(* An update is claimed, or denied, only after the registry has named the  *)
(* digest of the tag, and compares it with what was pulled from there;     *)
(* nothing is said of a reference whose last request failed.  A bare name  *)
(* may be of a local image, and no registry is asked about it.  What a     *)
(* Docker Hub digest of the same path is taken for, see Twin, is excepted, *)
(* and so are several digests of one repository.                           *)
UpdatesHonest ==
  \A r \in Refs :
    /\ \A value \in BOOLEAN : <<r, "update", value>> \in claims /\ ~Twin(r) =>
         /\ Own(r) # {} /\ \E d \in Digests : <<r, d>> \in answered
         /\ \A own, d \in Digests : Own(r) = {own} /\ <<r, d>> \in answered => value = (own # d)
    /\ <<r, "checked", TRUE>> \in claims <=> \E d \in Digests : <<r, d>> \in answered
    /\ <<r, "checked", FALSE>> \in claims =>
         \A value \in BOOLEAN : <<r, "update", value>> \notin claims
    /\ r.registry = Hub /\ r.form = "bare" => <<r, "checkable", TRUE>> \notin claims
-----------------------------------------------------------------------------
(* The inductive invariant of UpdatesHonest, see ServersProofs.            *)

(* No reference is left twice, and nothing is said of one that is left but *)
(* that the one under way can be checked.                                  *)
Unasked ==
  /\ \A i, j \in DOMAIN left : left[i] = left[j] => i = j
  /\ \A i \in DOMAIN left :
       /\ \A d \in Digests : <<left[i], d>> \notin answered
       /\ \A c \in claims : c[1] = left[i] => step # "next" /\ i = 1 /\ c[2] = "checkable"
  /\ step # "next" => Checkable(Head(left))

(* What is said of a reference follows from the one answer for it.         *)
Said(r) ==
  /\ \A d, e \in Digests : <<r, d>> \in answered /\ <<r, e>> \in answered => d = e
  /\ <<r, "checked", TRUE>> \in claims <=> \E d \in Digests : <<r, d>> \in answered
  /\ <<r, "checked", FALSE>> \in claims => \A value \in BOOLEAN : <<r, "update", value>> \notin claims
  /\ \A value \in BOOLEAN : <<r, "update", value>> \in claims =>
       /\ MatchingLocalDigest(r) # Unknown
       /\ \E d \in Digests : <<r, d>> \in answered /\ value = (MatchingLocalDigest(r) # d)
  /\ <<r, "checkable", TRUE>> \in claims => Checkable(r)

Inductive ==
  /\ TypeOK /\ Unasked /\ \A r \in Refs : Said(r)
  /\ local \in Seq([registry : {r.registry : r \in Refs}, path : {r.path : r \in Refs},
                    digest : Digests])
=============================================================================
