-------------------------- MODULE ReleaseCatalogue --------------------------
(***************************************************************************)
(* What publication promises to the operator who selects a release and to  *)
(* the deployment that fetches it: a catalogue in which a release id       *)
(* appears at most once, with all of its images, and whose manifests are   *)
(* not edited afterwards (docs/aws-image-releases.md) -- except that for   *)
(* an image the registry has let go of there may be another build of the   *)
(* same inputs, and a manifest may go from one of the two to the other.    *)
(***************************************************************************)
CONSTANTS
  Ids,        \* release ids
  Services,   \* the images of a release
  Images      \* the images of a service; all services count them alike

VARIABLES
  catalogue,  \* the published manifests, records of an id and its images
  gone        \* pairs of a service and an image the registry has let go of

Init == catalogue = {} /\ gone = {}

\* A manifest of a new id joins the others.
Publish(m) ==
  /\ m.id \in Ids \ {n.id : n \in catalogue}
  /\ m.images \in [Services -> Images]
  /\ catalogue' = catalogue \cup {m}
  /\ UNCHANGED gone

\* Manifest m becomes n, of the same id, in which only images differ one of whose two
\* builds is gone.
Revise(m, n) ==
  /\ n.id = m.id /\ n.images \in [Services -> Images]
  /\ \A s \in Services :
       n.images[s] # m.images[s] => {<<s, m.images[s]>>, <<s, n.images[s]>>} \cap gone # {}
  /\ catalogue' = (catalogue \ {m}) \cup {n}
  /\ UNCHANGED gone

Expire ==
  /\ gone \subseteq gone'
  /\ UNCHANGED catalogue

Next ==
  \/ \E n \in catalogue' : Publish(n)
  \/ \E m \in catalogue, n \in catalogue' : Revise(m, n)
  \/ Expire

Spec == Init /\ [][Next]_<<catalogue, gone>>
=============================================================================
