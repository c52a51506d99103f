------------------------- MODULE EnvironmentCatalog -------------------------
(***************************************************************************)
(* What the builds of a profile promise to those who run code in it        *)
(* (models/__init__.py, EnvironmentVersion and EnvironmentProfile): a      *)
(* version gets its image once and keeps it, and the profile points at     *)
(* versions that have an image.                                            *)
(***************************************************************************)
CONSTANTS Versions, Locks, NoLock
VARIABLES image,  \* image[v], NoLock while there is none
          current \* the version that is published, or 0

Init == image = [v \in Versions |-> NoLock] /\ current = 0

Built(v, content) == /\ image[v] = NoLock
                     /\ image' = [image EXCEPT ![v] = content]
                     /\ UNCHANGED current

Published(v) == /\ image[v] # NoLock
                /\ current' = v
                /\ UNCHANGED image

Next == \E v \in Versions : Published(v) \/ \E content \in Locks : Built(v, content)

Spec == Init /\ [][Next]_<<image, current>>
=============================================================================
