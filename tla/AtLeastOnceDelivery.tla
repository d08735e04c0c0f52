-------------------------- MODULE AtLeastOnceDelivery --------------------------
(***************************************************************************)
(* What the delivery path promises, without processes, queues or tables:   *)
(* a row is accepted into custody, lands in the cloud from custody only,   *)
(* and leaves custody only once it is in the cloud.  It may come back into *)
(* custody (a resend, a row observed again), and then it has landed        *)
(* already, so the second landing changes nothing.                         *)
(***************************************************************************)
CONSTANT Key

VARIABLES
  custody,       \* rows the collector still has to deliver
  cloud,         \* rows the cloud has
  accepted       \* every row ever taken into custody

Init == custody = {} /\ cloud = {} /\ accepted = {}

\* Rows are taken into custody, together, and no custody ends.
Accept(S) ==
  /\ custody' = custody \cup S
  /\ accepted' = accepted \cup S
  /\ UNCHANGED cloud

Land(S) ==
  /\ S \subseteq custody
  /\ cloud' = cloud \cup S
  /\ UNCHANGED <<custody, accepted>>

Release(S) ==
  /\ S \subseteq cloud
  /\ custody' = custody \ S
  /\ UNCHANGED <<cloud, accepted>>

\* Delivered rows are sent again; nothing new is accepted.
Resend(S) ==
  /\ S \subseteq cloud
  /\ custody' = custody \cup S
  /\ UNCHANGED <<cloud, accepted>>

Next == \E S \in SUBSET Key : Accept(S) \/ Land(S) \/ Release(S) \/ Resend(S)

Spec == Init /\ [][Next]_<<custody, cloud, accepted>>
===============================================================================
