------------------------------ MODULE Whitelist ------------------------------
(***************************************************************************)
(* What publishing a service with an allow list promises, without any      *)
(* sessions, messages or locks: the lists in force are lists its owner     *)
(* chose, and one that is no longer in play (neither the owner's current   *)
(* choice nor on its way to the server) never comes into force again       *)
(* unless the owner chooses it again.                                      *)
(***************************************************************************)
CONSTANTS
  IDs,      \* the published services
  Lists,    \* the allow lists that can be enforced
  Bad,      \* a list that cannot
  Chosen    \* Chosen[id]: the owner's first choice

VARIABLES
  want,     \* want[id]: the owner's current choice
  inPlay,   \* inPlay[id]: lists that may still come into force
  inForce   \* inForce[id]: the lists being enforced, {} when unpublished

Init ==
  /\ want = Chosen
  /\ inPlay = [id \in IDs |-> {Chosen[id]}]
  /\ inForce = [id \in IDs |-> {}]

InPlays == [IDs -> SUBSET (Lists \cup {Bad})]

(* Lists come into force or go out of force, by publication, update or     *)
(* loss; lists in play may drop out.                                       *)
Enforce ==
  /\ inPlay' \in {p \in InPlays : \A id \in IDs : p[id] \subseteq inPlay[id]}
  /\ inForce' \in {f \in [IDs -> SUBSET Lists] :
                     \A id \in IDs : f[id] \subseteq inForce[id] \cup inPlay[id]}
  /\ UNCHANGED want

(* The owner chooses a list for one service; older ones may drop out. *)
Choose(id, list) ==
  /\ want' = [want EXCEPT ![id] = list]
  /\ inPlay' \in {p \in InPlays : \A i \in IDs :
                    p[i] \subseteq inPlay[i] \cup (IF i = id THEN {list} ELSE {})}
  /\ UNCHANGED inForce

Next == Enforce \/ \E id \in IDs, list \in Lists \cup {Bad} : Choose(id, list)

Spec == Init /\ [][Next]_<<want, inPlay, inForce>>
=============================================================================
