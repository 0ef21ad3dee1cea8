---------------------------- MODULE LinkClosure ----------------------------
(***************************************************************************)
(* What the merge phase promises, without saying how: the user's units are *)
(* loaded, then library members are linked one at a time, each because it  *)
(* defines a wanted name and never over an existing definition; the phase  *)
(* ends, unless it fails, when no member left in the libraries defines a   *)
(* name that is still wanted.  ArchivePull implements this specification   *)
(* with a worklist, a scan position and a progress flag.                   *)
(***************************************************************************)
CONSTANTS Name, Exit

VARIABLES
  defined,  \* names defined by the linked units
  wanted,   \* names they import and none of them defines
  left,     \* members not linked: key |-> names it defines
  state     \* "loading", "pulling", "linked" or "failed"

vars == <<defined, wanted, left, state>>

Init ==
  /\ defined = {} /\ wanted = {}
  /\ DOMAIN left = {}
  /\ state = "loading"

(* Linking a unit that defines D: D is new, and what was wanted before is  *)
(* still wanted unless D provides it.                                      *)
Link(D) ==
  /\ D \cap defined = {}
  /\ defined' = defined \cup D
  /\ wanted' \subseteq Name \ defined'
  /\ wanted \ D \subseteq wanted'

LoadUnit ==
  /\ state = "loading"
  /\ \E D \in SUBSET Name : Link(D)
  /\ UNCHANGED <<left, state>>

LoadLibrary ==
  /\ state = "loading"
  /\ DOMAIN left \subseteq DOMAIN left'
  /\ \A k \in DOMAIN left : left'[k] = left[k]
  /\ UNCHANGED <<defined, wanted, state>>

StartPulling ==
  /\ state = "loading" /\ state' = "pulling"
  /\ UNCHANGED <<defined, wanted, left>>

PullOne ==
  /\ state = "pulling"
  /\ \E k \in DOMAIN left :
       /\ left[k] \cap (wanted \cup {Exit}) # {}
       /\ Link(left[k])
       /\ left' = [j \in DOMAIN left \ {k} |-> left[j]]
  /\ UNCHANGED state

Finish ==
  /\ \/ state = "pulling"
     \/ state = "loading" /\ DOMAIN left = {}
  /\ \A k \in DOMAIN left : left[k] \cap wanted = {}
  /\ state' = "linked"
  /\ UNCHANGED <<defined, wanted, left>>

Fail ==
  /\ state \in {"loading", "pulling"} /\ state' = "failed"
  /\ UNCHANGED <<defined, wanted, left>>

Next == LoadUnit \/ LoadLibrary \/ StartPulling \/ PullOne \/ Finish \/ Fail

Spec == Init /\ [][Next]_vars
=============================================================================
