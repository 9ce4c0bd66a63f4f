------------------------------ MODULE DurableMap ------------------------------
(***************************************************************************)
(* What the snapshot store promises: a map from submission ids to contents  *)
(* in which an id is written once.  A binding may be lost in a power cut    *)
(* until it is on stable storage; from then on it is permanent, and only    *)
(* then is it promised to the creator.                                      *)
(***************************************************************************)
CONSTANTS Id, None
VARIABLES value,   \* the content bound to each id, or None
          stable,  \* the bindings on stable storage
          promised \* the bindings a creator was told are frozen

mapVars == <<value, stable, promised>>

DInit ==
  /\ value = [i \in Id |-> None]
  /\ stable = value
  /\ promised = {}

\* The whole of WriteOnce: an id that has a content takes no other.
Freeze(i, d) ==
  /\ value[i] = None
  /\ value' = [value EXCEPT ![i] = d]
  /\ UNCHANGED <<stable, promised>>

Flush ==
  /\ stable' = value
  /\ UNCHANGED <<value, promised>>

Promise(i) ==
  /\ stable[i] # None
  /\ promised' = promised \cup {<<i, stable[i]>>}
  /\ UNCHANGED <<value, stable>>

PowerCut ==
  /\ \E lost \in SUBSET {i \in Id : stable[i] = None} :
       value' = [i \in Id |-> IF i \in lost THEN None ELSE value[i]]
  /\ stable' = value'
  /\ UNCHANGED promised

DNext ==
  \/ \E i \in Id : value[i] = None /\ value'[i] # None /\ Freeze(i, value'[i])
  \/ Flush
  \/ \E i \in Id : Promise(i)
  \/ PowerCut

DSpec == DInit /\ [][DNext]_mapVars
==============================================================================
