---------------------------- MODULE KeyValueMap ----------------------------
(***************************************************************************)
(* What the hash map of hashmap.{h,c} promises: a map from keys to data    *)
(* that changes only when the caller's put takes effect, at one instant    *)
(* between its call and its return, and when the caller removes a key.     *)
(* Nothing here knows of slots, chains or tables that double.              *)
(***************************************************************************)
CONSTANTS
    Keys,           \* what callers use as keys
    Data,           \* what callers store
    NoRequest       \* no put is under way

VARIABLES
    map,            \* a function from the keys present to their data
    request,        \* the element the put under way is to store
    moving          \* the put is making room for it

mapVars == <<map, request, moving>>

MapInit ==
    /\ map = [k \in {} |-> k]
    /\ request = NoRequest
    /\ moving = FALSE

MapPut(k, d) ==
    /\ request = NoRequest
    /\ request' = [key |-> k, data |-> d]
    /\ UNCHANGED <<map, moving>>

(* To make room changes nothing, however often it takes. *)
MapMakeRoom ==
    /\ request # NoRequest
    /\ moving' = ~moving
    /\ UNCHANGED <<map, request>>

MapPutDone ==
    /\ request # NoRequest /\ ~moving
    /\ map' = [k \in DOMAIN map \cup {request.key} |->
                  IF k = request.key THEN request.data ELSE map[k]]
    /\ request' = NoRequest
    /\ UNCHANGED moving

(* There is no memory for the element; the map is as before, unless the    *)
(* put was making room: then elements may be lost, but none is changed.    *)
MapPutFails ==
    /\ request # NoRequest
    /\ request' = NoRequest
    /\ \/ ~moving /\ UNCHANGED <<map, moving>>
       \/ /\ moving /\ moving' = FALSE
          /\ \E kept \in SUBSET DOMAIN map : map' = [k \in kept |-> map[k]]

MapRemove(k) ==
    /\ request = NoRequest
    /\ map' = [x \in DOMAIN map \ {k} |-> map[x]]
    /\ UNCHANGED <<request, moving>>

MapNext ==
    \/ MapMakeRoom \/ MapPutDone \/ MapPutFails
    \/ \E k \in Keys : MapRemove(k) \/ \E d \in Data : MapPut(k, d)

MapSpec == MapInit /\ [][MapNext]_mapVars
=============================================================================
