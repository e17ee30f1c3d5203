------------------------------- MODULE MCSMap -------------------------------
(***************************************************************************)
(* The staged declaration index on its own: any sequence of SMap.insert   *)
(* and SMap.switch, checked against the abstract map it implements.       *)
(***************************************************************************)
EXTENDS SMap, FiniteSets, TLC

CONSTANTS NKeys, Vals

Keys == 1 .. NKeys

\* Names hash into the 8 buckets of stage 1 with collisions: two groups
\* share a bucket.
MCSMapHash(k) == <<3, 11, 4, 12>>[k]

VARIABLES
  smap,    \* the SMap
  lastOp   \* history: the last call, read only by the refinement mapping

vars == <<smap, lastOp>>

Init == smap = SMapEmpty /\ lastOp = <<"other">>

\* SMap.insert, as Environment.add calls it.
InsertStep(k, v) ==
  smap' = SMapInsert(smap, k, v) /\ lastOp' = <<"put", k, v>>

\* SMap.switch, as Environment.switch and importModules call it; switching
\* again returns the map as it is.
SwitchStep == smap' = SMapSwitch(smap) /\ lastOp' = <<"other">>

Next == \/ \E k \in Keys, v \in Vals : InsertStep(k, v)
        \/ SwitchStep

Spec == Init /\ [][Next]_vars

-----------------------------------------------------------------------------

\* The abstract map the index stands for: every name find returns a value
\* for, with that value.
Stored == {k \in Keys : SMapFind(smap, k) # NoValue}

Abs == INSTANCE AbstractMap
         WITH dict <- [k \in Stored |-> SMapFind(smap, k)], lastOp <- lastOp

(* Refinement: every sequence of inserts and switches, observed through   *)
(* SMap.find, behaves as a plain finite map in which the last insert of a *)
(* name wins.  A name inserted in stage 1 and again after the switch is   *)
(* held by both stages; find must prefer the second.                      *)
AbsSpecHolds == Abs!AbsSpec

=============================================================================
