------------------------------- MODULE EidPool -------------------------------
(***************************************************************************)
(* The bus owner's EID pool of mctpd (src/mctpd/src/MCTPBinding.cpp): the *)
(* static unordered_map eidPoolMap from EID to its "assigned" flag, and   *)
(* the three functions that touch it.  The composing specification owns  *)
(* the variable; this module gives its operations.                        *)
(***************************************************************************)
EXTENDS Naturals, Sequences, SequencesExt

CONSTANTS
  PoolEids,   \* smbusConf->eidPool, the configured EIDs
  HashOrder   \* the iteration order of eidPoolMap: a permutation of PoolEids

ASSUME PoolEids \subseteq 1..255
ASSUME Range(HashOrder) = PoolEids /\ Len(HashOrder) = Cardinality(PoolEids)

VARIABLE eidPoolMap

(***************************************************************************)
(* The static map is empty at process start; initializeEidPool (253-259), *)
(* called by the constructor of a bus owner, adds every configured EID,    *)
(* unassigned.                                                             *)
(***************************************************************************)
NoPool == [e \in {} |-> FALSE]

InitializeEidPool == eidPoolMap' = [e \in PoolEids |-> FALSE]

(* Fault-injected variant: operator[] inserts an EID missing from the pool. *)
UpdateEidStatusInserts(eid, assigned) ==
  eidPoolMap' = [e \in DOMAIN eidPoolMap \cup {eid} |->
                   IF e = eid THEN assigned ELSE eidPoolMap[e]]

(***************************************************************************)
(* updateEidStatus (261-287): sets the flag of an EID of the pool; an EID *)
(* outside the pool is only logged.                                       *)
(***************************************************************************)
UpdateEidStatus(eid, assigned) ==
  IF eid \in DOMAIN eidPoolMap
  THEN eidPoolMap' = [eidPoolMap EXCEPT ![eid] = assigned]
  ELSE UNCHANGED eidPoolMap

(***************************************************************************)
(* getAvailableEidFromPool (289-308): the first unassigned EID in         *)
(* iteration order, which it marks assigned; with none free it throws.    *)
(***************************************************************************)
PoolExhausted == \A e \in DOMAIN eidPoolMap : eidPoolMap[e]

AvailableEid ==
  HashOrder[SelectInSeq(HashOrder, LAMBDA e : e \in DOMAIN eidPoolMap /\ ~eidPoolMap[e])]

(* Fault-injected variant: the EID found is not marked assigned. *)
GetAvailableEidFromPoolNoMark(eid) ==
  /\ ~PoolExhausted
  /\ eid = AvailableEid
  /\ UNCHANGED eidPoolMap

GetAvailableEidFromPool(eid) ==
  /\ ~PoolExhausted
  /\ eid = AvailableEid
  /\ eidPoolMap' = [eidPoolMap EXCEPT ![eid] = TRUE]

PoolTypeOK == eidPoolMap \in [PoolEids -> BOOLEAN] \cup {NoPool}
=============================================================================
