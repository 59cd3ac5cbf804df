---------------------------- MODULE MCOnboarding ----------------------------
(***************************************************************************)
(* Model-checking instance of Onboarding: two devices on one bus; the     *)
(* engine's timing as in MCCtrlTxQueue; enough requests for every device  *)
(* to run its four commands (MaxTx is never what stops a coroutine).      *)
(***************************************************************************)
EXTENDS Onboarding, TLC

CONSTANTS d1, d2

MCDevices == {d1, d2}
MCUIntModulus == 2^16
MCMaxTx == 4 * Cardinality(Clients)
\* Every device registers twice.
MCMaxTxTwice == 8 * Cardinality(Clients)
\* One registration more than the devices: a single rediscovery.
MCMaxTxOneMore == 4 * Cardinality(Clients) + 4
\* A single device on the bus.
MCOneDevice == {d1}

\* Both devices come up without an EID and end up competing for the pool.
MCNoStaticEid == [d \in Clients |-> 0]
\* One device keeps a static EID outside the pool.
MCOneStaticEid == (d1 :> 0) @@ (d2 :> 20)
\* unordered_map iteration order of the pool (implementation-defined).
MCHashOrder1 == <<10>>
MCHashOrder2 == <<11, 10>>
\* Both devices report a simple-endpoint type.
MCSimpleEndpoints == [d \in Clients |-> 0]
\* The second device reports the reserved endpoint type 2.
MCReservedType == (d1 :> 0) @@ (d2 :> 2)
\* Both devices take the EID they are assigned.
MCAllAccept == [d \in Clients |-> TRUE]
\* The second device rejects Set EID and keeps the null EID.
MCD2Rejects == (d1 :> TRUE) @@ (d2 :> FALSE)
\* The binding is configured as an SMBus bus owner.
MCSMBusBusOwner == {[medium |-> "SMBus", mode |-> "BusOwner"]}
\* The binding is a bus owner on SMBus or on PCIe.
MCBusOwners == {[medium |-> m, mode |-> "BusOwner"] : m \in {"SMBus", "PCIe"}}
\* State identity without the engine's ghost txLog, which no guard reads and
\* no property of these runs reads.
MCView == <<ctrlTxQueue, ctrlTxTimerExpired, ctrlTxTimer, instanceId, net,
            pktState, resp, curTx, txCount, eidPoolMap, binding, flowVars, daemon, envVars>>
=============================================================================
