----------------------------- MODULE Onboarding -----------------------------
(***************************************************************************)
(* Endpoint registration by the bus owner, busOwnerRegisterEndpoint        *)
(* (src/mctpd/src/MCTPBinding.cpp 968-1080): one coroutine per discovered  *)
(* device runs Get EID, Get UUID, Set EID (only when the device has no     *)
(* EID) and Get Message Type Support through the control-transaction       *)
(* engine of CtrlTxQueue, takes EIDs from the pool of EidPool and publishes *)
(* an endpoint object on D-Bus.  The binding is first constructed (lines   *)
(* 113-252), which decides whether there is a pool.  The coroutines of   *)
(* different devices interleave at every call of sendAndRcvMctpCtrl; they *)
(* share the queue, the instance counter and the pool.                     *)
(*                                                                         *)
(* The devices are the environment: a device answers Get EID with the EID  *)
(* it holds, adopts the EID of a Set EID it receives (even when its answer *)
(* is lost afterwards) unless it rejects the assignment, answers Set EID  *)
(* with the EID it then holds (eid_set), and may answer any command with  *)
(* an error completion code or a malformed frame.                          *)
(***************************************************************************)
EXTENDS CtrlTxQueue, EidPool

CONSTANTS
  StaticEid,   \* per device: the EID it holds before registration (0: none)
  EndpointType, \* per device: bits 5:4 of eid_type in its Get EID answer
  DeviceErrors, \* whether devices may answer with an error or a bad length
  SetEidAccepted, \* per device: whether it takes the EID of a Set EID
  Rediscovery,   \* whether a device already registered is registered again
  DeviceResets,  \* whether a registered device may reset to its power-on EID
  Configs,       \* the configurations the binding may be constructed with
  StartupErrors  \* whether the machine ID, D-Bus or libmctp may fail at startup

ASSUME StaticEid \in [Clients -> 0..255]
ASSUME EndpointType \in [Clients -> 0..3]
ASSUME DeviceErrors \in BOOLEAN
ASSUME SetEidAccepted \in [Clients -> BOOLEAN]
ASSUME Rediscovery \in BOOLEAN /\ DeviceResets \in BOOLEAN
ASSUME Configs \subseteq [medium : {"SMBus", "PCIe"}, mode : {"BusOwner", "Endpoint"}]
ASSUME StartupErrors \in BOOLEAN

VARIABLES
  binding,     \* "none", "constructed", "ready" (libmctp up), or "threw"
  pc,          \* per device: where its coroutine is suspended
  destEid,     \* per device: destEid of the coroutine
  getEidEid,   \* per device: getEidRespPtr->eid
  eid,         \* per device: the EID taken from the pool for Set EID
  uuidResp,    \* per device: what getUuidResp holds: "empty", "short", "valid"
  published,   \* the endpoint objects on D-Bus, one per EID in the path
  daemon,      \* "running", or how the process died
  devEid,      \* per device: the EID the device itself holds
  reqOf        \* per tx: the command, device and EID parameter of its bytes

flowVars == <<pc, destEid, getEidEid, eid, uuidResp, published>>
envVars == <<devEid, reqOf>>
allVars == <<vars, eidPoolMap, binding, flowVars, daemon, envVars>>

Devices == Clients
Cmds == {"GetEid", "GetUuid", "SetEid", "GetMsgTypes"}
Pcs == {"unregistered", "GetEid", "GetUuid", "SetEid", "GetMsgTypes",
        "published", "returned"}
Running == daemon = "running"

(***************************************************************************)
(* A device that receives a Set EID request takes its EID before it        *)
(* answers, or keeps its own when it rejects the assignment: an answer     *)
(* frame put into the medium by this step means the device processed the  *)
(* request.                                                                *)
(***************************************************************************)
DevicesProcess ==
  LET setBy(d) == {m.tx : m \in {m \in net' \ net :
                     reqOf'[m.tx].cmd = "SetEid" /\ reqOf'[m.tx].dev = d}}
  IN devEid' = [d \in Devices |->
                  IF setBy(d) # {} /\ SetEidAccepted[d]
                  THEN reqOf'[CHOOSE t \in setBy(d) : TRUE].eid
                  ELSE devEid[d]]

(***************************************************************************)
(* getFormattedReq for a command followed by sendAndRcvMctpCtrl: the      *)
(* coroutine of d queues the request and suspends in `at`.                *)
(***************************************************************************)
Send(d, cmd, param, at) ==
  /\ SendAndRcvMctpCtrl(d)
  /\ reqOf' = [reqOf EXCEPT ![txCount + 1] = [cmd |-> cmd, dev |-> d, eid |-> param]]
  /\ pc' = [pc EXCEPT ![d] = at]
  /\ DevicesProcess

(***************************************************************************)
(* The outcome of the command d waited for, as its *CtrlCmd wrapper       *)
(* reports it: a response must have been received and must pass           *)
(* checkRespSizeAndCompletionCode (556-582) or, for Get Message Type      *)
(* Support, the count check (705-738); a device may fail either check.    *)
(***************************************************************************)
Outcomes(d) ==
  IF pktState[d] = "receivedResponse"
  THEN IF DeviceErrors THEN BOOLEAN ELSE {TRUE}
  ELSE {FALSE}

Return(d) ==
  /\ pc' = [pc EXCEPT ![d] = "returned"]
  /\ pktState' = [pktState EXCEPT ![d] = "idle"]

QueueUnchanged == UNCHANGED <<queueVars, resp, curTx>>

(***************************************************************************)
(* Bound on requests: a registration is started only when MaxTx leaves     *)
(* room for its four commands and for every command the other devices'    *)
(* registrations may still send, so that no coroutine is ever held up by  *)
(* the bound rather than by the code.                                     *)
(***************************************************************************)
StillToSend ==
  ("unregistered" :> 4) @@ ("GetEid" :> 3) @@ ("GetUuid" :> 2) @@
  ("SetEid" :> 1) @@ ("GetMsgTypes" :> 0) @@ ("published" :> 0) @@ ("returned" :> 0)

Reserved(d) == MapThenSumSet(LAMBDA e : StillToSend[pc[e]], Devices \ {d})

(***************************************************************************)
(* registerEndpoint(bindingPrivate, true) (1072-1080): spawn, Get EID to   *)
(* 0x00.  Nothing keeps the binding from calling it again for a device    *)
(* whose earlier registration has ended; the coroutine's locals are new,  *)
(* and each is written before it is read.                                  *)
(***************************************************************************)
RegisterEndpoint(d) ==
  /\ Running
  /\ binding = "ready"
  /\ txCount + Cardinality(Cmds) + Reserved(d) <= MaxTx  \* bound: MaxTx
  /\ \/ pc[d] = "unregistered"
     \/ Rediscovery /\ pc[d] \in {"published", "returned"}
  /\ Send(d, "GetEid", 0, "GetEid")
  /\ UNCHANGED <<binding, eidPoolMap, destEid, getEidEid, eid, uuidResp, published, daemon>>

(***************************************************************************)
(* Resumed after Get EID (973-997): on failure return; otherwise adopt the *)
(* reported EID, mark it assigned when it is not 0, and send Get UUID.    *)
(***************************************************************************)
AfterGetEid(d) ==
  /\ Running
  /\ pc[d] = "GetEid" /\ pktState[d] \in Resolved
  /\ \E ok \in Outcomes(d) :
       IF ~ok
       THEN /\ Return(d)
            /\ UNCHANGED <<queueVars, resp, curTx, eidPoolMap, destEid,
                           getEidEid, eid, uuidResp, published, daemon, envVars>>
       ELSE LET e == devEid[d] IN
            /\ getEidEid' = [getEidEid EXCEPT ![d] = e]
            /\ destEid' = [destEid EXCEPT ![d] = e]
            /\ IF e # 0 THEN UpdateEidStatus(e, TRUE) ELSE UNCHANGED eidPoolMap
            /\ Send(d, "GetUuid", 0, "GetUuid")
            /\ UNCHANGED <<eid, uuidResp, published, daemon>>
  /\ UNCHANGED binding

(***************************************************************************)
(* Resumed after Get UUID (991-1036): a failure is only logged and the     *)
(* buffer kept as it is (empty after a timeout).  A device that reported  *)
(* EID 0 gets one from the pool (return when the pool is exhausted) and a *)
(* Set EID; otherwise Get Message Type Support follows.                   *)
(***************************************************************************)
AfterGetUuid(d) ==
  /\ Running
  /\ pc[d] = "GetUuid" /\ pktState[d] \in Resolved
  /\ \E ok \in Outcomes(d) :
       uuidResp' = [uuidResp EXCEPT ![d] =
                      IF pktState[d] = "noResponse" THEN "empty"
                      ELSE IF ok THEN "valid" ELSE "short"]
  /\ IF getEidEid[d] = 0
     THEN IF PoolExhausted
          THEN /\ Return(d)
               /\ UNCHANGED <<queueVars, resp, curTx, eidPoolMap, eid, envVars>>
          ELSE \E e \in PoolEids :
                 /\ GetAvailableEidFromPool(e)
                 /\ eid' = [eid EXCEPT ![d] = e]
                 /\ Send(d, "SetEid", e, "SetEid")
     ELSE /\ Send(d, "GetMsgTypes", 0, "GetMsgTypes")
          /\ UNCHANGED <<eidPoolMap, eid>>
  /\ UNCHANGED <<binding, destEid, getEidEid, published, daemon>>

(***************************************************************************)
(* Resumed after Set EID (1018-1036): on failure release the EID taken    *)
(* and return; otherwise adopt eid_set of the answer, which is the EID the *)
(* device now holds, mark it assigned and send Get Message Type Support.  *)
(***************************************************************************)
(* Fault-injected variant: the failure path keeps the EID assigned. *)
SetEidFailedKeeps(d) ==
  /\ UNCHANGED eidPoolMap
  /\ Return(d)
  /\ UNCHANGED <<queueVars, resp, curTx, destEid, envVars>>

(* Set EID failed (1019-1026): give the EID back and return. *)
SetEidFailed(d) ==
  /\ UpdateEidStatus(eid[d], FALSE)
  /\ Return(d)
  /\ UNCHANGED <<queueVars, resp, curTx, destEid, envVars>>

AfterSetEid(d) ==
  /\ Running
  /\ pc[d] = "SetEid" /\ pktState[d] \in Resolved
  /\ \E ok \in Outcomes(d) :
       IF ~ok
       THEN SetEidFailed(d)
       ELSE /\ destEid' = [destEid EXCEPT ![d] = devEid[d]]
            /\ UpdateEidStatus(devEid[d], TRUE)
            /\ Send(d, "GetMsgTypes", 0, "GetMsgTypes")
  /\ UNCHANGED <<binding, getEidEid, eid, uuidResp, published, daemon>>

(***************************************************************************)
(* Resumed after Get Message Type Support (1038-1068): on failure return. *)
(* Otherwise formatUUID reads 16 bytes through a pointer into getUuidResp: *)
(* an empty vector has no storage, and the read faults; a short one is    *)
(* read past its end.  getEndpointType then decodes bits 5:4 of eid_type; *)
(* for 2 or 3 it executes `throw;` with no exception active, which calls  *)
(* std::terminate.  Otherwise the record is published.                    *)
(***************************************************************************)
(* The coroutine of d ends after publishing. *)
Published(d) ==
  /\ pc' = [pc EXCEPT ![d] = "published"]
  /\ pktState' = [pktState EXCEPT ![d] = "idle"]
  /\ UNCHANGED daemon

UuidOf(d) == IF uuidResp[d] = "valid" THEN "device" ELSE "garbage"

ModeOf(d) == IF EndpointType[d] = 0 THEN "Endpoint" ELSE "Bridge"

(***************************************************************************)
(* populateEndpointProperties (841-874) of the record ep: the Endpoint,    *)
(* message type (registerMsgTypes, 826-839) and UUID interfaces are added *)
(* at /xyz/openbmc_project/mctp/device/<eid> and initialized; the binding *)
(* keeps them and nothing removes them.  On a path that already has these *)
(* interfaces sd_bus_add_object_vtable fails with -EEXIST, which sdbusplus *)
(* ignores (the old object stays and the call returns) or throws as      *)
(* SdBusError out of the coroutine and io_context::run, depending on its  *)
(* version; both are possible.                                            *)
(***************************************************************************)
Exported == {p.eid : p \in published}

PopulateEndpointProperties(d, ep) ==
  \/ /\ ep.eid \notin Exported
     /\ published' = published \cup {ep}
     /\ Published(d)
  \/ /\ ep.eid \in Exported
     /\ UNCHANGED published
     /\ Published(d)
  \/ /\ ep.eid \in Exported
     /\ daemon' = "dbusError"
     /\ UNCHANGED <<pc, pktState, published>>

AfterGetMsgTypes(d) ==
  /\ Running
  /\ pc[d] = "GetMsgTypes" /\ pktState[d] \in Resolved
  /\ \E ok \in Outcomes(d) :
       CASE ~ok ->
              /\ Return(d)
              /\ UNCHANGED <<published, daemon>>
         [] uuidResp[d] = "empty" ->
              /\ daemon' = "segfault"
              /\ UNCHANGED <<pc, pktState, published>>
         [] EndpointType[d] \notin {0, 1} ->
              /\ daemon' = "terminate"
              /\ UNCHANGED <<pc, pktState, published>>
         [] OTHER ->
              PopulateEndpointProperties(d,
                [dev |-> d, eid |-> destEid[d], uuid |-> UuidOf(d), mode |-> ModeOf(d)])
  /\ UNCHANGED <<queueVars, resp, curTx, eidPoolMap, binding, destEid, getEidEid,
                 eid, uuidResp, envVars>>

(***************************************************************************)
(* The MctpBinding constructor (113-211): the configuration's variant     *)
(* gives the retry parameters (the constants of CtrlTxQueue) and, for an   *)
(* SMBus bus owner only, the EID pool; then createUuid and the D-Bus       *)
(* properties, method and signal of the binding's interface.  A throw of  *)
(* createUuid, or initialize() returning false, is rethrown: the binding   *)
(* is never constructed.                                                   *)
(***************************************************************************)
StartupOutcomes == IF StartupErrors THEN {TRUE, FALSE} ELSE {TRUE}

(***************************************************************************)
(* createUuid (222-237): sd_id128_get_machine_app_specific fails without a *)
(* machine ID; the 16 bytes then go into the empty uuid, so the size test *)
(* holds.                                                                  *)
(***************************************************************************)
CreateUuid == StartupOutcomes

Construct ==
  /\ binding = "none"
  /\ \E conf \in Configs, uuidOk \in CreateUuid, initialized \in StartupOutcomes :
       /\ IF conf.medium = "SMBus" /\ conf.mode = "BusOwner"
          THEN InitializeEidPool
          ELSE UNCHANGED eidPoolMap
       /\ binding' = IF uuidOk /\ initialized THEN "constructed" ELSE "threw"
  /\ UNCHANGED <<vars, flowVars, daemon, envVars>>

(***************************************************************************)
(* initializeMctp (239-252): mctp_init may fail to allocate, which throws; *)
(* otherwise rxMessage becomes the receive callback of every message.      *)
(***************************************************************************)
InitializeMctp ==
  /\ binding = "constructed"
  /\ \E ok \in StartupOutcomes : binding' = IF ok THEN "ready" ELSE "threw"
  /\ UNCHANGED <<vars, eidPoolMap, flowVars, daemon, envVars>>

(* The engine's own steps, with the devices' reaction to what they receive. *)
Tick ==
  /\ Running
  /\ ProcessCtrlTxQueue
  /\ UNCHANGED <<eidPoolMap, binding, flowVars, daemon, reqOf>>
  /\ DevicesProcess

(* A registered device resets and comes back with its power-on EID. *)
DeviceReset(d) ==
  /\ DeviceResets
  /\ pc[d] \in {"published", "returned"} /\ devEid[d] # StaticEid[d]
  /\ devEid' = [devEid EXCEPT ![d] = StaticEid[d]]
  /\ UNCHANGED <<vars, eidPoolMap, binding, flowVars, daemon, reqOf>>

Rx ==
  /\ Running
  /\ RxMessage
  /\ UNCHANGED <<eidPoolMap, binding, flowVars, daemon, envVars>>

Lose ==
  /\ Running
  /\ LoseFrame
  /\ UNCHANGED <<eidPoolMap, binding, flowVars, daemon, envVars>>

OnboardingInit ==
  /\ Init
  /\ eidPoolMap = NoPool
  /\ binding = "none"
  /\ pc = [d \in Devices |-> "unregistered"]
  /\ destEid = [d \in Devices |-> 0]
  /\ getEidEid = [d \in Devices |-> 0]
  /\ eid = [d \in Devices |-> 0]
  /\ uuidResp = [d \in Devices |-> "empty"]
  /\ published = {}
  /\ daemon = "running"
  /\ devEid = StaticEid
  /\ reqOf = [t \in Tx |-> [cmd |-> "GetEid", dev |-> CHOOSE d \in Devices : TRUE, eid |-> 0]]

OnboardingNext ==
  \/ Construct
  \/ InitializeMctp
  \/ \E d \in Devices :
       \/ RegisterEndpoint(d)
       \/ AfterGetEid(d)
       \/ AfterGetUuid(d)
       \/ AfterSetEid(d)
       \/ AfterGetMsgTypes(d)
       \/ DeviceReset(d)
  \/ Tick
  \/ Rx
  \/ Lose

(***************************************************************************)
(* The reactor runs due timer handlers and resumes every coroutine whose  *)
(* wait-timer was cancelled by the callback; devices, the medium and the  *)
(* discovery of devices get no fairness.                                  *)
(***************************************************************************)
OnboardingSpec ==
  /\ OnboardingInit /\ [][OnboardingNext]_allVars
  /\ WF_allVars(Tick)
  /\ \A d \in Devices : WF_allVars(AfterGetEid(d) \/ AfterGetUuid(d) \/ AfterSetEid(d)
                                   \/ AfterGetMsgTypes(d))

-----------------------------------------------------------------------------
OnboardingTypeOK ==
  /\ TypeOK
  /\ PoolTypeOK
  /\ binding \in {"none", "constructed", "ready", "threw"}
  /\ pc \in [Devices -> Pcs]
  /\ destEid \in [Devices -> 0..255]
  /\ getEidEid \in [Devices -> 0..255]
  /\ eid \in [Devices -> 0..255]
  /\ uuidResp \in [Devices -> {"empty", "short", "valid"}]
  /\ published \subseteq [dev : Devices, eid : 0..255, uuid : {"device", "garbage"},
                          mode : {"Endpoint", "Bridge"}]
  /\ daemon \in {"running", "segfault", "terminate", "dbusError"}
  /\ devEid \in [Devices -> 0..255]
  /\ reqOf \in [Tx -> [cmd : Cmds, dev : Devices, eid : 0..255]]

(***************************************************************************)
(* Every registration that reached populateEndpointProperties is on D-Bus: *)
(* the object at the EID the coroutine assigned is its own device's, and  *)
(* that EID, when it is a pool EID, is still marked assigned.  Two        *)
(* interleaved registrations that end with the same EID (the pool handing *)
(* out an EID in use, or a release path freeing one a device still holds) *)
(* make the second publication land on the first device's object, which  *)
(* sd-bus refuses.                                                         *)
(***************************************************************************)
RegisteredEndpointsPublished ==
  \A d \in Devices :
    pc[d] = "published" =>
      \E p \in published :
        /\ p.dev = d /\ p.eid = destEid[d]
        /\ p.eid \in DOMAIN eidPoolMap => eidPoolMap[p.eid]

(***************************************************************************)
(* No pool EID leaks: an EID marked assigned is held by a device or is the *)
(* EID of a Set EID still in progress; every path that takes an EID from  *)
(* the pool and then gives up must give it back.                           *)
(***************************************************************************)
NoLeakedEid ==
  \A e \in DOMAIN eidPoolMap :
    eidPoolMap[e] => \E d \in Devices : devEid[d] = e \/ (pc[d] = "SetEid" /\ eid[d] = e)

(***************************************************************************)
(* No two devices on the bus hold the same EID: the pool must not give a  *)
(* device an EID that another device has adopted.                         *)
(***************************************************************************)
NoDuplicateEidOnBus ==
  \A d1, d2 \in Devices : d1 # d2 /\ devEid[d1] # 0 => devEid[d1] # devEid[d2]

(***************************************************************************)
(* The daemon survives every registration (spec section 7: no error is    *)
(* fatal; section 8: a device whose optional Get UUID fails is still      *)
(* published): neither the UUID of a missing answer nor an endpoint type  *)
(* the daemon does not know may bring it down.                             *)
(***************************************************************************)
DaemonSurvives == daemon = "running"

(***************************************************************************)
(* Every registration that has started ends, by publishing its endpoint   *)
(* or by returning, unless the daemon died first.                          *)
(***************************************************************************)
RegistrationCompletes ==
  \A d \in Devices :
    pc[d] # "unregistered" ~> (pc[d] \in {"published", "returned"} \/ ~Running)

=============================================================================
