----------------------------- MODULE CtrlTxQueue -----------------------------
(***************************************************************************)
(* The MCTP control-transaction engine of mctpd (src/mctpd/src/           *)
(* MCTPBinding.cpp): the process-wide ctrlTxQueue, the ctrlTxTimer that    *)
(* drives retransmission and timeout every ctrlTxPollInterval ms           *)
(* (processCtrlTxQueue), the response matcher (rxMessage/handleCtrlResp),  *)
(* the rolling instance-ID generator (createInstanceId) and the            *)
(* suspend-until-resolved bridge used by coroutines (sendAndRcvMctpCtrl).  *)
(*                                                                         *)
(* A request is known by its transaction number tx (a ghost name for the  *)
(* byte vector the code stores) and by the instance ID embedded in its     *)
(* header, which is all the matcher looks at.  Responses travel over an    *)
(* unreliable medium `net`: a frame may be lost, delayed past its          *)
(* request's timeout, reordered or delivered more than once.               *)
(***************************************************************************)
EXTENDS Integers, Sequences, SequencesExt, FiniteSets, Bitwise

CONSTANTS
  Clients,             \* coroutines that call sendAndRcvMctpCtrl
  MaxTx,               \* bound: number of requests submitted in a run
  CtrlTxRetryCount,    \* reqRetryCount of the binding configuration
  CtrlTxRetryDelay,    \* reqToRespTime of the binding configuration (ms)
  CtrlTxPollInterval,  \* ctrlTxPollInterval, 5 ms in the code
  InstanceIdMask,      \* MCTP_CTRL_HDR_INSTANCE_ID_MASK, 0x1F in libmctp
  UIntModulus,         \* 2^w for the unsigned int maxRespDelay field
  MaxInFlight          \* bound: response frames in the medium at once

ASSUME CtrlTxRetryCount \in 0..255           \* uint8_t in the tuple
ASSUME CtrlTxRetryDelay \in Nat \ {0}
ASSUME CtrlTxPollInterval \in Nat \ {0}
ASSUME InstanceIdMask \in Nat
ASSUME UIntModulus > (CtrlTxRetryCount + 1) * CtrlTxRetryDelay
ASSUME MaxTx \in Nat /\ MaxInFlight \in Nat \ {0}

VARIABLES
  ctrlTxQueue,         \* Seq of [tx, client, inst, retryCount, maxRespDelay]
  ctrlTxTimerExpired,  \* the global flag of the same name
  ctrlTxTimer,         \* "armed" while an async_wait on ctrlTxTimer is pending
  instanceId,          \* the static counter of createInstanceId
  net,                 \* response frames in flight: [inst, tx]
  pktState,            \* per client: the bridge's flow-local pktState
  resp,                \* per client: tx whose response the callback stored
  curTx,               \* per client: the request it is waiting on
  txCount,             \* requests submitted so far
  txLog                \* ghost: per tx, its age in ticks, send ages, resolutions

queueVars == <<ctrlTxQueue, ctrlTxTimerExpired, ctrlTxTimer, instanceId, net, txCount, txLog>>
bridgeVars == <<pktState, resp, curTx>>
vars == <<queueVars, bridgeVars>>

Tx == 1..MaxTx
NoTx == 0
InstanceIds == 0..InstanceIdMask
PacketStates == {"idle", "pushedForTransmission", "receivedResponse", "noResponse"}
Resolved == {"receivedResponse", "noResponse"}

QueuedTxs == {ctrlTxQueue[i].tx : i \in 1..Len(ctrlTxQueue)}

(* Fault-injected variant: the counter is masked but never advanced. *)
CreateInstanceIdStuck(id) == id & InstanceIdMask

(***************************************************************************)
(* createInstanceId / getRqDgramInst (lines 472-485): the next value of    *)
(* the rolling counter, masked to the header field.                        *)
(***************************************************************************)
CreateInstanceId(id) == (id + 1) & InstanceIdMask

(***************************************************************************)
(* sendMctpMessage (lines 310-321) of request tx with instance `inst`: the *)
(* frame may fail to go out, be lost, or be answered; an answer keeps the  *)
(* instance ID of the request.  Returns the possible next values of net.  *)
(***************************************************************************)
Transmit(S, n) ==
  {n \cup A : A \in {A \in SUBSET S : Cardinality(n \cup A) <= MaxInFlight}}

(* Fault-injected variant: the state is not stored, the loop never ends. *)
CallbackNoState(c, state, respTx) ==
  /\ UNCHANGED pktState
  /\ resp' = [resp EXCEPT ![c] = respTx]

(***************************************************************************)
(* callback of sendAndRcvMctpCtrl (lines 438-451): stores the response and *)
(* the state in the caller's locals; the coroutine resumes later.          *)
(***************************************************************************)
Callback(c, state, respTx) ==
  /\ pktState' = [pktState EXCEPT ![c] = state]
  /\ resp' = [resp EXCEPT ![c] = respTx]

(***************************************************************************)
(* sendAndRcvMctpCtrl (424-470) entered from a coroutine right after the   *)
(* request was formatted with a fresh instance ID (getFormattedReq,        *)
(* 487-554): pushToCtrlTxQueue (402-422) appends the entry, transmits it   *)
(* once and starts the timer if it is not running; the coroutine then      *)
(* suspends.  A coroutine resuming from its previous call reaches its next *)
(* call without another suspension point, so the resumption is part of    *)
(* this step.  Requests are never empty (getFormattedReq resizes them).    *)
(***************************************************************************)
SendAndRcvMctpCtrl(c) ==
  LET tx   == txCount + 1
      inst == CreateInstanceId(instanceId)
  IN
  /\ pktState[c] # "pushedForTransmission"
  /\ txCount < MaxTx
  /\ instanceId' = inst
  /\ ctrlTxQueue' = Append(ctrlTxQueue,
        [tx |-> tx, client |-> c, inst |-> inst,
         retryCount |-> CtrlTxRetryCount,
         maxRespDelay |-> (CtrlTxRetryCount + 1) * CtrlTxRetryDelay])
  /\ net' \in Transmit({[inst |-> inst, tx |-> tx]}, net)
  /\ IF ctrlTxTimerExpired
     THEN ctrlTxTimerExpired' = FALSE /\ ctrlTxTimer' = "armed"
     ELSE UNCHANGED <<ctrlTxTimerExpired, ctrlTxTimer>>
  /\ txCount' = tx
  /\ txLog' = [txLog EXCEPT ![tx].sent = <<0>>]
  /\ pktState' = [pktState EXCEPT ![c] = "pushedForTransmission"]
  /\ curTx' = [curTx EXCEPT ![c] = tx]
  /\ UNCHANGED resp

(***************************************************************************)
(* One expiry of ctrlTxTimer (the handler of processCtrlTxQueue, 323-400): *)
(* every entry loses ctrlTxPollInterval ms of its unsigned maxRespDelay;   *)
(* an entry with time left is retransmitted once it is within retryCount   *)
(* retry delays of the end (retryCount drops whether or not the send       *)
(* succeeds); an entry with no time left gets the noResponse callback and  *)
(* is erased.  The timer is then re-armed, or marked expired when the      *)
(* queue has become empty.                                                 *)
(***************************************************************************)
Decremented(e) == [e EXCEPT !.maxRespDelay = (@ - CtrlTxPollInterval) % UIntModulus]

TimedOut(e) == ~(Decremented(e).maxRespDelay > 0)

(* Fault-injected variant: `<` for `<=` in the retry condition. *)
RetriedLate(e) ==
  LET d == Decremented(e) IN
  ~TimedOut(e) /\ d.retryCount > 0 /\ d.maxRespDelay < d.retryCount * CtrlTxRetryDelay

Retried(e) ==
  LET d == Decremented(e) IN
  ~TimedOut(e) /\ d.retryCount > 0 /\ d.maxRespDelay <= d.retryCount * CtrlTxRetryDelay

(* Fault-injected variant: retryCount drops on every tick. *)
TickedAlways(e) == [Decremented(e) EXCEPT !.retryCount = @ - 1]

Ticked(e) ==
  IF Retried(e) THEN [Decremented(e) EXCEPT !.retryCount = @ - 1] ELSE Decremented(e)

(* Fault-injected variant: the empty-queue branch forgets the flag. *)
StopOrRearmKeepsFlag(q) ==
  IF q = <<>>
  THEN ctrlTxTimer' = "idle" /\ UNCHANGED ctrlTxTimerExpired
  ELSE UNCHANGED <<ctrlTxTimerExpired, ctrlTxTimer>>

(***************************************************************************)
(* End of the handler (388-398): with the queue q empty the timer is       *)
(* cancelled and marked expired, otherwise processCtrlTxQueue re-arms it.  *)
(***************************************************************************)
StopOrRearm(q) ==
  IF q = <<>>
  THEN ctrlTxTimerExpired' = TRUE /\ ctrlTxTimer' = "idle"
  ELSE UNCHANGED <<ctrlTxTimerExpired, ctrlTxTimer>>

ProcessCtrlTxQueue ==
  LET kept    == SelectSeq(ctrlTxQueue, LAMBDA e : ~TimedOut(e))
      expired == {e \in Range(ctrlTxQueue) : TimedOut(e)}
      retried == {e \in Range(ctrlTxQueue) : Retried(e)}
      newQ    == [i \in 1..Len(kept) |-> Ticked(kept[i])]
  IN
  /\ ctrlTxTimer = "armed"
  /\ ctrlTxQueue' = newQ
  /\ net' \in Transmit({[inst |-> e.inst, tx |-> e.tx] : e \in retried}, net)
  /\ pktState' = [c \in Clients |-> IF \E e \in expired : e.client = c
                                     THEN "noResponse" ELSE pktState[c]]
  /\ resp' = [c \in Clients |-> IF \E e \in expired : e.client = c
                                 THEN NoTx ELSE resp[c]]
  /\ StopOrRearm(newQ)
  /\ txLog' = [t \in Tx |->
        IF t \in QueuedTxs
        THEN LET e == CHOOSE e \in Range(ctrlTxQueue) : e.tx = t
                 age == txLog[t].age + 1
             IN [age  |-> age,
                 sent |-> IF Retried(e) THEN Append(txLog[t].sent, age) ELSE txLog[t].sent,
                 res  |-> IF TimedOut(e) THEN txLog[t].res + 1 ELSE txLog[t].res]
        ELSE txLog[t]]
  /\ UNCHANGED <<instanceId, txCount, curTx>>

(* Fault-injected variant: the matched entry is not erased. *)
HandleCtrlRespKeeps(m) ==
  LET i == SelectInSeq(ctrlTxQueue, LAMBDA e : e.inst = m.inst)
      e == ctrlTxQueue[i]
  IN
  IF i = 0
  THEN UNCHANGED <<ctrlTxQueue, txLog, pktState, resp>>
  ELSE /\ UNCHANGED ctrlTxQueue
       /\ Callback(e.client, "receivedResponse", m.tx)
       /\ txLog' = [txLog EXCEPT ![e.tx].res = @ + 1]

(***************************************************************************)
(* rxMessage (77-103) of a control response frame m, then handleCtrlResp  *)
(* (33-75): the first queued entry whose instance ID equals the frame's   *)
(* gets the receivedResponse callback with the frame and is erased; with  *)
(* no such entry the frame is dropped.  The medium may keep a copy of m   *)
(* (a duplicate still to arrive).                                          *)
(***************************************************************************)
HandleCtrlResp(m) ==
  LET i == SelectInSeq(ctrlTxQueue, LAMBDA e : e.inst = m.inst)
      e == ctrlTxQueue[i]
  IN
  IF i = 0
  THEN UNCHANGED <<ctrlTxQueue, txLog, pktState, resp>>
  ELSE /\ ctrlTxQueue' = RemoveAt(ctrlTxQueue, i)
       /\ Callback(e.client, "receivedResponse", m.tx)
       /\ txLog' = [txLog EXCEPT ![e.tx].res = @ + 1]

RxMessage ==
  \E m \in net :
    /\ \/ net' = net \ {m}
       \/ UNCHANGED net
    /\ HandleCtrlResp(m)
    /\ UNCHANGED <<ctrlTxTimerExpired, ctrlTxTimer, instanceId, txCount, curTx>>

(* A response frame is lost in the medium. *)
LoseFrame ==
  \E m \in net :
    /\ net' = net \ {m}
    /\ UNCHANGED <<ctrlTxQueue, ctrlTxTimerExpired, ctrlTxTimer, instanceId, txCount, txLog, bridgeVars>>

Init ==
  /\ ctrlTxQueue = <<>>
  /\ ctrlTxTimerExpired = TRUE
  /\ ctrlTxTimer = "idle"
  /\ instanceId = 0
  /\ net = {}
  /\ pktState = [c \in Clients |-> "idle"]
  /\ resp = [c \in Clients |-> NoTx]
  /\ curTx = [c \in Clients |-> NoTx]
  /\ txCount = 0
  /\ txLog = [t \in Tx |-> [age |-> 0, sent |-> <<>>, res |-> 0]]

Next ==
  \/ \E c \in Clients : SendAndRcvMctpCtrl(c)
  \/ ProcessCtrlTxQueue
  \/ RxMessage
  \/ LoseFrame

(***************************************************************************)
(* The reactor runs every due timer handler: a steady_timer armed with    *)
(* expires_after(5ms) fires.  The medium and the clients get no fairness. *)
(***************************************************************************)
Spec == Init /\ [][Next]_vars /\ WF_vars(ProcessCtrlTxQueue)

-----------------------------------------------------------------------------
TypeOK ==
  /\ ctrlTxQueue \in Seq([tx : Tx, client : Clients, inst : InstanceIds,
                          retryCount : 0..CtrlTxRetryCount,
                          maxRespDelay : 0..(UIntModulus - 1)])
  /\ ctrlTxTimerExpired \in BOOLEAN
  /\ ctrlTxTimer \in {"armed", "idle"}
  /\ instanceId \in InstanceIds
  /\ net \subseteq [inst : InstanceIds, tx : Tx]
  /\ pktState \in [Clients -> PacketStates]
  /\ resp \in [Clients -> Tx \cup {NoTx}]
  /\ curTx \in [Clients -> Tx \cup {NoTx}]
  /\ txCount \in 0..MaxTx

(***************************************************************************)
(* A request that gets no answer is sent at 0, D, 2D, ..., R*D ms after   *)
(* submission (D = reqToRespTime, R = reqRetryCount) and times out at      *)
(* (R+1)*D ms, never later: the unsigned countdown in the timer handler   *)
(* and its comparison with retryCount * D must produce this schedule.     *)
(***************************************************************************)
Schedule == [k \in 1..(CtrlTxRetryCount + 1) |-> (k - 1) * CtrlTxRetryDelay]

RetrySchedule ==
  \A t \in 1..txCount :
    LET ms == [k \in 1..Len(txLog[t].sent) |-> txLog[t].sent[k] * CtrlTxPollInterval]
        lifetime == txLog[t].age * CtrlTxPollInterval
    IN /\ IsPrefix(ms, Schedule)
       /\ lifetime <= (CtrlTxRetryCount + 1) * CtrlTxRetryDelay
       /\ t \in QueuedTxs => lifetime < (CtrlTxRetryCount + 1) * CtrlTxRetryDelay

(***************************************************************************)
(* A caller woken with receivedResponse holds the response to its own      *)
(* request: handleCtrlResp matches on the instance ID alone, so stale,     *)
(* duplicated or reordered frames of other requests must never match.     *)
(***************************************************************************)
ResponseToOwnRequest ==
  \A c \in Clients : pktState[c] = "receivedResponse" => resp[c] = curTx[c]

(***************************************************************************)
(* While a request is queued the timer is running: the empty-queue branch  *)
(* of the handler must mark it expired so that the next push restarts it.  *)
(***************************************************************************)
TimerRunsWhileQueued == ctrlTxQueue # <<>> => ctrlTxTimer = "armed"

(***************************************************************************)
(* Every call of sendAndRcvMctpCtrl returns: the coroutine is eventually  *)
(* woken with receivedResponse or noResponse, whatever the medium does.   *)
(***************************************************************************)
EveryCallReturns ==
  \A c \in Clients : pktState[c] = "pushedForTransmission" ~> pktState[c] \in Resolved


(***************************************************************************)
(* The engine implements the promise of CtrlTx: seen through the set of   *)
(* queued requests and the bridge's per-client locals, every step of      *)
(* pushToCtrlTxQueue, the timer handler and handleCtrlResp is a submit,   *)
(* the answer to the caller's own request, a batch of timeouts, or no     *)
(* visible change, and every request is eventually resolved.  A frame     *)
(* matched to the wrong request, an entry resolved twice or never, or a  *)
(* caller woken with another request's answer breaks it.                 *)
(***************************************************************************)
CtrlTxAbs == INSTANCE CtrlTx WITH pending <- QueuedTxs

CtrlTxRefinement == CtrlTxAbs!Spec

=============================================================================
