------------------------------- MODULE CtrlTx -------------------------------
(***************************************************************************)
(* What the control-transaction engine of mctpd promises its callers      *)
(* (spec sections 4.1 and 4.2), with no queue, timer or instance IDs: a   *)
(* client submits one transaction at a time and sleeps; the transaction   *)
(* stays pending until it is resolved exactly once, either by the answer  *)
(* to that very transaction or, in a batch of any pending ones, by        *)
(* timing out; the client wakes up with the outcome.                      *)
(***************************************************************************)
EXTENDS Naturals

CONSTANTS Clients, MaxTx

VARIABLES
  pending,    \* transactions submitted and not yet resolved
  pktState,   \* per client: "idle", "pushedForTransmission" or its outcome
  resp,       \* per client: the transaction whose answer it was given
  curTx,      \* per client: the transaction it submitted last
  txCount     \* transactions submitted so far

avars == <<pending, pktState, resp, curTx, txCount>>

NoTx == 0
Outcome == {"receivedResponse", "noResponse"}

Init ==
  /\ pending = {}
  /\ pktState = [c \in Clients |-> "idle"]
  /\ resp = [c \in Clients |-> NoTx]
  /\ curTx = [c \in Clients |-> NoTx]
  /\ txCount = 0

(* A client that is not waiting submits a new transaction and waits. *)
Submit(c) ==
  /\ pktState[c] # "pushedForTransmission"
  /\ txCount < MaxTx
  /\ pending' = pending \cup {txCount + 1}
  /\ pktState' = [pktState EXCEPT ![c] = "pushedForTransmission"]
  /\ curTx' = [curTx EXCEPT ![c] = txCount + 1]
  /\ txCount' = txCount + 1
  /\ UNCHANGED resp

(* The answer to c's pending transaction wakes c with that answer. *)
Answer(c) ==
  /\ curTx[c] \in pending
  /\ pending' = pending \ {curTx[c]}
  /\ pktState' = [pktState EXCEPT ![c] = "receivedResponse"]
  /\ resp' = [resp EXCEPT ![c] = curTx[c]]
  /\ UNCHANGED <<curTx, txCount>>

(* Some pending transactions time out together; their clients wake empty. *)
Expire(S) ==
  LET owners == {c \in Clients : curTx[c] \in S}
  IN
  /\ S # {} /\ S \subseteq pending
  /\ pending' = pending \ S
  /\ pktState' = [c \in Clients |-> IF c \in owners THEN "noResponse" ELSE pktState[c]]
  /\ resp' = [c \in Clients |-> IF c \in owners THEN NoTx ELSE resp[c]]
  /\ UNCHANGED <<curTx, txCount>>

Next ==
  \/ \E c \in Clients : Submit(c) \/ Answer(c)
  \/ \E S \in SUBSET pending : Expire(S)

(* No transaction stays pending forever: if nothing answers it, it times out. *)
Spec == Init /\ [][Next]_avars /\ \A t \in 1..MaxTx : WF_avars(Expire({t}))
=============================================================================
