------------------------------- MODULE PCIeRx -------------------------------
(***************************************************************************)
(* The receive loop of the Nuvoton PCIe VDM driver of mctpd               *)
(* (src/mctpd/src/hw/nuvoton/PCIeDriver.cpp): init() opens the libmctp    *)
(* nupcie binding; pollRx() assigns its file descriptor to a              *)
(* stream_descriptor on first use and posts an async_wait for             *)
(* readability whose handler calls mctp_nupcie_rx to read one packet and  *)
(* calls pollRx() again.  libmctp hands every message it reads to the     *)
(* receive callback the binding installed (mctp_set_rx_all in             *)
(* initializeMctp, src/mctpd/src/MCTPBinding.cpp 239-252): rxMessage,     *)
(* which routes it by type (77-103).                                      *)
(*                                                                         *)
(* The reactor completes every wait posted on a descriptor once it is      *)
(* readable, and a wait may also complete with an error; completed         *)
(* handlers then run one at a time.  A frame is known by what rxMessage    *)
(* looks at: its message type byte, whether it is long enough to hold a   *)
(* control header, and its request bit.                                    *)
(***************************************************************************)
EXTENDS Naturals, Sequences

CONSTANTS
  FrameKinds,  \* frames the device may send: [type, hdr, rq]
  MaxFrames,   \* bound: packets the device sends in a run
  MaxWaits,    \* bound: outstanding and completed waits the model tracks
  WaitErrors   \* whether async_wait may complete with an error code

ASSUME FrameKinds \subseteq [type : {"ctrl", "pldm"}, hdr : BOOLEAN, rq : BOOLEAN]
ASSUME MaxFrames \in Nat /\ MaxWaits \in Nat \ {0} /\ WaitErrors \in BOOLEAN

VARIABLES
  pcie,      \* "none" before init(), "live", or "failed" when init() threw
  fdOpen,    \* streamMonitor.is_open()
  waits,     \* async_waits posted on the descriptor and not yet completed
  ready,     \* handlers completed with success, still to run
  failed,    \* handlers completed with an error code, still to run
  inbox,     \* packets readable on the descriptor, oldest first
  sent,      \* packets the device has sent
  received,  \* ghost: packets mctp_nupcie_rx has read, in order
  sink,      \* MessageReceivedSignal payloads emitted, in order
  resolver   \* frames handed to handleCtrlResp, in order

rxVars == <<pcie, fdOpen, waits, ready, failed, inbox, sent, received, sink, resolver>>
dispatchVars == <<received, sink, resolver>>

Outstanding == waits + ready + failed

(***************************************************************************)
(* init() (12-22): mctp_nupcie_init either yields the binding or returns  *)
(* null, and init() throws; nothing of the driver runs after that.        *)
(***************************************************************************)
DriverInit ==
  /\ pcie = "none"
  /\ pcie' \in {"live", "failed"}
  /\ UNCHANGED <<fdOpen, waits, ready, failed, inbox, sent, dispatchVars>>

(* pollRx() (29-39) called n times in a row: the first assigns the fd.   *)
PollRx(n) ==
  /\ fdOpen' = TRUE
  /\ waits' = waits + n

(***************************************************************************)
(* What libmctp tells rxMessage about a frame: mctp_is_mctp_ctrl_msg (the *)
(* type byte is control and the frame holds a control header) and         *)
(* mctp_ctrl_msg_is_req (the header's request bit).                       *)
(***************************************************************************)
MCTP_MESSAGE_TYPE_MCTP_CTRL == "ctrl"
IsMctpCtrlMsg(f) == f.type = MCTP_MESSAGE_TYPE_MCTP_CTRL /\ f.hdr
CtrlMsgIsReq(f) == f.rq

RxMessage(f) ==
  /\ sink' = IF f.type # MCTP_MESSAGE_TYPE_MCTP_CTRL THEN Append(sink, f) ELSE sink
  /\ resolver' = IF IsMctpCtrlMsg(f) /\ ~CtrlMsgIsReq(f)
                 THEN Append(resolver, f) ELSE resolver

(* Fault-injected variant: the packet is dispatched but left readable. *)
NupcieRxPeek ==
  IF inbox # <<>>
  THEN /\ received' = Append(received, Head(inbox))
       /\ RxMessage(Head(inbox))
       /\ UNCHANGED inbox
  ELSE UNCHANGED <<inbox, dispatchVars>>

(***************************************************************************)
(* mctp_nupcie_rx (47): reads the oldest packet when one is there, and    *)
(* libmctp calls rxMessage with it before returning.                      *)
(***************************************************************************)
NupcieRx ==
  IF inbox # <<>>
  THEN /\ inbox' = Tail(inbox)
       /\ received' = Append(received, Head(inbox))
       /\ RxMessage(Head(inbox))
  ELSE UNCHANGED <<inbox, dispatchVars>>

(* The binding starts the loop with its first call of pollRx(). *)
StartRx ==
  /\ pcie = "live" /\ ~fdOpen
  /\ PollRx(1)
  /\ UNCHANGED <<pcie, ready, failed, inbox, sent, dispatchVars>>

(* The device sends a packet of one of the kinds. *)
Arrive ==
  /\ pcie = "live" /\ sent < MaxFrames
  /\ \E f \in FrameKinds : inbox' = Append(inbox, f)
  /\ sent' = sent + 1
  /\ UNCHANGED <<pcie, fdOpen, waits, ready, failed, dispatchVars>>

(* The descriptor is readable: every posted wait completes with success. *)
FdReadable ==
  /\ inbox # <<>> /\ waits > 0
  /\ ready' = ready + waits /\ waits' = 0
  /\ UNCHANGED <<pcie, fdOpen, failed, inbox, sent, dispatchVars>>

(* A posted wait completes with an error code. *)
WaitFails ==
  /\ WaitErrors /\ waits > 0 /\ Outstanding < MaxWaits
  /\ waits' = waits - 1 /\ failed' = failed + 1
  /\ UNCHANGED <<pcie, fdOpen, ready, inbox, sent, dispatchVars>>

(* Fault-injected variant: the handler reads but does not wait again. *)
RunHandlerNoRearm ==
  /\ ready > 0
  /\ ready' = ready - 1
  /\ NupcieRx
  /\ UNCHANGED <<pcie, fdOpen, waits, failed, sent>>

(* Fault-injected variant: the handler waits again without reading. *)
RunHandlerNoRead ==
  /\ ready > 0
  /\ ready' = ready - 1
  /\ PollRx(1)
  /\ UNCHANGED <<pcie, failed, inbox, sent, dispatchVars>>

(***************************************************************************)
(* The async_wait handler (40-49) with no error: mctp_nupcie_rx, then     *)
(* pollRx().                                                               *)
(***************************************************************************)
RunHandler ==
  /\ ready > 0
  /\ ready' = ready - 1
  /\ NupcieRx
  /\ PollRx(1)
  /\ UNCHANGED <<pcie, failed, sent>>

(***************************************************************************)
(* The handler with an error code (41-48): it logs and calls pollRx(),    *)
(* but does not return, so it goes on to mctp_nupcie_rx and a second     *)
(* pollRx().                                                               *)
(***************************************************************************)
RunErrorHandler ==
  /\ failed > 0
  /\ failed' = failed - 1
  /\ NupcieRx
  /\ PollRx(2)
  /\ UNCHANGED <<pcie, ready, sent>>

Init ==
  /\ pcie = "none" /\ fdOpen = FALSE
  /\ waits = 0 /\ ready = 0 /\ failed = 0
  /\ inbox = <<>> /\ sent = 0
  /\ received = <<>> /\ sink = <<>> /\ resolver = <<>>

Next ==
  \/ DriverInit \/ StartRx \/ Arrive
  \/ FdReadable \/ WaitFails \/ RunHandler \/ RunErrorHandler

(***************************************************************************)
(* The reactor's epoll loop reports a readable descriptor and runs every  *)
(* completed handler; the device and the errors get no fairness, nor does *)
(* start-up.                                                               *)
(***************************************************************************)
Spec ==
  /\ Init /\ [][Next]_rxVars
  /\ WF_rxVars(FdReadable) /\ WF_rxVars(RunHandler) /\ WF_rxVars(RunErrorHandler)

-----------------------------------------------------------------------------
RxTypeOK ==
  /\ pcie \in {"none", "live", "failed"}
  /\ fdOpen \in BOOLEAN
  /\ {waits, ready, failed, sent} \subseteq Nat
  /\ {inbox, received, sink, resolver} \subseteq Seq(FrameKinds)
  /\ Len(received) + Len(inbox) = sent

(***************************************************************************)
(* Once the loop has started, exactly one read of the descriptor is       *)
(* outstanding: each handler, whatever its error code, must post exactly  *)
(* one new wait, or reads multiply (and with them the handlers that call  *)
(* mctp_nupcie_rx on an empty descriptor) or stop.                        *)
(***************************************************************************)
SingleReader == fdOpen => Outstanding = 1

(***************************************************************************)
(* Every packet the device sends is eventually read by mctp_nupcie_rx and *)
(* so reaches rxMessage: the loop keeps waiting and every readable wake-up *)
(* reads.                                                                  *)
(***************************************************************************)
PacketsDrained == \A k \in 1..MaxFrames : sent >= k /\ fdOpen ~> Len(received) >= k

=============================================================================
