--------------------------- MODULE MCCtrlTxQueue ---------------------------
(***************************************************************************)
(* Model-checking instance of CtrlTxQueue.  The timing constants keep the *)
(* ratios of the code (a 5 ms poll; a retry delay that is a multiple of    *)
(* it) with a retry delay of 10 ms so that a request lives for a few      *)
(* ticks; the instance-ID mask is libmctp's 0x1F.                         *)
(***************************************************************************)
EXTENDS CtrlTxQueue, TLC

CONSTANTS c1, c2

MCClients == {c1, c2}

\* TLC integers are 32-bit signed: maxRespDelay wraps at 2^16 here instead
\* of 2^32; no run that keeps the retry delay a multiple of the poll
\* interval ever wraps, and one that does not wraps at its first tick past 0.
MCUIntModulus == 2^16

\* State identity without the ghost txLog, which no guard reads: for runs
\* whose properties do not read it either, behaviours that differ only in
\* the history of earlier requests are the same.
MCView == <<ctrlTxQueue, ctrlTxTimerExpired, ctrlTxTimer, instanceId, net,
            pktState, resp, curTx, txCount>>
=============================================================================
