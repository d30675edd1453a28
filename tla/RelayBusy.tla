------------------------------ MODULE RelayBusy -----------------------------
(***************************************************************************)
(* Relay among any number of other clients.  Relay follows MaxRequests     *)
(* datagrams and the loop falls silent after them; here datagrams of       *)
(* clients that are not followed keep coming for as long as they like.     *)
(* They ask for blacklisted names: each makes server_sockfd readable and   *)
(* is answered at once, without a slot or a cache.  Select returns 0, and  *)
(* the slots are scanned, only while none is waiting.                      *)
(***************************************************************************)
EXTENDS Relay

VARIABLE
    noise           \* a datagram of another client waits in server_sockfd

bvars == <<vars, noise>>

BusyInit == Init /\ noise = FALSE

Chatter ==
    /\ Alive /\ ~noise
    /\ noise' = TRUE
    /\ UNCHANGED vars

\* A round of the loop in which handle_request receives that datagram.  What
\* is followed goes first, so that no such datagram overtakes it for ever.
HandleChatter ==
    /\ pc = "select" /\ noise /\ Readable = {}
    /\ noise' = FALSE
    /\ UNCHANGED vars

\* select returns 0 only if no datagram waits at all.
Quiet == pc = "select" /\ pc' = "scan" => ~noise

BusyLoop == HandleChatter \/ (Loop /\ Quiet /\ UNCHANGED noise)

BusyNext ==
    \/ BusyLoop
    \/ Chatter
    \/ (Environment \/ Stopped) /\ UNCHANGED noise

\* The loop never stops by itself, the clock runs, and recvfrom on a readable
\* socket does not fail for ever.  Nothing is assumed of clients or upstream.
BusySpec ==
    /\ BusyInit /\ [][BusyNext]_bvars
    /\ WF_bvars(BusyLoop)
    /\ WF_bvars(ClockStep /\ UNCHANGED noise)
    /\ SF_bvars(HandleRelay /\ UNCHANGED noise)
    /\ SF_bvars(HandleRequest /\ UNCHANGED noise)

-----------------------------------------------------------------------------
\* k is done with: it had its reply or was dropped by a full ring; or the loop
\* is no more.
DoneWith(k) == Settled(k) \/ k \in dropped \/ ~Running

\* If select finds nothing to read again and again, every request that arrived
\* gets a reply or is dropped, unless the process ends, waits for its own lock
\* or spins in a store: though its answer be lost, the scan comes to its slot.
\* ("Find the entries that timed out and handle them", main.c:197.)  While some
\* datagram waits at every call of select, the scan is not reached at all.
Served ==
    []<>(pc = "scan" \/ ~Running) => \A k \in Ks : Queued(k) \/ Waiting(k) ~> DoneWith(k)
=============================================================================
