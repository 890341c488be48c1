-------------------------------- MODULE Swarm --------------------------------
(*****************************************************************************)
(* The list of peers of a client and the threads that share it: the tracker  *)
(* threads, which report peers through client_find_peer; the peer threads of *)
(* peer_thread_routine, each of which takes a NEW peer, marks it and talks   *)
(* to it; and main's monitoring loop.  The list has one mutex and one        *)
(* iteration cursor (curr_node), both shared by every thread; the status of  *)
(* a peer is read under the mutex and written outside it.                    *)
(*****************************************************************************)
EXTENDS Naturals, Sequences, FiniteSets

CONSTANTS
    Finders,    \* tracker threads that call client_find_peer
    Workers,    \* config.peer_threads threads
    Main,       \* the thread of main()
    IPs,        \* addresses the trackers may report
    NotAnIP,    \* low word of a heap address that equals no reported address
    NoThread,   \* the mutex is free
    MaxPeers,   \* bound: peers that are ever listed
    FdLimit     \* descriptors the process may hold for peer sockets

ASSUME SwarmAssumption ==
    /\ Finders \cap Workers = {}
    /\ Main \notin Finders \cup Workers
    /\ NoThread \notin Finders \cup Workers \cup {Main}
    /\ NotAnIP \notin IPs
    /\ MaxPeers \in Nat
    /\ FdLimit \in Nat

VARIABLES
    peers,      \* c->peers, in list order: the address and the low pointer word
    status,     \* peer_t.status, by position in the list
    mutex,      \* c->peers->mutex: the thread that holds it, or NoThread
    curr,       \* c->peers->curr_node: position of a node, 0 for NULL
    pc,         \* where each thread is
    arg,        \* new_peer.ip of a tracker thread inside client_find_peer, or NotAnIP
    sel,        \* `selected` of a peer thread: position of its peer, or 0
    socks,      \* sockets opened by peer_communication; none is ever closed
    unchecked,  \* main's counter of NEW peers
    running     \* continueRunning

vars == <<peers, status, mutex, curr, pc, arg, sel, socks, unchecked, running>>

Threads == Finders \cup Workers \cup {Main}

\* enum peer_status, and what an uninitialised field may hold besides.
Status == {"NEW", "IN_USE", "BAD", "GARBAGE"}

FinderPC == {"f_idle", "f_scan", "f_append"}
WorkerPC == {"w_top", "w_scan", "w_claim", "w_socket", "w_connect",
             "w_handshake", "w_msgs", "w_avail", "w_sum"}
MainPC   == {"m_top", "m_lock", "m_scan", "m_print", "m_done"}

\* A thread is iterating over the list (list_iter_start_safe ... stop_safe).
Scanning == {"f_scan", "w_scan", "w_sum", "m_scan"}

\* Thread t moves from one label to the next.
Go(t, from, to) == pc[t] = from /\ pc' = [pc EXCEPT ![t] = to]

-----------------------------------------------------------------------------
(* The iteration protocol of list.c, as the client uses it.                  *)

ListHead == IF peers = <<>> THEN 0 ELSE 1

\* Mutant: the cursor is not set back to the head.
IterStartKeepsCursor(t) == mutex = NoThread /\ mutex' = t /\ UNCHANGED curr

IterStartSafe(t) == mutex = NoThread /\ mutex' = t /\ curr' = ListHead

HasNext == curr # 0

\* Mutant: the cursor runs off the end.
IterNextPastEnd == curr' = curr + 1

IterNext == curr' = IF curr < Len(peers) THEN curr + 1 ELSE 0

\* Mutant: the mutex is not given back.
IterStopKeeps == UNCHANGED mutex

IterStopSafe == mutex' = NoThread

-----------------------------------------------------------------------------
(* client_find_peer, called by a tracker thread.  The list holds peer_t      *)
(* pointers, but the loop copies an element into a peer_t: what it compares  *)
(* with the new address is the low word of the pointer.                      *)

FindLock(f, ip) ==
    /\ Len(peers) + Cardinality({g \in Finders : pc[g] # "f_idle"}) < MaxPeers
    /\ Go(f, "f_idle", "f_scan")
    /\ arg' = [arg EXCEPT ![f] = ip]
    /\ IterStartSafe(f)
    /\ UNCHANGED <<peers, status, sel, socks, unchecked, running>>

FindMatch(f) ==
    /\ HasNext
    /\ peers[curr].low = arg[f]
    /\ Go(f, "f_scan", "f_idle")
    /\ arg' = [arg EXCEPT ![f] = NotAnIP]
    /\ IterNext
    /\ IterStopSafe
    /\ UNCHANGED <<peers, status, sel, socks, unchecked, running>>

FindNext(f) ==
    /\ pc[f] = "f_scan"
    /\ HasNext
    /\ peers[curr].low # arg[f]
    /\ IterNext
    /\ UNCHANGED <<peers, status, mutex, pc, arg, sel, socks, unchecked, running>>

FindEnd(f) ==
    /\ ~HasNext
    /\ Go(f, "f_scan", "f_append")
    /\ IterStopSafe
    /\ UNCHANGED <<peers, status, curr, arg, sel, socks, unchecked, running>>

\* malloc, the assignments and list_append, which takes the mutex for itself.
\* peer->status is not assigned: it is whatever the allocation held.
FindAppend(f) ==
    /\ mutex = NoThread
    /\ Go(f, "f_append", "f_idle")
    /\ \E low \in IPs \cup {NotAnIP}, s \in Status :
           /\ peers'  = Append(peers, [ip |-> arg[f], low |-> low])
           /\ status' = Append(status, s)
    /\ arg' = [arg EXCEPT ![f] = NotAnIP]
    /\ UNCHANGED <<mutex, curr, sel, socks, unchecked, running>>

-----------------------------------------------------------------------------
(* peer_thread_routine.  list_len is read without the mutex, but the length  *)
(* never decreases, so the test and the lock are one step.                   *)

WorkerLock(w) ==
    /\ peers # <<>>
    /\ Go(w, "w_top", "w_scan")
    /\ IterStartSafe(w)
    /\ UNCHANGED <<peers, status, arg, sel, socks, unchecked, running>>

\* The first NEW peer is selected and the mutex released: the status has been
\* read, not written.
WorkerSelect(w) ==
    /\ HasNext
    /\ status[curr] = "NEW"
    /\ Go(w, "w_scan", "w_claim")
    /\ sel' = [sel EXCEPT ![w] = curr]
    /\ IterNext
    /\ IterStopSafe
    /\ UNCHANGED <<peers, status, arg, socks, unchecked, running>>

WorkerNext(w) ==
    /\ pc[w] = "w_scan"
    /\ HasNext
    /\ status[curr] # "NEW"
    /\ IterNext
    /\ UNCHANGED <<peers, status, mutex, pc, arg, sel, socks, unchecked, running>>

\* selected = NULL: sleep, then the availability report.
WorkerNone(w) ==
    /\ ~HasNext
    /\ Go(w, "w_scan", "w_avail")
    /\ IterStopSafe
    /\ UNCHANGED <<peers, status, curr, arg, sel, socks, unchecked, running>>

\* Mutant: a peer that failed is put back to be tried again.
SetStatusRetry(w, s) == status' = [status EXCEPT ![sel[w]] = IF s = "BAD" THEN "NEW" ELSE s]

SetStatus(w, s) == status' = [status EXCEPT ![sel[w]] = s]

WorkerClaim(w) ==
    /\ Go(w, "w_claim", "w_socket")
    /\ SetStatus(w, "IN_USE")
    /\ UNCHANGED <<peers, mutex, curr, arg, sel, socks, unchecked, running>>

-----------------------------------------------------------------------------
(* peer_communication.  No path closes the socket; the message loop has no   *)
(* exit, so a thread whose handshake succeeds never takes another peer.      *)

SocketOpen(w) ==
    /\ socks < FdLimit
    /\ Go(w, "w_socket", "w_connect")
    /\ socks' = socks + 1
    /\ UNCHANGED <<peers, status, mutex, curr, arg, sel, unchecked, running>>

SocketFail(w) ==
    /\ socks = FdLimit
    /\ Go(w, "w_socket", "w_avail")
    /\ SetStatus(w, "BAD")
    /\ UNCHANGED <<peers, mutex, curr, arg, sel, socks, unchecked, running>>

ConnectOk(w) ==
    /\ Go(w, "w_connect", "w_handshake")
    /\ UNCHANGED <<peers, status, mutex, curr, arg, sel, socks, unchecked, running>>

ConnectFail(w) ==
    /\ Go(w, "w_connect", "w_avail")
    /\ SetStatus(w, "BAD")
    /\ UNCHANGED <<peers, mutex, curr, arg, sel, socks, unchecked, running>>

HandshakeGood(w) ==
    /\ Go(w, "w_handshake", "w_msgs")
    /\ UNCHANGED <<peers, status, mutex, curr, arg, sel, socks, unchecked, running>>

HandshakeBad(w) ==
    /\ Go(w, "w_handshake", "w_avail")
    /\ SetStatus(w, "BAD")
    /\ UNCHANGED <<peers, mutex, curr, arg, sel, socks, unchecked, running>>

-----------------------------------------------------------------------------
(* calculate_total_availability: another pass over the list.  What it reads  *)
(* of each peer is the subject of module Availability.                       *)

AvailLock(w) ==
    /\ Go(w, "w_avail", "w_sum")
    /\ IterStartSafe(w)
    /\ UNCHANGED <<peers, status, arg, sel, socks, unchecked, running>>

AvailNext(w) ==
    /\ pc[w] = "w_sum"
    /\ HasNext
    /\ IterNext
    /\ UNCHANGED <<peers, status, mutex, pc, arg, sel, socks, unchecked, running>>

AvailEnd(w) ==
    /\ ~HasNext
    /\ Go(w, "w_sum", "w_top")
    /\ IterStopSafe
    /\ UNCHANGED <<peers, status, curr, arg, sel, socks, unchecked, running>>

-----------------------------------------------------------------------------
(* main's loop, and SIGINT.                                                  *)

\* Mutant: the loop does not test continueRunning.
ContinueAlways == TRUE

Continue == running

MainLoop ==
    /\ Continue
    /\ Go(Main, "m_top", "m_lock")
    /\ unchecked' = 0
    /\ UNCHANGED <<peers, status, mutex, curr, arg, sel, socks, running>>

MainLock ==
    /\ Go(Main, "m_lock", "m_scan")
    /\ IterStartSafe(Main)
    /\ UNCHANGED <<peers, status, arg, sel, socks, unchecked, running>>

MainNext ==
    /\ pc[Main] = "m_scan"
    /\ HasNext
    /\ unchecked' = IF status[curr] = "NEW" THEN unchecked + 1 ELSE unchecked
    /\ IterNext
    /\ UNCHANGED <<peers, status, mutex, pc, arg, sel, socks, running>>

MainEnd ==
    /\ ~HasNext
    /\ Go(Main, "m_scan", "m_print")
    /\ IterStopSafe
    /\ UNCHANGED <<peers, status, curr, arg, sel, socks, unchecked, running>>

\* Prints list_len, read without the mutex, and unchecked.
MainPrint ==
    /\ Go(Main, "m_print", "m_top")
    /\ UNCHANGED <<peers, status, mutex, curr, arg, sel, socks, unchecked, running>>

\* client_stop_trackers, two seconds' grace, and return: the process is gone,
\* whatever the other threads were doing.
MainExit ==
    /\ ~Continue
    /\ Go(Main, "m_top", "m_done")
    /\ UNCHANGED <<peers, status, mutex, curr, arg, sel, socks, unchecked, running>>

Interrupt ==
    /\ running
    /\ running' = FALSE
    /\ UNCHANGED <<peers, status, mutex, curr, pc, arg, sel, socks, unchecked>>

-----------------------------------------------------------------------------

Init ==
    /\ peers = <<>>
    /\ status = <<>>
    /\ mutex = NoThread
    /\ curr = 0
    /\ pc = [t \in Threads |-> IF t \in Finders THEN "f_idle"
                               ELSE IF t \in Workers THEN "w_top" ELSE "m_top"]
    /\ arg = [f \in Finders |-> NotAnIP]
    /\ sel = [w \in Workers |-> 0]
    /\ socks = 0
    /\ unchecked = 0
    /\ running = TRUE

FinderStep(f) ==
    \/ \E ip \in IPs : FindLock(f, ip)
    \/ FindMatch(f) \/ FindNext(f) \/ FindEnd(f) \/ FindAppend(f)

WorkerStep(w) ==
    \/ WorkerLock(w) \/ WorkerSelect(w) \/ WorkerNext(w) \/ WorkerNone(w)
    \/ WorkerClaim(w)
    \/ SocketOpen(w) \/ SocketFail(w) \/ ConnectOk(w) \/ ConnectFail(w)
    \/ HandshakeGood(w) \/ HandshakeBad(w)
    \/ AvailLock(w) \/ AvailNext(w) \/ AvailEnd(w)

MainStep ==
    MainLoop \/ MainLock \/ MainNext \/ MainEnd \/ MainPrint \/ MainExit

\* The process has returned from main.
Exited == pc[Main] = "m_done"

Next ==
    \/ /\ ~Exited
       /\ \/ \E f \in Finders : FinderStep(f)
          \/ \E w \in Workers : WorkerStep(w)
          \/ MainStep
          \/ Interrupt
    \/ Exited /\ UNCHANGED vars

Spec == Init /\ [][Next]_vars

(* Every thread keeps being scheduled; a thread that waits for the mutex     *)
(* gets it in the end, because the others leave it free for whole seconds    *)
(* (sleep) between their finite passes.  A new report, a signal and the way  *)
(* a connection attempt ends are not owed to anybody, only that it ends.     *)
Running(A) == ~Exited /\ A

WorkerFairness(w) ==
    /\ SF_vars(Running(WorkerLock(w)))
    /\ SF_vars(Running(AvailLock(w)))
    /\ WF_vars(Running(WorkerStep(w)))

Fairness ==
    /\ \A f \in Finders : WF_vars(Running(FindMatch(f) \/ FindNext(f) \/ FindEnd(f)))
    /\ \A w \in Workers : WorkerFairness(w)
    /\ SF_vars(Running(MainLock))
    /\ WF_vars(Running(MainStep))

FairSpec == Spec /\ Fairness

-----------------------------------------------------------------------------
(* Properties.                                                               *)

TypeOK ==
    /\ peers \in Seq([ip : IPs, low : IPs \cup {NotAnIP}])
    /\ status \in Seq(Status)
    /\ Len(status) = Len(peers)
    /\ mutex \in Threads \cup {NoThread}
    /\ curr \in 0..Len(peers)
    /\ pc \in [Threads -> FinderPC \cup WorkerPC \cup MainPC]
    /\ \A f \in Finders : pc[f] \in FinderPC
    /\ \A w \in Workers : pc[w] \in WorkerPC
    /\ pc[Main] \in MainPC
    /\ arg \in [Finders -> IPs \cup {NotAnIP}]
    /\ \A f \in Finders : pc[f] = "f_idle" <=> arg[f] = NotAnIP
    /\ sel \in [Workers -> 0..Len(peers)]
    /\ socks \in 0..FdLimit
    /\ unchecked \in Nat
    /\ running \in BOOLEAN

\* The mutex is held by exactly the thread that is iterating: the one cursor
\* that every loop over the list shares (list_iter_start_safe, list_iter_next)
\* never serves two loops, and no path leaves a loop with the mutex held.
IteratorHoldsMutex == \A t \in Threads : pc[t] \in Scanning <=> mutex = t

\* Positions the thread that holds the mutex has already been given.
Visited == IF curr = 0 THEN 1..Len(peers) ELSE 1..(curr - 1)

\* The pass of a peer thread (client.c:185-192) overlooks nobody: every peer it
\* has gone past is not NEW, at that moment and still, although other threads
\* write the statuses without the mutex during the pass.
ScanMissesNoNew ==
    \A w \in Workers : pc[w] = "w_scan" => \A i \in Visited : status[i] # "NEW"

Contacting == {"w_socket", "w_connect", "w_handshake", "w_msgs"}

\* Once a thread has marked its peer (client.c:195), no later pass can select
\* it again: whatever the threads that raced for the same peer write, in
\* whatever order, the mark never reads as NEW.
ClaimSticks ==
    \A w \in Workers : pc[w] \in Contacting => status[sel[w]] # "NEW"

\* A thread works on a peer of the list: `selected` is never NULL when it is
\* dereferenced (client.c:195 and the failure paths of peer_communication).
SelectedListed ==
    \A w \in Workers :
        pc[w] \in Contacting \cup {"w_claim"} => sel[w] \in 1..Len(peers)

\* What main prints (main.c:131-140): during the pass the counter covers every
\* peer already visited that is still NEW; when it is printed, after the mutex
\* is released and with a list that may have grown, it is at most list_len.
MonitorCount ==
    /\ pc[Main] = "m_scan" =>
           /\ Cardinality({i \in Visited : status[i] = "NEW"}) <= unchecked
           /\ unchecked <= Cardinality(Visited)
    /\ pc[Main] = "m_print" => unchecked <= Len(peers)

\* A peer_t stays where it is and keeps its address for ever (client.c:81), and
\* nothing makes a peer NEW again.
ListGrowsOnly ==
    [][/\ Len(peers) <= Len(peers')
       /\ \A i \in DOMAIN peers :
              /\ peers'[i] = peers[i]
              /\ status'[i] = "NEW" => status[i] = "NEW"]_vars

\* "list of peer_t*" (client.h:16): an element leads to a peer, and the search of
\* client_find_peer goes by that peer's address (client.c:65).  It ends without
\* a match only if no peer in the list has the new address.
SearchFinds ==
    [][\A f \in Finders :
           pc[f] = "f_scan" /\ pc'[f] = "f_append" =>
               \A i \in DOMAIN peers : peers[i].ip # arg[f]]_vars

\* SIGINT ends the process (main.c:71-73, 128-148): main's last pass needs the
\* mutex, which every other thread gives back in the end.
InterruptExits == ~running ~> Exited

Tried(i) == \E w \in Workers : sel[w] = i /\ pc[w] = "w_connect"

\* Every NEW peer is eventually connected to, unless every peer thread has been
\* captured by the endless message loop (client.c:145), the sockets that are
\* never closed have used up the descriptors, or the process ends.
NewPeerTried ==
    \A i \in 1..MaxPeers :
        (i \in DOMAIN status /\ status[i] = "NEW") ~>
            \/ Tried(i)
            \/ \A w \in Workers : pc[w] = "w_msgs"
            \/ socks = FdLimit
            \/ Exited
==============================================================================
