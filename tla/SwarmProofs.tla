----------------------------- MODULE SwarmProofs -----------------------------
(*****************************************************************************)
(* Proofs about Swarm, for any number of threads, addresses, peers and       *)
(* descriptors.                                                              *)
(*****************************************************************************)
EXTENDS Swarm, SequenceTheorems, FiniteSetTheorems, TLAPS

-----------------------------------------------------------------------------
(* What a write to a status does.                                            *)

\* A status is written at the position of a listed peer: the others stay.
LEMMA SetStatusFacts ==
    ASSUME TypeOK, NEW w \in Workers, NEW s \in Status,
           sel[w] \in 1..Len(peers), SetStatus(w, s)
    PROVE  /\ status' \in Seq(Status)
           /\ Len(status') = Len(status)
           /\ \A i \in 1..Len(status) : status'[i] = IF i = sel[w] THEN s ELSE status[i]
BY ExceptSeq DEF TypeOK, SetStatus

\* A peer and its status are appended together, behind those there are.
LEMMA AppendFacts ==
    ASSUME TypeOK, NEW f \in Finders, FindAppend(f)
    PROVE  /\ peers' \in Seq([ip : IPs, low : IPs \cup {NotAnIP}])
           /\ status' \in Seq(Status)
           /\ Len(peers') = Len(peers) + 1
           /\ Len(status') = Len(status) + 1
           /\ \A i \in 1..Len(peers) : peers'[i] = peers[i] /\ status'[i] = status[i]
<1>1. arg[f] \in IPs
  BY DEF TypeOK, FindAppend, Go
<1>2. PICK low \in IPs \cup {NotAnIP}, s \in Status :
          /\ peers'  = Append(peers, [ip |-> arg[f], low |-> low])
          /\ status' = Append(status, s)
  BY DEF FindAppend
<1> QED
  BY <1>1, <1>2, AppendProperties DEF TypeOK

-----------------------------------------------------------------------------
(* Types, and the peer that a peer thread works on.  The two go together: a  *)
(* status is well typed after a write only because `selected` is listed.     *)

Typed == TypeOK /\ SelectedListed

LEMMA TypedInit == Init => Typed
BY SwarmAssumption
   DEF Init, Typed, TypeOK, SelectedListed, Contacting, Threads, FinderPC, WorkerPC, MainPC, Status

LEMMA TypedNext == Typed /\ [Next]_vars => Typed'
<1> SUFFICES ASSUME Typed, [Next]_vars PROVE Typed'
  OBVIOUS
<1> USE SwarmAssumption DEF Typed, TypeOK, SelectedListed, Contacting, Threads, FinderPC,
                            WorkerPC, MainPC
<1>1. ASSUME NEW f \in Finders, NEW ip \in IPs, FindLock(f, ip) PROVE Typed'
  BY <1>1 DEF FindLock, Go, IterStartSafe, ListHead
<1>2. ASSUME NEW f \in Finders, FindMatch(f) PROVE Typed'
  BY <1>2 DEF FindMatch, Go, IterNext, HasNext, IterStopSafe
<1>3. ASSUME NEW f \in Finders, FindNext(f) PROVE Typed'
  BY <1>3 DEF FindNext, IterNext, HasNext
<1>4. ASSUME NEW f \in Finders, FindEnd(f) PROVE Typed'
  BY <1>4 DEF FindEnd, Go, HasNext, IterStopSafe
<1>5. ASSUME NEW f \in Finders, FindAppend(f) PROVE Typed'
  BY <1>5, AppendFacts DEF FindAppend, Go
<1>6. ASSUME NEW w \in Workers, WorkerLock(w) PROVE Typed'
  BY <1>6 DEF WorkerLock, Go, IterStartSafe, ListHead
<1>7. ASSUME NEW w \in Workers, WorkerSelect(w) PROVE Typed'
  BY <1>7 DEF WorkerSelect, Go, IterNext, HasNext, IterStopSafe
<1>8. ASSUME NEW w \in Workers, WorkerNext(w) PROVE Typed'
  BY <1>8 DEF WorkerNext, IterNext, HasNext
<1>9. ASSUME NEW w \in Workers, WorkerNone(w) PROVE Typed'
  BY <1>9 DEF WorkerNone, Go, HasNext, IterStopSafe
<1>10. ASSUME NEW w \in Workers, WorkerClaim(w) PROVE Typed'
  <2>1. sel[w] \in 1..Len(peers)
    BY <1>10 DEF WorkerClaim, Go
  <2>2. status' \in Seq(Status) /\ Len(status') = Len(status)
    BY <1>10, <2>1, SetStatusFacts DEF WorkerClaim, Status
  <2> QED
    BY <1>10, <2>2 DEF WorkerClaim, Go
<1>11. ASSUME NEW w \in Workers, SocketOpen(w) PROVE Typed'
  BY <1>11 DEF SocketOpen, Go
<1>12. ASSUME NEW w \in Workers, SocketFail(w) PROVE Typed'
  <2>1. sel[w] \in 1..Len(peers)
    BY <1>12 DEF SocketFail, Go
  <2>2. status' \in Seq(Status) /\ Len(status') = Len(status)
    BY <1>12, <2>1, SetStatusFacts DEF SocketFail, Status
  <2> QED
    BY <1>12, <2>2 DEF SocketFail, Go
<1>13. ASSUME NEW w \in Workers, ConnectOk(w) PROVE Typed'
  BY <1>13 DEF ConnectOk, Go
<1>14. ASSUME NEW w \in Workers, ConnectFail(w) PROVE Typed'
  <2>1. sel[w] \in 1..Len(peers)
    BY <1>14 DEF ConnectFail, Go
  <2>2. status' \in Seq(Status) /\ Len(status') = Len(status)
    BY <1>14, <2>1, SetStatusFacts DEF ConnectFail, Status
  <2> QED
    BY <1>14, <2>2 DEF ConnectFail, Go
<1>15. ASSUME NEW w \in Workers, HandshakeGood(w) PROVE Typed'
  BY <1>15 DEF HandshakeGood, Go
<1>16. ASSUME NEW w \in Workers, HandshakeBad(w) PROVE Typed'
  <2>1. sel[w] \in 1..Len(peers)
    BY <1>16 DEF HandshakeBad, Go
  <2>2. status' \in Seq(Status) /\ Len(status') = Len(status)
    BY <1>16, <2>1, SetStatusFacts DEF HandshakeBad, Status
  <2> QED
    BY <1>16, <2>2 DEF HandshakeBad, Go
<1>17. ASSUME NEW w \in Workers, AvailLock(w) PROVE Typed'
  BY <1>17 DEF AvailLock, Go, IterStartSafe, ListHead
<1>18. ASSUME NEW w \in Workers, AvailNext(w) PROVE Typed'
  BY <1>18 DEF AvailNext, IterNext, HasNext
<1>19. ASSUME NEW w \in Workers, AvailEnd(w) PROVE Typed'
  BY <1>19 DEF AvailEnd, Go, HasNext, IterStopSafe
<1>20. ASSUME MainLoop PROVE Typed'
  BY <1>20 DEF MainLoop, Go
<1>21. ASSUME MainLock PROVE Typed'
  BY <1>21 DEF MainLock, Go, IterStartSafe, ListHead
<1>22. ASSUME MainNext PROVE Typed'
  BY <1>22 DEF MainNext, IterNext, HasNext
<1>23. ASSUME MainEnd PROVE Typed'
  BY <1>23 DEF MainEnd, Go, HasNext, IterStopSafe
<1>24. ASSUME MainPrint PROVE Typed'
  BY <1>24 DEF MainPrint, Go
<1>25. ASSUME MainExit PROVE Typed'
  BY <1>25 DEF MainExit, Go
<1>26. ASSUME Interrupt PROVE Typed'
  BY <1>26 DEF Interrupt
<1>27. CASE UNCHANGED vars
  BY <1>27 DEF vars
<1> QED
  BY <1>1, <1>2, <1>3, <1>4, <1>5, <1>6, <1>7, <1>8, <1>9, <1>10, <1>11,
     <1>12, <1>13, <1>14, <1>15, <1>16, <1>17, <1>18, <1>19, <1>20, <1>21,
     <1>22, <1>23, <1>24, <1>25, <1>26, <1>27
     DEF Next, FinderStep, WorkerStep, MainStep

-----------------------------------------------------------------------------
(* Mutual exclusion of the loops over the list.                              *)

LEMMA MutexInit == Init => IteratorHoldsMutex
BY SwarmAssumption DEF Init, IteratorHoldsMutex, Threads, Scanning

LEMMA MutexNext == TypeOK /\ IteratorHoldsMutex /\ [Next]_vars => IteratorHoldsMutex'
<1> SUFFICES ASSUME TypeOK, IteratorHoldsMutex, [Next]_vars PROVE IteratorHoldsMutex'
  OBVIOUS
<1> USE SwarmAssumption DEF TypeOK, IteratorHoldsMutex, Threads, Scanning, FinderPC, WorkerPC,
                            MainPC
<1>1. ASSUME NEW f \in Finders, NEW ip \in IPs, FindLock(f, ip) PROVE IteratorHoldsMutex'
  BY <1>1 DEF FindLock, Go, IterStartSafe
<1>2. ASSUME NEW f \in Finders, FindMatch(f) PROVE IteratorHoldsMutex'
  BY <1>2 DEF FindMatch, Go, IterStopSafe
<1>3. ASSUME NEW f \in Finders, FindNext(f) PROVE IteratorHoldsMutex'
  BY <1>3 DEF FindNext
<1>4. ASSUME NEW f \in Finders, FindEnd(f) PROVE IteratorHoldsMutex'
  BY <1>4 DEF FindEnd, Go, IterStopSafe
<1>5. ASSUME NEW f \in Finders, FindAppend(f) PROVE IteratorHoldsMutex'
  BY <1>5 DEF FindAppend, Go
<1>6. ASSUME NEW w \in Workers, WorkerLock(w) PROVE IteratorHoldsMutex'
  BY <1>6 DEF WorkerLock, Go, IterStartSafe
<1>7. ASSUME NEW w \in Workers, WorkerSelect(w) PROVE IteratorHoldsMutex'
  BY <1>7 DEF WorkerSelect, Go, IterStopSafe
<1>8. ASSUME NEW w \in Workers, WorkerNext(w) PROVE IteratorHoldsMutex'
  BY <1>8 DEF WorkerNext
<1>9. ASSUME NEW w \in Workers, WorkerNone(w) PROVE IteratorHoldsMutex'
  BY <1>9 DEF WorkerNone, Go, IterStopSafe
<1>10. ASSUME NEW w \in Workers, WorkerClaim(w) PROVE IteratorHoldsMutex'
  BY <1>10 DEF WorkerClaim, Go
<1>11. ASSUME NEW w \in Workers, SocketOpen(w) PROVE IteratorHoldsMutex'
  BY <1>11 DEF SocketOpen, Go
<1>12. ASSUME NEW w \in Workers, SocketFail(w) PROVE IteratorHoldsMutex'
  BY <1>12 DEF SocketFail, Go
<1>13. ASSUME NEW w \in Workers, ConnectOk(w) PROVE IteratorHoldsMutex'
  BY <1>13 DEF ConnectOk, Go
<1>14. ASSUME NEW w \in Workers, ConnectFail(w) PROVE IteratorHoldsMutex'
  BY <1>14 DEF ConnectFail, Go
<1>15. ASSUME NEW w \in Workers, HandshakeGood(w) PROVE IteratorHoldsMutex'
  BY <1>15 DEF HandshakeGood, Go
<1>16. ASSUME NEW w \in Workers, HandshakeBad(w) PROVE IteratorHoldsMutex'
  BY <1>16 DEF HandshakeBad, Go
<1>17. ASSUME NEW w \in Workers, AvailLock(w) PROVE IteratorHoldsMutex'
  BY <1>17 DEF AvailLock, Go, IterStartSafe
<1>18. ASSUME NEW w \in Workers, AvailNext(w) PROVE IteratorHoldsMutex'
  BY <1>18 DEF AvailNext
<1>19. ASSUME NEW w \in Workers, AvailEnd(w) PROVE IteratorHoldsMutex'
  BY <1>19 DEF AvailEnd, Go, IterStopSafe
<1>20. ASSUME MainLoop PROVE IteratorHoldsMutex'
  BY <1>20 DEF MainLoop, Go
<1>21. ASSUME MainLock PROVE IteratorHoldsMutex'
  BY <1>21 DEF MainLock, Go, IterStartSafe
<1>22. ASSUME MainNext PROVE IteratorHoldsMutex'
  BY <1>22 DEF MainNext
<1>23. ASSUME MainEnd PROVE IteratorHoldsMutex'
  BY <1>23 DEF MainEnd, Go, IterStopSafe
<1>24. ASSUME MainPrint PROVE IteratorHoldsMutex'
  BY <1>24 DEF MainPrint, Go
<1>25. ASSUME MainExit PROVE IteratorHoldsMutex'
  BY <1>25 DEF MainExit, Go
<1>26. ASSUME Interrupt PROVE IteratorHoldsMutex'
  BY <1>26 DEF Interrupt
<1>27. CASE UNCHANGED vars
  BY <1>27 DEF vars
<1> QED
  BY <1>1, <1>2, <1>3, <1>4, <1>5, <1>6, <1>7, <1>8, <1>9, <1>10, <1>11,
     <1>12, <1>13, <1>14, <1>15, <1>16, <1>17, <1>18, <1>19, <1>20, <1>21,
     <1>22, <1>23, <1>24, <1>25, <1>26, <1>27
     DEF Next, FinderStep, WorkerStep, MainStep

-----------------------------------------------------------------------------
(* The pass of a peer thread and the mark it leaves.  Both rest on the       *)
(* mutex, which keeps the list and the cursor still during a pass, and on    *)
(* the peers being listed, which keeps a write from missing its peer.        *)

Inv == Typed /\ IteratorHoldsMutex /\ ScanMissesNoNew /\ ClaimSticks

\* No step makes a listed peer NEW that was not.
LEMMA StatusNeverRenewed ==
    ASSUME Typed, [Next]_vars
    PROVE  /\ Len(peers) <= Len(peers')
           /\ \A i \in 1..Len(peers) :
                  peers'[i] = peers[i] /\ (status'[i] = "NEW" => status[i] = "NEW")
<1>1. ASSUME NEW f \in Finders, FindAppend(f)
      PROVE  /\ Len(peers) <= Len(peers')
             /\ \A i \in 1..Len(peers) : peers'[i] = peers[i] /\ status'[i] = status[i]
  BY <1>1, AppendFacts DEF Typed, TypeOK
<1>2. ASSUME NEW w \in Workers, NEW s \in {"IN_USE", "BAD"},
             pc[w] \in Contacting \cup {"w_claim"}, SetStatus(w, s)
      PROVE  \A i \in 1..Len(peers) : status'[i] = "NEW" => status[i] = "NEW"
  BY <1>2, SetStatusFacts DEF Typed, TypeOK, SelectedListed, Status
<1>3. CASE \E w \in Workers : WorkerClaim(w) \/ SocketFail(w) \/ ConnectFail(w) \/ HandshakeBad(w)
  <2>1. PICK w \in Workers : WorkerClaim(w) \/ SocketFail(w) \/ ConnectFail(w) \/ HandshakeBad(w)
    BY <1>3
  <2>2. /\ pc[w] \in Contacting \cup {"w_claim"}
        /\ \E s \in {"IN_USE", "BAD"} : SetStatus(w, s)
        /\ peers' = peers
    BY <2>1 DEF WorkerClaim, SocketFail, ConnectFail, HandshakeBad, Go, Contacting
  <2> QED
    BY <1>2, <2>2 DEF Typed, TypeOK
<1>4. CASE UNCHANGED <<peers, status>>
  BY <1>4 DEF Typed, TypeOK
<1>5. \/ \E f \in Finders : FindAppend(f)
      \/ \E w \in Workers : WorkerClaim(w) \/ SocketFail(w) \/ ConnectFail(w) \/ HandshakeBad(w)
      \/ UNCHANGED <<peers, status>>
  BY DEF Next, FinderStep, WorkerStep, MainStep, vars, FindLock, FindMatch, FindNext, FindEnd,
         WorkerLock, WorkerSelect, WorkerNext, WorkerNone, SocketOpen, ConnectOk,
         HandshakeGood, AvailLock, AvailNext, AvailEnd, MainLoop, MainLock, MainNext, MainEnd,
         MainPrint, MainExit, Interrupt
<1> QED
  BY <1>1, <1>3, <1>4, <1>5

LEMMA InvInit == Init => Inv
BY TypedInit, MutexInit DEF Inv, Init, ScanMissesNoNew, ClaimSticks, Contacting, Threads

\* A mark stays: whoever is in contact with a peer marked it, and no step since
\* has made it NEW.
LEMMA ClaimNext == ASSUME Inv, [Next]_vars PROVE ClaimSticks'
<1> SUFFICES ASSUME NEW w \in Workers, pc'[w] \in Contacting PROVE status'[sel'[w]] # "NEW"
  BY DEF ClaimSticks
<1>1. WorkerClaim(w) \/ (pc[w] \in Contacting /\ sel'[w] = sel[w])
  <2> USE SwarmAssumption DEF Inv, Typed, TypeOK, Threads, Contacting, Go
  <2>1. CASE \E f \in Finders : FinderStep(f)
    BY <2>1 DEF FinderStep, FindLock, FindMatch, FindNext, FindEnd, FindAppend
  <2>2. CASE MainStep \/ Interrupt
    BY <2>2 DEF MainStep, MainLoop, MainLock, MainNext, MainEnd, MainPrint, MainExit, Interrupt
  <2>3. ASSUME NEW v \in Workers, WorkerStep(v)
        PROVE  WorkerClaim(w) \/ (pc[w] \in Contacting /\ sel'[w] = sel[w])
    <3>1. CASE v = w
      BY <2>3, <3>1 DEF WorkerStep, WorkerLock, WorkerSelect, WorkerNext, WorkerNone,
             WorkerClaim, SocketOpen, SocketFail, ConnectOk, ConnectFail,
             HandshakeGood, HandshakeBad, AvailLock, AvailNext, AvailEnd
    <3>2. CASE v # w
      BY <2>3, <3>2 DEF WorkerStep, WorkerLock, WorkerSelect, WorkerNext, WorkerNone,
             WorkerClaim, SocketOpen, SocketFail, ConnectOk, ConnectFail,
             HandshakeGood, HandshakeBad, AvailLock, AvailNext, AvailEnd
    <3> QED
      BY <3>1, <3>2
  <2>4. CASE UNCHANGED vars
    BY <2>4 DEF vars
  <2> QED
    BY <2>1, <2>2, <2>3, <2>4 DEF Next
<1>2. CASE WorkerClaim(w)
  <2>1. sel[w] \in 1..Len(peers) /\ sel' = sel
    BY <1>2 DEF WorkerClaim, Go, Inv, Typed, SelectedListed
  <2>2. status'[sel[w]] = "IN_USE"
    BY <1>2, <2>1, SetStatusFacts DEF WorkerClaim, Inv, Typed, TypeOK, Status
  <2> QED
    BY <2>1, <2>2
<1>3. CASE pc[w] \in Contacting /\ sel'[w] = sel[w]
  <2>1. sel[w] \in 1..Len(peers) /\ status[sel[w]] # "NEW"
    BY <1>3 DEF Inv, Typed, SelectedListed, ClaimSticks
  <2> QED
    BY <1>3, <2>1, StatusNeverRenewed DEF Inv
<1> QED
  BY <1>1, <1>2, <1>3

\* A pass goes on over a list that only its own thread moves the cursor of.
LEMMA ScanNext == ASSUME Inv, [Next]_vars PROVE ScanMissesNoNew'
<1> SUFFICES ASSUME NEW w \in Workers, pc'[w] = "w_scan", NEW i \in Visited'
             PROVE  status'[i] # "NEW"
  BY DEF ScanMissesNoNew
<1>1. Typed /\ w \in Threads /\ (pc[w] = "w_scan" => mutex = w)
  BY DEF Inv, IteratorHoldsMutex, Threads, Scanning
<1>2. \/ WorkerLock(w)
      \/ WorkerNext(w)
      \/ pc[w] = "w_scan" /\ curr' = curr /\ peers' = peers
  <2>1. CASE pc[w] = "w_scan"
    <3>1. mutex = w
      BY <1>1, <2>1
    <3>2. \A t \in Threads \ {w} : pc[t] \notin Scanning
      BY <3>1 DEF Inv, IteratorHoldsMutex
    <3> QED
      BY SwarmAssumption, <2>1, <3>1, <3>2 DEF Inv, Typed, TypeOK, Threads, Scanning,
             Next, FinderStep, WorkerStep, MainStep, vars, Go, IterStartSafe,
             FindLock, FindMatch, FindNext, FindEnd, FindAppend, WorkerLock,
             WorkerSelect, WorkerNext, WorkerNone, WorkerClaim, SocketOpen,
             SocketFail, ConnectOk, ConnectFail, HandshakeGood, HandshakeBad,
             AvailLock, AvailNext, AvailEnd, MainLoop, MainLock, MainNext, MainEnd,
             MainPrint, MainExit, Interrupt
  <2>2. CASE pc[w] # "w_scan"
    BY SwarmAssumption, <2>2 DEF Inv, Typed, TypeOK, Threads, Next, FinderStep,
           WorkerStep, MainStep, vars, Go, FindLock, FindMatch, FindNext, FindEnd,
           FindAppend, WorkerLock, WorkerSelect, WorkerNext, WorkerNone, WorkerClaim,
           SocketOpen, SocketFail, ConnectOk, ConnectFail, HandshakeGood,
           HandshakeBad, AvailLock, AvailNext, AvailEnd, MainLoop, MainLock,
           MainNext, MainEnd, MainPrint, MainExit, Interrupt
  <2> QED
    BY <2>1, <2>2
<1>3. CASE WorkerLock(w)
  <2>1. Visited' = {}
    BY <1>1, <1>3 DEF WorkerLock, IterStartSafe, ListHead, Visited, Typed, TypeOK
  <2> QED
    BY <2>1
<1>4. CASE WorkerNext(w)
  <2>1. \A j \in Visited : status[j] # "NEW"
    BY <1>4 DEF WorkerNext, Inv, ScanMissesNoNew
  <2>2. Visited' \subseteq Visited \cup {curr}
    BY <1>1, <1>4 DEF WorkerNext, HasNext, IterNext, Visited, Typed, TypeOK
  <2> QED
    BY <1>4, <2>1, <2>2 DEF WorkerNext
<1>5. CASE pc[w] = "w_scan" /\ curr' = curr /\ peers' = peers
  <2>1. Visited' = Visited /\ Visited \subseteq 1..Len(peers)
    BY <1>1, <1>5 DEF Visited, Typed, TypeOK
  <2>2. status[i] # "NEW"
    BY <1>5, <2>1 DEF Inv, ScanMissesNoNew
  <2> QED
    BY <1>1, <2>1, <2>2, StatusNeverRenewed
<1> QED
  BY <1>2, <1>3, <1>4, <1>5

LEMMA InvNext == Inv /\ [Next]_vars => Inv'
BY TypedNext, MutexNext, ScanNext, ClaimNext DEF Inv, Typed

-----------------------------------------------------------------------------
(* The theorems.                                                             *)

\* The invariant holds throughout.
THEOREM Invariance == Spec => []Inv
BY InvInit, InvNext, PTL DEF Spec

\* Type correctness of the shared list and the threads.
THEOREM TypeCorrect == Spec => []TypeOK
<1>1. Inv => TypeOK
  BY DEF Inv, Typed
<1> QED
  BY Invariance, <1>1, PTL

\* At most one thread iterates over the list of peers, and it is the one that
\* holds the mutex (list.c:172-205): the shared cursor serves one loop at a time.
THEOREM IterationExclusive == Spec => []IteratorHoldsMutex
<1>1. Inv => IteratorHoldsMutex
  BY DEF Inv
<1> QED
  BY Invariance, <1>1, PTL

\* peer_thread_routine dereferences only pointers to listed peers.
THEOREM SelectionListed == Spec => []SelectedListed
<1>1. Inv => SelectedListed
  BY DEF Inv, Typed
<1> QED
  BY Invariance, <1>1, PTL

\* A pass of peer_thread_routine leaves no NEW peer behind it.
THEOREM ScanComplete == Spec => []ScanMissesNoNew
<1>1. Inv => ScanMissesNoNew
  BY DEF Inv
<1> QED
  BY Invariance, <1>1, PTL

\* A peer that some thread is in contact with can be selected by no pass.
THEOREM ClaimsStick == Spec => []ClaimSticks
<1>1. Inv => ClaimSticks
  BY DEF Inv
<1> QED
  BY Invariance, <1>1, PTL

\* The list of peers only grows, in place, and no peer becomes NEW again.
THEOREM GrowsOnly == Spec => ListGrowsOnly
<1>1. ASSUME Inv, [Next]_vars
      PROVE  [/\ Len(peers) <= Len(peers')
              /\ \A i \in DOMAIN peers :
                     /\ peers'[i] = peers[i]
                     /\ status'[i] = "NEW" => status[i] = "NEW"]_vars
  BY <1>1, StatusNeverRenewed DEF Inv, Typed, TypeOK
<1> QED
  BY Invariance, <1>1, PTL DEF Spec, ListGrowsOnly
-----------------------------------------------------------------------------
(* main's count.  The counter is cleared before main takes the mutex, so the *)
(* bound at the start of a pass needs its value at m_lock.                   *)

CountInv == MonitorCount /\ (pc[Main] = "m_lock" => unchecked = 0)

\* The peers a pass has gone past that still are NEW.
SeenNew == {i \in Visited : status[i] = "NEW"}

LEMMA VisitedFacts ==
    ASSUME TypeOK
    PROVE  /\ IsFiniteSet(Visited) /\ IsFiniteSet(SeenNew)
           /\ Cardinality(SeenNew) \in Nat /\ Cardinality(Visited) \in Nat
           /\ curr = 0 => Visited = 1..Len(peers) /\ Cardinality(Visited) = Len(peers)
           /\ curr # 0 => Visited = 1..(curr - 1) /\ Cardinality(Visited) = curr - 1
<1>1. Len(peers) \in Nat /\ curr \in Nat
  BY DEF TypeOK
<1>2. /\ IsFiniteSet(Visited) /\ Cardinality(Visited) \in Nat
      /\ curr = 0 => Cardinality(Visited) = Len(peers)
      /\ curr # 0 => Cardinality(Visited) = curr - 1
  <2>1. \A n \in Nat : IsFiniteSet(1..n) /\ Cardinality(1..n) = n
    BY FS_Interval
  <2>2. CASE curr = 0
    BY <1>1, <2>1, <2>2 DEF Visited
  <2>3. CASE curr # 0
    <3>1. Visited = 1..(curr - 1) /\ curr - 1 \in Nat
      BY <1>1, <2>3 DEF Visited
    <3> QED
      BY <2>1, <2>3, <3>1
  <2> QED
    BY <2>2, <2>3
<1>3. IsFiniteSet(SeenNew) /\ Cardinality(SeenNew) \in Nat
  BY <1>2, FS_Subset, FS_CardinalityType DEF SeenNew
<1> QED
  BY <1>2, <1>3 DEF Visited

\* What becomes of main's place in its loop.
LEMMA MainMoves ==
    ASSUME Inv, [Next]_vars
    PROVE  \/ MainLoop \/ MainLock \/ MainNext \/ MainEnd
           \/ /\ unchecked' = unchecked
              /\ pc'[Main] = pc[Main] \/ pc'[Main] \in {"m_top", "m_done"}
              /\ pc[Main] = "m_scan" => curr' = curr /\ peers' = peers
<1>1. /\ Main \in Threads /\ (pc[Main] = "m_scan" => mutex = Main)
      /\ pc[Main] = "m_scan" => \A t \in Threads \ {Main} : pc[t] \notin Scanning
  BY DEF Inv, IteratorHoldsMutex, Threads, Scanning
<1> USE SwarmAssumption, <1>1 DEF Inv, Typed, TypeOK, Threads, Scanning, Go, IterStartSafe
<1>2. CASE \E f \in Finders : FinderStep(f)
  BY <1>2 DEF FinderStep, FindLock, FindMatch, FindNext, FindEnd, FindAppend
<1>3. CASE \E w \in Workers : WorkerStep(w)
  BY <1>3 DEF WorkerStep, WorkerLock, WorkerSelect, WorkerNext, WorkerNone, WorkerClaim,
         SocketOpen, SocketFail, ConnectOk, ConnectFail, HandshakeGood, HandshakeBad,
         AvailLock, AvailNext, AvailEnd
<1>4. CASE MainPrint \/ MainExit \/ Interrupt
  BY <1>4 DEF MainPrint, MainExit, Interrupt
<1>5. CASE UNCHANGED vars
  BY <1>5 DEF vars
<1> QED
  BY <1>2, <1>3, <1>4, <1>5 DEF Next, MainStep

LEMMA CountNext == Inv /\ CountInv /\ [Next]_vars => CountInv'
<1> SUFFICES ASSUME Inv, CountInv, [Next]_vars PROVE CountInv'
  OBVIOUS
<1>0. Typed' /\ TypeOK' /\ TypeOK
  BY TypedNext DEF Inv, Typed
<1>1. Len(peers) \in Nat /\ Len(peers') \in Nat /\ Len(peers) <= Len(peers') /\ unchecked \in Nat
  BY <1>0, StatusNeverRenewed DEF Inv, TypeOK
<1>2. CASE MainLoop
  BY <1>0, <1>2, SwarmAssumption DEF MainLoop, Go, CountInv, MonitorCount, TypeOK, Threads
<1>3. CASE MainLock
  <2>1. pc'[Main] = "m_scan" /\ unchecked' = 0 /\ Visited' = {}
    BY <1>0, <1>3 DEF MainLock, Go, IterStartSafe, ListHead, Visited, CountInv, TypeOK, Threads
  <2>2. Cardinality({}) = 0
    BY FS_EmptySet
  <2>3. SeenNew' = {}
    BY <2>1 DEF SeenNew
  <2> QED
    BY <2>1, <2>2, <2>3 DEF CountInv, MonitorCount, SeenNew
<1>4. CASE MainNext
  <2>1. /\ pc[Main] = "m_scan" /\ pc' = pc /\ curr \in 1..Len(peers)
        /\ peers' = peers /\ status' = status
        /\ unchecked' = IF status[curr] = "NEW" THEN unchecked + 1 ELSE unchecked
    BY <1>0, <1>4 DEF MainNext, HasNext, TypeOK
  <2>2. Visited' = Visited \cup {curr} /\ curr \notin Visited
    BY <1>0, <1>4, <2>1 DEF MainNext, IterNext, Visited, TypeOK
  <2>3. Cardinality(SeenNew) <= unchecked /\ unchecked <= Cardinality(Visited)
    BY <2>1 DEF CountInv, MonitorCount, SeenNew
  <2>4. Cardinality(Visited') = Cardinality(Visited) + 1
    BY <1>0, <2>2, FS_AddElement, VisitedFacts
  <2>5. IF status[curr] = "NEW" THEN SeenNew' = SeenNew \cup {curr} /\ curr \notin SeenNew
        ELSE SeenNew' = SeenNew
    BY <2>1, <2>2 DEF SeenNew
  <2>6. IF status[curr] = "NEW" THEN Cardinality(SeenNew') = Cardinality(SeenNew) + 1
        ELSE Cardinality(SeenNew') = Cardinality(SeenNew)
    BY <1>0, <2>5, FS_AddElement, VisitedFacts
  <2>7. Cardinality(SeenNew') <= unchecked' /\ unchecked' <= Cardinality(Visited')
    BY <1>0, <1>1, <2>1, <2>3, <2>4, <2>6, VisitedFacts
  <2> QED
    BY <2>1, <2>7 DEF CountInv, MonitorCount, SeenNew
<1>5. CASE MainEnd
  <2>1. /\ pc[Main] = "m_scan" /\ curr = 0 /\ pc'[Main] = "m_print"
        /\ unchecked' = unchecked /\ peers' = peers
    BY <1>0, <1>5 DEF MainEnd, HasNext, Go, TypeOK, Threads
  <2>2. unchecked <= Len(peers)
    BY <1>0, <2>1, VisitedFacts DEF CountInv, MonitorCount
  <2> QED
    BY <2>1, <2>2 DEF CountInv, MonitorCount
<1>6. CASE /\ unchecked' = unchecked
           /\ pc'[Main] = pc[Main] \/ pc'[Main] \in {"m_top", "m_done"}
           /\ pc[Main] = "m_scan" => curr' = curr /\ peers' = peers
  <2>1. CASE pc'[Main] = "m_scan"
    <3>1. pc[Main] = "m_scan" /\ curr' = curr /\ peers' = peers
      BY <1>6, <2>1
    <3>2. Visited' = Visited /\ Visited \subseteq 1..Len(peers)
      BY <1>0, <3>1 DEF Visited, TypeOK
    <3>3. SeenNew' \subseteq SeenNew
      BY <3>2, StatusNeverRenewed DEF SeenNew, Inv
    <3>4. Cardinality(SeenNew') <= Cardinality(SeenNew) /\ Cardinality(SeenNew') \in Nat
      BY <1>0, <3>3, VisitedFacts, FS_Subset, FS_CardinalityType
    <3>5. Cardinality(SeenNew) <= unchecked /\ unchecked <= Cardinality(Visited)
      BY <3>1 DEF CountInv, MonitorCount, SeenNew
    <3>6. Cardinality(SeenNew') <= unchecked'
      BY <1>0, <1>1, <1>6, <3>4, <3>5, VisitedFacts
    <3> QED
      BY <1>6, <2>1, <3>2, <3>5, <3>6 DEF CountInv, MonitorCount, SeenNew
  <2>2. CASE pc'[Main] # "m_scan"
    BY <1>1, <1>6, <2>2 DEF CountInv, MonitorCount
  <2> QED
    BY <2>1, <2>2
<1> QED
  BY <1>2, <1>3, <1>4, <1>5, <1>6, MainMoves

\* What main prints (main.c:131-140): the counter covers the peers of the pass
\* that still are NEW and is never more than the list is long, although the
\* statuses change and the list grows behind it.
THEOREM MonitorBounds == Spec => []MonitorCount
<1>1. Init => CountInv
  BY SwarmAssumption DEF Init, CountInv, MonitorCount, Threads
<1>2. CountInv => MonitorCount
  BY DEF CountInv
<1> QED
  BY <1>1, <1>2, Invariance, CountNext, PTL DEF Spec
==============================================================================
