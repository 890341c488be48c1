--------------------------- MODULE UdpTrackerProofs ---------------------------
(*****************************************************************************)
(* Proofs about UdpTracker, for any poll frequency, any ids, peers and sizes *)
(* of error replies, and any number of requests, losses, duplicates and      *)
(* errors.                                                                   *)
(*****************************************************************************)
EXTENDS UdpTracker, FiniteSetTheorems, TLAPS

PCs == {"off", "loop", "sleep", "wait_http"} \cup Waiting \cup Ended

Requests  == [kind : {"connect", "announce"}, txn : 1..MaxRequests, cid : Ids \cup {0, Junk}]
-----------------------------------------------------------------------------
(* Types.                                                                    *)

LEMMA TypeInit == Init => TypeOK
<1> SUFFICES ASSUME Init PROVE TypeOK
  OBVIOUS
<1>1. {sock, stopped, cancel, undef, crossed} \subseteq BOOLEAN
  BY Zenon DEF Init
<1> QED
  BY <1>1, UdpTrackerAssumption DEF Init, TypeOK

\* A tick stays below the poll frequency.
LEMMA TickType == ASSUME TypeOK PROVE NextTick \in 0..(PollFreq - 1)
BY UdpTrackerAssumption DEF TypeOK, NextTick

\* The size of a reply that lists ps, for the peers are finitely many.
LEMMA ReplySize ==
    ASSUME NEW ps \in SUBSET Peers
    PROVE  20 + 6 * Cardinality(ps) \in Nat
<1>1. Cardinality(ps) \in Nat
  BY UdpTrackerAssumption, FS_Subset, FS_CardinalityType
<1> QED
  BY <1>1

LEMMA TypeNext == TypeOK /\ [Next]_vars => TypeOK'
<1> SUFFICES ASSUME TypeOK, [Next]_vars PROVE TypeOK'
  OBVIOUS
<1> USE UdpTrackerAssumption DEF TypeOK, svars
<1>1. ASSUME NEW from, NEW to \in PCs, Move(from, to) PROVE TypeOK'
  BY <1>1 DEF Move, Go, PCs
<1>2. CASE Start
  BY <1>2 DEF Start, Go
<1>3. CASE PollConnect
  BY <1>3 DEF PollConnect, Poll, Go, Send, ConnectRequest, Waiting
<1>4. CASE PollAnnounce
  BY <1>4 DEF PollAnnounce, Poll, Go, Send, AnnounceRequest, Waiting
<1>5. CASE Sleep
  BY <1>5, TickType DEF Sleep, Go
<1>6. ASSUME NEW d \in resps, RecvConnect(d) PROVE TypeOK'
  <2>1. PICK c \in ConnectResp(d) : IF c.match THEN Announce(c.cid) ELSE Mismatch
    BY <1>6 DEF RecvConnect
  <2>2. c.cid \in Ids \cup {Junk}
    BY <2>1 DEF ConnectResp
  <2>3. pc' \in PCs /\ cid' \in Ids \cup {0, Junk} /\ txn' \in 0..MaxRequests /\ reqs' \subseteq Requests
    BY <2>1, <2>2 DEF Announce, Mismatch, Send, AnnounceRequest, PCs, Waiting, Requests
  <2> QED
    BY <1>6, <2>3 DEF RecvConnect, ConnectNoted, TakeResp, PCs, Requests
<1>7. ASSUME NEW d \in resps, RecvAnnounce(d) PROVE TypeOK'
  <2>1. pc' \in PCs /\ found' \subseteq Peers \cup {Junk}
    BY <1>7 DEF RecvAnnounce, AnnouncePeers, PeersOf, PCs, Ended
  <2> QED
    BY <1>7, <2>1 DEF RecvAnnounce, TakeResp, PCs
<1>8. ASSUME NEW force \in Forces, Stop(force) PROVE TypeOK'
  BY <1>8 DEF Stop
<1>9. ASSUME NEW r \in reqs, ServeConnect(r) PROVE TypeOK'
  BY <1>9 DEF ServeConnect, Reply, TakeReq, tvars
<1>10. ASSUME NEW r \in reqs, ServeAnnounce(r) PROVE TypeOK'
  BY <1>10, ReplySize DEF ServeAnnounce, Reply, TakeReq, tvars
<1>11. ASSUME NEW r \in reqs, ServeError(r) PROVE TypeOK'
  BY <1>11 DEF ServeError, Reply, TakeReq, tvars
<1>12. CASE Lose
  BY <1>12 DEF Lose, tvars
<1>13. CASE UNCHANGED vars
  BY <1>13 DEF vars, tvars
<1> QED
  BY <1>1, <1>2, <1>3, <1>4, <1>5, <1>6, <1>7, <1>8, <1>9, <1>10, <1>11, <1>12, <1>13
     DEF Next, ThreadStep, ServerStep, PollSocketFail, PollUnknown, PollHttp, NoPoll, Leave,
         HttpDone, Cancelled, PCs, Ended

\* The thread, the datagrams and the server's counters keep their types.
THEOREM TypeCorrect == Spec => []TypeOK
BY TypeInit, TypeNext, PTL DEF Spec

-----------------------------------------------------------------------------
(* What blocks the thread.  The invariant is inductive: a wait begins with a *)
(* request, the server turns a request into a reply, and a reply that is     *)
(* taken ends the wait or is followed by the next request.                   *)

LEMMA BlockedNext == TypeOK /\ BlockedOnlyByLoss /\ [Next]_vars => BlockedOnlyByLoss'
<1> SUFFICES ASSUME TypeOK, BlockedOnlyByLoss, [Next]_vars PROVE BlockedOnlyByLoss'
  OBVIOUS
<1> USE DEF BlockedOnlyByLoss, Blocked, Waiting, svars
<1>1. ASSUME NEW from, NEW to \in PCs \ Waiting, Move(from, to) PROVE BlockedOnlyByLoss'
  BY <1>1 DEF Move, Go
<1>2. CASE Start
  BY <1>2 DEF Start, Go
<1>3. CASE PollConnect
  BY <1>3 DEF PollConnect, Send
<1>4. CASE PollAnnounce
  BY <1>4 DEF PollAnnounce, Send
<1>5. CASE Sleep
  BY <1>5 DEF Sleep, Go
<1>6. ASSUME NEW d \in resps, RecvConnect(d) PROVE BlockedOnlyByLoss'
  BY <1>6 DEF RecvConnect, Announce, Mismatch, Send
<1>7. ASSUME NEW d \in resps, RecvAnnounce(d) PROVE BlockedOnlyByLoss'
  BY <1>7 DEF RecvAnnounce
<1>8. ASSUME NEW force \in Forces, Stop(force) PROVE BlockedOnlyByLoss'
  BY <1>8 DEF Stop
<1>9. ASSUME NEW r \in reqs, NEW d, Reply(r, d) PROVE BlockedOnlyByLoss'
  BY <1>9 DEF Reply
<1>10. CASE Lose
  BY <1>10 DEF Lose, TypeOK
<1>11. CASE UNCHANGED vars
  BY <1>11 DEF vars, tvars
<1> QED
  BY <1>1, <1>2, <1>3, <1>4, <1>5, <1>6, <1>7, <1>8, <1>9, <1>10, <1>11
     DEF Next, ThreadStep, ServerStep, PollSocketFail, PollUnknown, PollHttp, NoPoll, Leave,
         HttpDone, Cancelled, PCs, Ended, ServeConnect, ServeAnnounce, ServeError

\* recvfrom has no timeout (udp_protocol.c:29, 66), yet only a datagram that was
\* lost can leave the thread waiting with nothing on the way, however many
\* requests, duplicates and errors there are.
THEOREM OnlyLossBlocks == Spec => []BlockedOnlyByLoss
<1>1. Init => BlockedOnlyByLoss
  BY DEF Init, BlockedOnlyByLoss, Blocked, Waiting
<1> QED
  BY <1>1, BlockedNext, TypeCorrect, PTL DEF Spec

-----------------------------------------------------------------------------
(* Requests and replies in step.  As long as nothing is duplicated, there is *)
(* at most one datagram on the way, it belongs to the last request, and      *)
(* there is none while the thread does not wait.  A thread that has ended    *)
(* takes no reply any more.                                                  *)

OneOnTheWay ==
    dups = 0 /\ pc \notin Ended =>
        /\ pc \notin Waiting => reqs = {} /\ resps = {}
        /\ reqs = {} \/ resps = {}
        /\ \A r, q \in reqs : r = q
        /\ \A d, e \in resps : d = e
        /\ \A r \in reqs : r.txn = txn
        /\ \A d \in resps : d.txn = txn

StepInv == OneOnTheWay /\ InStep

LEMMA StepNext == TypeOK /\ StepInv /\ [Next]_vars => StepInv'
<1> SUFFICES ASSUME TypeOK, StepInv, [Next]_vars PROVE StepInv'
  OBVIOUS
<1> USE DEF StepInv, OneOnTheWay, InStep, Waiting, Ended, svars
<1>0. dups \in Nat /\ MaxDup \in Nat
  BY UdpTrackerAssumption DEF TypeOK
<1>1. ASSUME NEW from \in PCs \ (Waiting \cup Ended), NEW to \in PCs \ Waiting, Move(from, to)
      PROVE  StepInv'
  BY <1>1 DEF Move, Go, PCs
<1>2. ASSUME NEW from, Move(from, "done") PROVE StepInv'
  BY <1>2 DEF Move, Go
<1>3. CASE Start
  BY <1>3 DEF Start, Go
<1>4. CASE PollConnect
  BY <1>4 DEF PollConnect, Poll, Go, Send, ConnectRequest
<1>5. CASE PollAnnounce
  BY <1>5 DEF PollAnnounce, Poll, Go, Send, AnnounceRequest
<1>6. CASE Sleep
  BY <1>6 DEF Sleep, Go
<1>7. ASSUME NEW d \in resps, RecvConnect(d) PROVE StepInv'
  <2>1. CASE dups' = 0
    <3>1. dups = 0 /\ resps' = {} /\ reqs = {} /\ d.txn = txn
      BY <1>0, <1>7, <2>1 DEF RecvConnect, ConnectNoted, TakeResp
    <3>2. ~crossed
      BY <3>1
    <3>3. ~crossed'
      BY <1>7, <3>1, <3>2, Zenon DEF RecvConnect, ConnectNoted
    <3> QED
      BY <1>7, <3>1, <3>3 DEF RecvConnect, Announce, Mismatch, Send, AnnounceRequest
  <2>2. CASE dups' # 0
    BY <1>0, <1>7, <2>2 DEF RecvConnect, ConnectNoted, TakeResp
  <2> QED
    BY <2>1, <2>2
<1>8. ASSUME NEW d \in resps, RecvAnnounce(d) PROVE StepInv'
  <2>1. CASE dups' = 0
    <3>1. dups = 0 /\ resps' = {} /\ reqs' = {} /\ d.txn = txn
      BY <1>0, <1>8, <2>1 DEF RecvAnnounce, TakeResp
    <3>2. ~crossed
      BY <3>1
    <3>3. ~crossed'
      BY <1>8, <3>1, <3>2, Zenon DEF RecvAnnounce
    <3> QED
      BY <1>8, <3>1, <3>3 DEF RecvAnnounce
  <2>2. CASE dups' # 0
    BY <1>0, <1>8, <2>2 DEF RecvAnnounce, TakeResp
  <2> QED
    BY <2>1, <2>2
<1>9. ASSUME NEW force \in Forces, Stop(force) PROVE StepInv'
  BY <1>9 DEF Stop
<1>10. ASSUME NEW r \in reqs, NEW d, d.txn = r.txn, Reply(r, d) PROVE StepInv'
  BY <1>0, <1>10 DEF Reply, TakeReq, tvars
<1>11. CASE Lose
  BY <1>11 DEF Lose, tvars
<1>12. CASE UNCHANGED vars
  BY <1>12 DEF vars, tvars
<1>13. CASE Cancelled
  BY <1>2, <1>13 DEF Cancelled
<1> QED
  BY <1>1, <1>3, <1>4, <1>5, <1>6, <1>7, <1>8, <1>9, <1>10, <1>11, <1>12, <1>13
     DEF Next, ThreadStep, ServerStep, PollSocketFail, PollUnknown, PollHttp, NoPoll, Leave,
         HttpDone, PCs, ServeConnect, ServeAnnounce, ServeError

\* The announce compares no transaction id (tracker.c:63-66); all the same, a
\* reply is taken for the answer to another request only after the network has
\* delivered a datagram twice.
THEOREM RepliesInStep == Spec => []InStep
<1>1. Init => StepInv
  BY DEF Init, StepInv, OneOnTheWay, InStep
<1>2. StepInv => InStep
  BY DEF StepInv
<1> QED
  BY <1>1, <1>2, StepNext, TypeCorrect, PTL DEF Spec

-----------------------------------------------------------------------------
(* Connection ids.  As long as the server has sent no error, the first       *)
(* exchange is a connect that succeeds, so that the socket is open only with *)
(* an id that the server has handed out: before Start nothing is on the way, *)
(* and while the thread waits for its connection nothing but the one connect *)
(* request and its replies.  The thread has one socket, so it connects once. *)

ConnectionKnown ==
    errors = 0 =>
        /\ pc = "off" \/ (pc \notin Ended /\ ~sock) => reqs = {} /\ resps = {}
        /\ pc = "wait_connect" =>
               /\ sock
               /\ \A r \in reqs : r.kind = "connect" /\ r.txn = txn
               /\ \A d \in resps : d.size = ConnectResponseSize /\ d.txn = txn /\ d.cid \in issued
        /\ pc \notin Ended \cup {"off", "wait_connect"} /\ sock => cid \in issued

IdInv == ConnectionKnown /\ AnnouncesIssuedId

LEMMA IdNext == TypeOK /\ IdInv /\ [Next]_vars => IdInv'
<1> SUFFICES ASSUME TypeOK, IdInv, [Next]_vars PROVE IdInv'
  OBVIOUS
<1> USE DEF IdInv, ConnectionKnown, AnnouncesIssuedId, Waiting, Ended, svars
<1>1. ASSUME NEW from \in {"loop", "sleep", "wait_http"}, NEW to \in {"loop", "sleep", "wait_http"},
             Move(from, to)
      PROVE  IdInv'
  BY <1>1 DEF Move, Go
<1>2. ASSUME NEW from, Move(from, "done") PROVE IdInv'
  BY <1>2 DEF Move, Go
<1>3. CASE Start
  BY <1>3 DEF Start, Go
<1>4. CASE PollConnect
  BY <1>4 DEF PollConnect, Poll, Go, Send, ConnectRequest
<1>5. CASE PollAnnounce
  BY <1>5 DEF PollAnnounce, Poll, Go, Send, AnnounceRequest
<1>6. CASE Sleep
  BY <1>6 DEF Sleep, Go
<1>7. ASSUME NEW d \in resps, RecvConnect(d) PROVE IdInv'
  <2> SUFFICES ASSUME errors = 0 PROVE IdInv'
    BY <1>7 DEF RecvConnect, ConnectNoted
  <2>1. d.size = 16 /\ d.txn = txn /\ d.cid \in issued
    BY <1>7 DEF RecvConnect, ConnectResponseSize
  <2>2. Announce(d.cid)
    <3>1. ~(d.size < ConnectResponseSize)
      BY <2>1 DEF ConnectResponseSize
    <3>2. PICK c \in {[match |-> d.txn = txn, cid |-> d.cid]} :
              IF c.match THEN Announce(c.cid) ELSE Mismatch
      BY <1>7, <3>1 DEF RecvConnect, ConnectResp
    <3>3. c = [match |-> d.txn = txn, cid |-> d.cid]
      BY <3>2
    <3>4. c.match = (d.txn = txn) /\ c.cid = d.cid
      BY <3>3, Zenon
    <3> QED
      BY <2>1, <3>2, <3>4, Zenon
  <2> QED
    BY <1>7, <2>1, <2>2 DEF RecvConnect, ConnectNoted, Announce, Send, AnnounceRequest
<1>8. ASSUME NEW d \in resps, RecvAnnounce(d) PROVE IdInv'
  BY <1>8 DEF RecvAnnounce
<1>9. ASSUME NEW force \in Forces, Stop(force) PROVE IdInv'
  BY <1>9 DEF Stop
<1>10. ASSUME NEW r \in reqs, ServeConnect(r) PROVE IdInv'
  BY <1>10 DEF ServeConnect, Reply, TakeReq, tvars, ConnectResponseSize
<1>11. ASSUME NEW r \in reqs, ServeAnnounce(r) PROVE IdInv'
  BY <1>11 DEF ServeAnnounce, Reply, TakeReq, tvars
<1>12. ASSUME NEW r \in reqs, ServeError(r) PROVE IdInv'
  BY <1>12 DEF ServeError, TypeOK
<1>13. CASE Lose
  BY <1>13 DEF Lose, tvars
<1>14. CASE UNCHANGED vars
  BY <1>14 DEF vars, tvars
<1>15. CASE Cancelled \/ Leave
  BY <1>2, <1>15 DEF Cancelled, Leave
<1> QED
  BY <1>1, <1>3, <1>4, <1>5, <1>6, <1>7, <1>8, <1>9, <1>10, <1>11, <1>12, <1>13, <1>14, <1>15
     DEF Next, ThreadStep, ServerStep, PollSocketFail, PollUnknown, PollHttp, NoPoll, HttpDone

\* Every announce carries an id that the server has handed out (tracker.c:41-44)
\* until the server answers with an error, whatever is lost or duplicated.
THEOREM IdsIssued == Spec => []AnnouncesIssuedId
<1>1. Init => IdInv
  BY DEF Init, IdInv, ConnectionKnown, AnnouncesIssuedId, Ended
<1>2. IdInv => AnnouncesIssuedId
  BY DEF IdInv
<1> QED
  BY <1>1, <1>2, IdNext, TypeCorrect, PTL DEF Spec

-----------------------------------------------------------------------------
(* Peers.  A reply on the way lists only what the server has listed.         *)

RepliesListed == errors = 0 => \A d \in resps : d.peers \subseteq listed

FoundInv == RepliesListed /\ FoundListed

LEMMA FoundNext == TypeOK /\ FoundInv /\ [Next]_vars => FoundInv'
<1> SUFFICES ASSUME TypeOK, FoundInv, [Next]_vars PROVE FoundInv'
  OBVIOUS
<1> USE DEF FoundInv, RepliesListed, FoundListed, svars
<1>1. ASSUME NEW from, NEW to, Move(from, to) PROVE FoundInv'
  BY <1>1 DEF Move
<1>2. CASE Start
  BY <1>2 DEF Start
<1>3. CASE PollConnect
  BY <1>3 DEF PollConnect
<1>4. CASE PollAnnounce
  BY <1>4 DEF PollAnnounce
<1>5. CASE Sleep
  BY <1>5 DEF Sleep
<1>6. ASSUME NEW d \in resps, RecvConnect(d) PROVE FoundInv'
  BY <1>6 DEF RecvConnect, ConnectNoted, TakeResp
<1>7. ASSUME NEW d \in resps, RecvAnnounce(d) PROVE FoundInv'
  <2>1. CASE d.size <= AnnounceResponseMinSize
    <3>1. undef'
      BY <1>7, <2>1, Zenon DEF RecvAnnounce
    <3> QED
      BY <1>7, <3>1 DEF RecvAnnounce, TakeResp
  <2>2. CASE ~(d.size <= AnnounceResponseMinSize)
    <3>1. found' = found \/ found' = found \cup d.peers
      BY <1>7, <2>2 DEF RecvAnnounce, AnnouncePeers, PeersOf
    <3>2. undef => undef'
      BY <1>7, Zenon DEF RecvAnnounce
    <3> QED
      BY <1>7, <3>1, <3>2 DEF RecvAnnounce, TakeResp, TypeOK
  <2> QED
    BY <2>1, <2>2
<1>8. ASSUME NEW force \in Forces, Stop(force) PROVE FoundInv'
  BY <1>8 DEF Stop
<1>9. ASSUME NEW r \in reqs, ServeConnect(r) PROVE FoundInv'
  BY <1>9 DEF ServeConnect, Reply, tvars
<1>10. ASSUME NEW r \in reqs, ServeAnnounce(r) PROVE FoundInv'
  BY <1>10 DEF ServeAnnounce, Reply, tvars
<1>11. ASSUME NEW r \in reqs, ServeError(r) PROVE FoundInv'
  BY <1>11 DEF ServeError, TypeOK
<1>12. CASE Lose
  BY <1>12 DEF Lose, tvars
<1>13. CASE UNCHANGED vars
  BY <1>13 DEF vars, tvars
<1> QED
  BY <1>1, <1>2, <1>3, <1>4, <1>5, <1>6, <1>7, <1>8, <1>9, <1>10, <1>11, <1>12, <1>13
     DEF Next, ThreadStep, ServerStep, PollSocketFail, PollUnknown, PollHttp, NoPoll, Leave,
         HttpDone, Cancelled

\* find_fn is called only with peers that the server has listed (tracker.c:66-71),
\* unless the server has sent an error or an unfilled response was walked.
THEOREM FindsListed == Spec => []FoundListed
<1>1. Init => FoundInv
  BY DEF Init, FoundInv, RepliesListed, FoundListed
<1>2. FoundInv => FoundListed
  BY DEF FoundInv
<1> QED
  BY <1>1, <1>2, FoundNext, TypeCorrect, PTL DEF Spec
==============================================================================
