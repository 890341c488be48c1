------------------------------ MODULE UdpTracker ------------------------------
(*****************************************************************************)
(* One tracker thread: tracker_update_routine, which announces every         *)
(* poll_freq seconds until it is stopped, and for a udp:// tracker the       *)
(* connect and announce exchange of tracker_announce_udp over a datagram     *)
(* socket.  Datagrams are lost and duplicated and overtake each other; every *)
(* receive takes the first datagram that is there, and none has a timeout.   *)
(* The tracker server is external: it answers, or answers with an error.     *)
(*****************************************************************************)
EXTENDS Naturals, FiniteSets

CONSTANTS
    Schemes,      \* schemes of tracker URLs: "udp", "http" or another
    PollFreq,     \* t->poll_freq, in ticks of a second
    Forces,       \* values of tracker_stop's parameter `force`
    Ids,          \* connection ids the server hands out
    Junk,         \* an id or a peer made of bytes that stand for neither
    Peers,        \* peers the server knows
    ErrorSizes,   \* sizes, in bytes, of the server's error replies
    MaxRequests,  \* bound: requests the thread sends
    MaxLoss,      \* bound: datagrams lost
    MaxDup,       \* bound: datagrams delivered once more
    MaxErrors     \* bound: errors the server answers without a reason

ASSUME UdpTrackerAssumption ==
    /\ PollFreq \in Nat \ {0}
    /\ Forces \subseteq BOOLEAN
    /\ 0 \notin Ids /\ Junk \notin Ids \cup {0}
    /\ Junk \notin Peers
    /\ IsFiniteSet(Peers)
    /\ ErrorSizes \subseteq Nat
    /\ MaxRequests \in Nat \ {0, 1}    \* a connect and an announce
    /\ MaxLoss \in Nat /\ MaxDup \in Nat /\ MaxErrors \in Nat

VARIABLES
    scheme,     \* scheme of t->url
    pc,         \* where the thread is
    tick,       \* tick % t->poll_freq
    sock,       \* t->sock_fd is a socket, not -1
    cid,        \* t->connection_id: 0 from calloc, an id, or Junk
    txn,        \* transaction id of the last request; rand() never repeats one
    stopped,    \* t->stopped
    cancel,     \* a pthread_cancel is pending
    reqs,       \* datagrams on the way to the server
    resps,      \* datagrams on the way to the socket
    found,      \* peers passed to t->find_fn
    \* History, for the properties.
    issued,     \* connection ids the server has handed out
    listed,     \* peers the server has listed
    errors,     \* error replies sent
    losses, dups,
    undef,      \* a response structure that was never filled in has been used
    crossed     \* a reply to an earlier request has been taken for the answer

tvars == <<scheme, pc, tick, sock, cid, txn, stopped, cancel, found, undef, crossed>>
svars == <<issued, listed, errors>>
vars == <<tvars, svars, reqs, resps, losses, dups>>

ConnectResponseSize == 16
AnnounceResponseMinSize == 20

Waiting == {"wait_connect", "wait_announce"}
Ended   == {"done", "crashed"}

Go(from, to) == pc = from /\ pc' = to

\* Nothing but the place of the thread changes.
Move(from, to) ==
    /\ Go(from, to)
    /\ UNCHANGED <<scheme, tick, sock, cid, txn, stopped, cancel, found, undef, crossed>>
    /\ UNCHANGED <<svars, reqs, resps, losses, dups>>

-----------------------------------------------------------------------------
(* Sending, and receiving with recvfrom.                                     *)

Send(r) ==
    /\ txn < MaxRequests
    /\ txn' = txn + 1
    /\ reqs' = reqs \cup {r}

\* The datagram is gone, or a second copy of it is still on its way.
TakeResp(d) ==
    \/ resps' = resps \ {d} /\ UNCHANGED dups
    \/ dups < MaxDup /\ dups' = dups + 1 /\ UNCHANGED resps

TakeReq(r) ==
    \/ reqs' = reqs \ {r} /\ UNCHANGED dups
    \/ dups < MaxDup /\ dups' = dups + 1 /\ UNCHANGED reqs

ConnectRequest(t) == [kind |-> "connect", txn |-> t, cid |-> 0]

AnnounceRequest(t, id) == [kind |-> "announce", txn |-> t, cid |-> id]

-----------------------------------------------------------------------------
(* tracker_update_routine, tracker_announce and tracker_announce_udp.        *)

Start ==
    /\ Go("off", "loop")
    /\ sock' = FALSE
    /\ UNCHANGED <<scheme, tick, cid, txn, stopped, cancel, found, undef, crossed>>
    /\ UNCHANGED <<svars, reqs, resps, losses, dups>>

Polls == ~stopped /\ tick = 0

Poll(to) == Polls /\ Go("loop", to)

\* create_udp_socket fails: the name does not resolve, or there is no socket.
PollSocketFail == Polls /\ scheme = "udp" /\ ~sock /\ Move("loop", "sleep")

PollConnect ==
    /\ Poll("wait_connect")
    /\ scheme = "udp" /\ ~sock
    /\ sock' = TRUE
    /\ Send(ConnectRequest(txn + 1))
    /\ UNCHANGED <<scheme, tick, cid, stopped, cancel, found, undef, crossed>>
    /\ UNCHANGED <<svars, resps, losses, dups>>

\* The socket is open from an earlier poll, whatever became of its connect.
PollAnnounce ==
    /\ Poll("wait_announce")
    /\ scheme = "udp" /\ sock
    /\ Send(AnnounceRequest(txn + 1, cid))
    /\ UNCHANGED <<scheme, tick, sock, cid, stopped, cancel, found, undef, crossed>>
    /\ UNCHANGED <<svars, resps, losses, dups>>

\* The reply of an HTTP tracker is parsed and dropped.
PollHttp == Polls /\ scheme = "http" /\ Move("loop", "wait_http")

HttpDone == Move("wait_http", "sleep")

PollUnknown == Polls /\ scheme \notin {"udp", "http"} /\ Move("loop", "sleep")

NoPoll == ~stopped /\ tick # 0 /\ Move("loop", "sleep")

\* Mutant: one tick too many in a period.
NextTickLate == (tick + 1) % (PollFreq + 1)

NextTick == (tick + 1) % PollFreq

\* tick++; sleep(1).
Sleep ==
    /\ Go("sleep", "loop")
    /\ tick' = NextTick
    /\ UNCHANGED <<scheme, sock, cid, txn, stopped, cancel, found, undef, crossed>>
    /\ UNCHANGED <<svars, reqs, resps, losses, dups>>

Leave == stopped /\ Move("loop", "done")

-----------------------------------------------------------------------------
(* receive_connect_response and what follows.  A datagram of fewer than 16   *)
(* bytes leaves c_resp as it was on the stack; a longer one is cut off, and  *)
(* its action is not looked at.                                              *)

\* What c_resp may hold: whether its transaction id is the one sent, and its id.
ConnectResp(d) ==
    IF d.size < ConnectResponseSize
    THEN {[match |-> m, cid |-> Junk] : m \in BOOLEAN}
    ELSE {[match |-> d.txn = txn, cid |-> d.cid]}

\* What the datagram d leaves behind in a receive while the thread connects.
ConnectNoted(d) ==
    /\ TakeResp(d)
    /\ undef' = (undef \/ d.size < ConnectResponseSize)
    /\ crossed' = (crossed \/ d.txn # txn)
    /\ UNCHANGED <<scheme, tick, sock, stopped, cancel, found>>
    /\ UNCHANGED <<svars, losses>>

\* return -1: the socket stays open.
Mismatch == pc' = "sleep" /\ UNCHANGED <<cid, txn, reqs>>

\* Mutant: nothing is sent before the reply is waited for.
AnnounceSilent(id) == cid' = id /\ pc' = "wait_announce" /\ UNCHANGED <<txn, reqs>>

\* Mutant: the announce is sent and its reply left for the next poll.
AnnounceAsync(id) == cid' = id /\ pc' = "sleep" /\ Send(AnnounceRequest(txn + 1, id))

\* Mutant: the announce is filled in before the connection id is stored.
AnnounceStale(id) == cid' = id /\ pc' = "wait_announce" /\ Send(AnnounceRequest(txn + 1, cid))

\* The announce that follows a connect response with connection id id.
Announce(id) == cid' = id /\ pc' = "wait_announce" /\ Send(AnnounceRequest(txn + 1, id))

RecvConnect(d) ==
    /\ pc = "wait_connect"
    /\ ConnectNoted(d)
    /\ \E c \in ConnectResp(d) : IF c.match THEN Announce(c.cid) ELSE Mismatch

(* receive_announce_response and the loop over its peers.  The transaction   *)
(* id and the action are not looked at.  peers is assigned only when the     *)
(* datagram holds a peer: otherwise the loop starts from whatever pointer    *)
(* the stack held.                                                           *)

\* Mutant: the loop over the datagram runs one peer too far.
PeersOneMore(d) == d.peers \cup {Junk}

PeersOf(d) == d.peers

\* What find_fn is called with; "crash" when the pointer leads nowhere.
AnnouncePeers(d) ==
    IF d.size <= AnnounceResponseMinSize
    THEN {{}, {Junk}, {"crash"}}
    ELSE {PeersOf(d)}

RecvAnnounce(d) ==
    /\ pc = "wait_announce"
    /\ TakeResp(d)
    /\ undef' = (undef \/ d.size <= AnnounceResponseMinSize)
    /\ crossed' = (crossed \/ d.txn # txn)
    /\ \E ps \in AnnouncePeers(d) :
           IF ps = {"crash"}
           THEN pc' = "crashed" /\ UNCHANGED found
           ELSE pc' = "sleep" /\ found' = found \cup ps
    /\ UNCHANGED <<scheme, tick, sock, cid, txn, stopped, cancel>>
    /\ UNCHANGED <<svars, reqs, losses>>

-----------------------------------------------------------------------------
(* tracker_stop, and the cancellation it asks for when forced: recvfrom,     *)
(* sleep and the HTTP request are cancellation points.                       *)

Stop(force) ==
    /\ pc \notin {"off", "crashed"}
    /\ ~stopped
    /\ cancel' = force
    /\ stopped' = TRUE
    /\ UNCHANGED <<scheme, pc, tick, sock, cid, txn, found, undef, crossed>>
    /\ UNCHANGED <<svars, reqs, resps, losses, dups>>

\* Mutant: a receive is no cancellation point.
CancelledAsleep == {"sleep", "wait_http"}

CancellationPoints == Waiting \cup {"sleep", "wait_http"}

Cancelled == \E at \in CancellationPoints : cancel /\ Move(at, "done")

-----------------------------------------------------------------------------
(* The tracker server and the network.                                       *)

Reply(r, d) ==
    /\ TakeReq(r)
    /\ resps' = resps \cup {d}
    /\ UNCHANGED <<tvars, losses>>

ServeConnect(r) ==
    /\ r.kind = "connect"
    /\ \E id \in Ids :
           /\ issued' = issued \cup {id}
           /\ Reply(r, [txn |-> r.txn, size |-> 16, cid |-> id, peers |-> {}])
    /\ UNCHANGED <<listed, errors>>

ServeAnnounce(r) ==
    /\ r.kind = "announce"
    /\ r.cid \in issued
    /\ \E ps \in SUBSET Peers :
           /\ listed' = listed \cup ps
           /\ Reply(r, [txn |-> r.txn, cid |-> Junk, peers |-> ps,
                        size |-> 20 + 6 * Cardinality(ps)])
    /\ UNCHANGED <<issued, errors>>

\* An error reply: action, transaction id and a text.
ServeError(r) ==
    /\ (r.kind = "announce" /\ r.cid \notin issued) \/ errors < MaxErrors
    /\ errors' = errors + 1
    /\ \E n \in ErrorSizes :
           Reply(r, [txn |-> r.txn, size |-> n, cid |-> Junk, peers |-> {Junk}])
    /\ UNCHANGED <<issued, listed>>

Lose ==
    /\ losses < MaxLoss
    /\ losses' = losses + 1
    /\ \/ \E r \in reqs : reqs' = reqs \ {r} /\ UNCHANGED resps
       \/ \E d \in resps : resps' = resps \ {d} /\ UNCHANGED reqs
    /\ UNCHANGED <<tvars, svars, dups>>

-----------------------------------------------------------------------------

Init ==
    /\ scheme \in Schemes
    /\ pc = "off" /\ tick = 0
    /\ sock = TRUE     \* sock_fd = 0 from calloc, until tracker_start
    /\ cid = 0 /\ txn = 0
    /\ stopped = FALSE /\ cancel = FALSE
    /\ reqs = {} /\ resps = {} /\ found = {}
    /\ issued = {} /\ listed = {}
    /\ errors = 0 /\ losses = 0 /\ dups = 0
    /\ undef = FALSE /\ crossed = FALSE

ThreadStep ==
    \/ PollSocketFail \/ PollConnect \/ PollAnnounce \/ PollUnknown
    \/ PollHttp \/ NoPoll \/ Sleep \/ Leave
    \/ \E d \in resps : RecvConnect(d) \/ RecvAnnounce(d)

ServerStep == \E r \in reqs : ServeConnect(r) \/ ServeAnnounce(r) \/ ServeError(r)

Next ==
    \/ Start \/ ThreadStep \/ HttpDone \/ Cancelled
    \/ \E force \in Forces : Stop(force)
    \/ ServerStep \/ Lose

Spec == Init /\ [][Next]_vars

(* The thread keeps running, a datagram that is not lost arrives, and the    *)
(* server answers what reaches it.  Nothing makes an HTTP server answer.     *)
Fairness == WF_vars(ThreadStep) /\ WF_vars(Cancelled) /\ WF_vars(ServerStep)

FairSpec == Spec /\ Fairness

-----------------------------------------------------------------------------
(* Properties.                                                               *)

TypeOK ==
    /\ scheme \in Schemes
    /\ pc \in {"off", "loop", "sleep", "wait_http"} \cup Waiting \cup Ended
    /\ tick \in 0..(PollFreq - 1)
    /\ cid \in Ids \cup {0, Junk}
    /\ txn \in 0..MaxRequests
    /\ {sock, stopped, cancel, undef, crossed} \subseteq BOOLEAN
    /\ reqs \subseteq [kind : {"connect", "announce"}, txn : 1..MaxRequests,
                       cid : Ids \cup {0, Junk}]
    /\ resps \subseteq [txn : 1..MaxRequests, size : Nat, cid : Ids \cup {Junk},
                        peers : SUBSET (Peers \cup {Junk})]
    /\ found \subseteq Peers \cup {Junk}
    /\ issued \subseteq Ids /\ listed \subseteq Peers
    /\ errors \in Nat /\ losses \in 0..MaxLoss /\ dups \in 0..MaxDup

\* Nothing is on the way that could wake the thread out of recvfrom.
Blocked == pc \in Waiting /\ reqs = {} /\ resps = {}

\* recvfrom (udp_protocol.c:29, 66) has no timeout, yet the thread never waits
\* for a datagram that nobody owes it: only a loss blocks it.
BlockedOnlyByLoss == Blocked => losses > 0

\* A reply is matched with the request it answers, although the announce does
\* not compare transaction ids (tracker.c:63-66): one request is out at a time,
\* so a reply is taken for the wrong one only if the network duplicates.
InStep == crossed => dups > 0

\* Every announce carries a connection id the server has handed out
\* (tracker.c:41-44), as long as the server has answered without an error.
AnnouncesIssuedId ==
    errors = 0 => \A r \in reqs : r.kind = "announce" => r.cid \in issued

\* find_fn is given only peers that the server has listed, unless an error text
\* was read as peers or an unfilled response was walked.
FoundListed == found \subseteq listed \/ errors > 0 \/ undef

\* A stopped thread ends (tracker.c:121, 149), or stays blocked on a datagram
\* that was lost or on an HTTP server.
StopEnds ==
    stopped ~> \/ pc \in Ended
               \/ Blocked /\ losses > 0
               \/ pc = "wait_http"

\* A forced stop ends the thread whatever the network does.
ForcedStopEnds == cancel ~> pc \in Ended

\* An announce reply without peers is harmless.
NoCrash == pc # "crashed"
==============================================================================
