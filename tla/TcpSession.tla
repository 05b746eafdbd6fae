----------------------------- MODULE TcpSession -----------------------------
(***************************************************************************)
(* The TCP connection engine of the Linux port, src/port/linux/           *)
(* tcpsession.c, as built with OC_HAS_FEATURE_TCP_ASYNC_CONNECT.          *)
(*                                                                         *)
(* Two threads share the engine: the application thread (oc_tcp_connect,  *)
(* oc_tcp_send_buffer, oc_tcp_send_buffer2, tcp_end_session,              *)
(* oc_tcp_update_csm_state, tcp_session_shutdown) and the network thread  *)
(* (accept and receive, tcp_process_waiting_sessions,                     *)
(* tcp_check_expiring_sessions, tcp_session_handle_signal).  Every entry  *)
(* point takes g_mutex for its whole body, so each is one atomic action,  *)
(* except tcp_check_expiring_sessions, whose loop over the waiting list   *)
(* is one step per waiting session taken with the mutex held (lock).      *)
(*                                                                         *)
(* Data is abstracted: an endpoint is a model value, a socket is the pair *)
(* <<owner id, connect attempt>>, a message is a model value.  The        *)
(* variables accepted, onWire, cbLog, wsWithCb and appUp are              *)
(* history: what the application was told and what reached the sockets.  *)
(***************************************************************************)
EXTENDS Naturals, Sequences, FiniteSets, FiniteSetsExt, SequencesExt

CONSTANTS
  Dialled,   \* remote endpoints this device connects to
  Accepted,  \* remote endpoints of incoming connections (ACCEPTED flag)
  Msgs,      \* outgoing messages; each is handed to the engine at most once
  MaxPeers,  \* OC_MAX_TCP_PEERS: size of the session, waiting-session and
             \* queued-message pools
  MaxCount,  \* g_connect_retry.max_count
  MaxIds,    \* bound: sessions and waiting sessions created in a behaviour
  NONE       \* a socket of -1

ASSUME Dialled \cap Accepted = {}
ASSUME MaxPeers \in Nat \ {0} /\ MaxCount \in Nat /\ MaxIds \in Nat \ {0}

VARIABLES
  sessions,      \* g_session_list: set of session records
  freeAsync,     \* g_free_session_list_async
  waiting,       \* g_waiting_session_list, in list order
  freeWaitAsync, \* g_free_waiting_session_list_async
  signalled,     \* a byte is pending on the network thread's signal pipe
  lock,          \* "expiry" while tcp_check_expiring_sessions holds g_mutex
  toVisit,       \* ids the expiry loop has still to visit, in list order
  nextId,        \* next fresh session / waiting-session id
  openSocks,     \* sockets open in the OS
  used,          \* messages already handed to the engine
  accepted,      \* per endpoint: messages whose send returned success/QUEUED
  onWire,        \* per endpoint: messages written to its sockets, in order
  cbLog,         \* per waiting-session id: on_tcp_connect results delivered
  wsWithCb,      \* ids of waiting sessions created with an on_tcp_connect
  appUp          \* per endpoint: last session event was session_start

vars == <<sessions, freeAsync, waiting, freeWaitAsync, signalled, lock,
          toVisit, nextId, openSocks, used, accepted, onWire, cbLog,
          wsWithCb, appUp>>

Eps   == Dialled \cup Accepted
Ids   == 1..MaxIds
Socks == Ids \X (0..MaxCount)
Csm   == {"NONE", "SENT", "DONE", "ERROR"}             \* tcp_csm_state_t
SockOutcomes == {"connected", "inprogress", "failed"}  \* connect() on a
                                                       \* non-blocking socket

Session == [id : Ids, ep : Eps, sock : Socks, csm : Csm]
WaitingSession ==
  [id : Ids, ep : Dialled, sock : Socks \cup {NONE}, count : 0..MaxCount,
   force : BOOLEAN, due : BOOLEAN, queue : Seq(Msgs), cb : BOOLEAN]

-----------------------------------------------------------------------------
(* Lookups and pool capacities                                            *)

\* find_session_by_endpoint_locked searches g_session_list only.
SessionOf(e)  == {s \in sessions : s.ep = e}
HasSession(e) == SessionOf(e) # {}
TheSession(e) == CHOOSE s \in SessionOf(e) : TRUE

\* find_waiting_session_by_endpoint_locked: the first match in list order.
WaitIdx(W, e)   == {i \in 1..Len(W) : W[i].ep = e}
HasWaiting(e)   == WaitIdx(waiting, e) # {}
FirstWait(W, e) == Min(WaitIdx(W, e))

WithoutWs(W, id) == SelectSeq(W, LAMBDA w : w.id # id)
WsIndex(id) == CHOOSE i \in 1..Len(waiting) : waiting[i].id = id

\* oc_memb_alloc on g_tcp_session_s, g_tcp_waiting_session_s and
\* g_queued_message_s returns NULL once MaxPeers objects are in use.
SessionPoolFree == Cardinality(sessions \cup freeAsync) < MaxPeers
WaitPoolFree    == Len(waiting) + Cardinality(freeWaitAsync) < MaxPeers
QueuePoolFree   ==
  MapThenSumSet(LAMBDA w : Len(w.queue), Range(waiting) \cup freeWaitAsync)
    < MaxPeers

SockSet(w) == IF w.sock = NONE THEN {} ELSE {w.sock}

\* free_waiting_session_locked posts the on_tcp_connect result.
Fire(log, w, r) == IF w.cb THEN [log EXCEPT ![w.id] = Append(@, r)] ELSE log

-----------------------------------------------------------------------------
(* tcp_connect_locked: the branch taken, and the tcp_connect_result_t it   *)
(* returns.  When connect() succeeds at once the session is created but   *)
(* res.session is left NULL: only res.created is set.                     *)

\* Variant of ConnectKind without the waiting-session lookup.
ConnectKindNoWaitLookup(e, o) ==
  CASE HasSession(e)                       -> "session"
    [] e \in Accepted                      -> "refused"
    [] o = "connected"  /\ SessionPoolFree -> "new_session"
    [] o = "inprogress" /\ WaitPoolFree    -> "new_waiting"
    [] OTHER                               -> "failed"

ConnectKind(e, o) ==
  CASE HasSession(e)                       -> "session"
    [] e \in Accepted                      -> "refused"
    [] HasWaiting(e)                       -> "waiting"
    [] o = "connected"  /\ SessionPoolFree -> "new_session"
    [] o = "inprogress" /\ WaitPoolFree    -> "new_waiting"
    [] OTHER                               -> "failed"

TcpConnectLocked(e, o) ==
  LET k == ConnectKind(e, o)
  IN  [kind    |-> k,
       session |-> k = "session",
       waiting |-> k \in {"waiting", "new_waiting"},
       created |-> k \in {"new_session", "new_waiting"}]

\* The state tcp_connect_locked leaves behind (f: the retry.force value the
\* pool slot holds, as add_new_waiting_session_locked never assigns it).
SessionsAfter(r, e) ==
  IF r.kind = "new_session"
  THEN sessions \cup {[id |-> nextId, ep |-> e, sock |-> <<nextId, 0>>,
                       csm |-> "SENT"]}
  ELSE sessions
WaitingAfter(r, e, cb, f) ==
  IF r.kind = "new_waiting"
  THEN Append(waiting, [id |-> nextId, ep |-> e, sock |-> <<nextId, 0>>,
                        count |-> 0, force |-> f, due |-> FALSE,
                        queue |-> <<>>, cb |-> cb])
  ELSE waiting
SocksAfter(r) == IF r.created THEN openSocks \cup {<<nextId, 0>>} ELSE openSocks
IdAfter(r)    == IF r.created THEN nextId + 1 ELSE nextId
UpAfter(r, e) == IF r.kind = "new_session" THEN [appUp EXCEPT ![e] = TRUE]
                                           ELSE appUp

\* oc_tcp_connect_to_endpoint maps the result to its return value.
ConnectReturn(r) ==
  CASE ~r.session /\ ~r.waiting -> "ERROR"
    [] ~r.created /\ r.session  -> "EXISTS_CONNECTED"
    [] ~r.created               -> "EXISTS_CONNECTING"
    [] r.session                -> "CONNECTED"
    [] OTHER                    -> "CONNECTING"

-----------------------------------------------------------------------------
(* Application thread                                                     *)

Init ==
  /\ sessions = {} /\ freeAsync = {}
  /\ waiting = <<>> /\ freeWaitAsync = {}
  /\ signalled = FALSE /\ lock = "free" /\ toVisit = <<>>
  /\ nextId = 1 /\ openSocks = {} /\ used = {}
  /\ accepted = [e \in Eps |-> <<>>] /\ onWire = [e \in Eps |-> <<>>]
  /\ cbLog = [i \in Ids |-> <<>>] /\ wsWithCb = {}
  /\ appUp = [e \in Eps |-> FALSE]

Unlocked == lock = "free"

\* oc_tcp_connect: tcp_connect_locked with the caller's on_tcp_connect.
\* A new session signals the network thread (tcp_create_session_locked
\* with signal), and so does a new waiting session
\* (tcp_waiting_session_set_socked_locked).
Connect(e, o) ==
  \E f \in BOOLEAN :
    LET r == TcpConnectLocked(e, o) IN
    /\ Unlocked
    /\ r.created => nextId <= MaxIds
    /\ sessions' = SessionsAfter(r, e)
    /\ waiting' = WaitingAfter(r, e, TRUE, f)
    /\ openSocks' = SocksAfter(r)
    /\ nextId' = IdAfter(r)
    /\ appUp' = UpAfter(r, e)
    /\ signalled' = (signalled \/ r.created)
    /\ wsWithCb' = IF r.kind = "new_waiting" THEN wsWithCb \cup {nextId}
                                             ELSE wsWithCb
    /\ UNCHANGED <<freeAsync, freeWaitAsync, lock, toVisit, used, accepted,
                   onWire, cbLog>>

\* Queue message m on the first waiting session of e in W
\* (add_message_to_waiting_session_locked).
Enqueue(W, e, m) ==
  LET i == FirstWait(W, e) IN [W EXCEPT ![i].queue = Append(@, m)]

\* oc_tcp_send_buffer / tcp_send_buffer_locked: connect if needed (without
\* callback), then write to the session or queue on the waiting session.
\* ok: tcp_send_message wrote the message.
SendBuffer(e, m) ==
  \E o \in SockOutcomes, f \in BOOLEAN, ok \in BOOLEAN :
    LET r  == TcpConnectLocked(e, o)
        W1 == WaitingAfter(r, e, FALSE, f)
        sent   == r.session /\ ok
        queued == ~r.session /\ r.waiting /\ QueuePoolFree
    IN
    /\ Unlocked /\ m \notin used
    /\ r.created => nextId <= MaxIds
    /\ used' = used \cup {m}
    /\ sessions' = SessionsAfter(r, e)
    /\ waiting' = IF queued THEN Enqueue(W1, e, m) ELSE W1
    /\ openSocks' = SocksAfter(r)
    /\ nextId' = IdAfter(r)
    /\ appUp' = UpAfter(r, e)
    /\ signalled' = (signalled \/ r.created)
    /\ accepted' = IF sent \/ queued
                   THEN [accepted EXCEPT ![e] = Append(@, m)] ELSE accepted
    /\ onWire' = IF sent THEN [onWire EXCEPT ![e] = Append(@, m)] ELSE onWire
    /\ UNCHANGED <<freeAsync, freeWaitAsync, lock, toVisit, cbLog, wsWithCb>>

\* oc_tcp_send_buffer2: write to an existing session; with queue, queue on
\* an existing waiting session; never connects.
SendBuffer2(e, m, queue) ==
  /\ Unlocked /\ m \notin used
  /\ used' = used \cup {m}
  /\ \/ /\ HasSession(e)
        /\ \E ok \in BOOLEAN :
             /\ accepted' = IF ok THEN [accepted EXCEPT ![e] = Append(@, m)]
                                  ELSE accepted
             /\ onWire' = IF ok THEN [onWire EXCEPT ![e] = Append(@, m)]
                                ELSE onWire
        /\ UNCHANGED waiting
     \/ /\ ~HasSession(e) /\ e \notin Accepted
        /\ queue /\ HasWaiting(e) /\ QueuePoolFree
        /\ waiting' = Enqueue(waiting, e, m)
        /\ accepted' = [accepted EXCEPT ![e] = Append(@, m)]
        /\ UNCHANGED onWire
     \/ /\ ~HasSession(e)
        /\ e \in Accepted \/ ~queue \/ ~HasWaiting(e) \/ ~QueuePoolFree
        /\ UNCHANGED <<waiting, accepted, onWire>>
  /\ UNCHANGED <<sessions, freeAsync, freeWaitAsync, signalled, lock, toVisit,
                 nextId, openSocks, cbLog, wsWithCb, appUp>>

\* free_session_async_locked: move s to the free-async list and signal the
\* network thread.
\* Variant of FreeSessionAsync that does not signal the network thread.
FreeSessionAsyncNoSignal(s) ==
  /\ sessions' = sessions \ {s}
  /\ freeAsync' = freeAsync \cup {s}
  /\ UNCHANGED <<waiting, freeWaitAsync, signalled>>

FreeSessionAsync(s) ==
  /\ sessions' = sessions \ {s}
  /\ freeAsync' = freeAsync \cup {s}
  /\ signalled' = TRUE
  /\ UNCHANGED <<waiting, freeWaitAsync>>

\* free_waiting_session_async_locked, likewise for a waiting session.
FreeWaitingAsync(w) ==
  /\ waiting' = WithoutWs(waiting, w.id)
  /\ freeWaitAsync' = freeWaitAsync \cup {w}
  /\ signalled' = TRUE
  /\ UNCHANGED <<sessions, freeAsync>>

\* tcp_end_session: the session of e, else its waiting session, is handed
\* to the network thread to be freed.
EndSession(e) ==
  /\ Unlocked
  /\ \/ HasSession(e) /\ FreeSessionAsync(TheSession(e))
     \/ ~HasSession(e) /\ HasWaiting(e)
        /\ FreeWaitingAsync(waiting[FirstWait(waiting, e)])
  /\ UNCHANGED <<lock, toVisit, nextId, openSocks, used, accepted, onWire,
                 cbLog, wsWithCb, appUp>>

\* oc_tcp_update_csm_state on an endpoint with a session.
UpdateCsm(e, c) ==
  /\ Unlocked /\ HasSession(e)
  /\ sessions' = (sessions \ {TheSession(e)})
                   \cup {[TheSession(e) EXCEPT !.csm = c]}
  /\ UNCHANGED <<freeAsync, waiting, freeWaitAsync, signalled, lock, toVisit,
                 nextId, openSocks, used, accepted, onWire, cbLog, wsWithCb,
                 appUp>>

-----------------------------------------------------------------------------
(* Network thread                                                         *)

\* accept_new_session_locked: a new session with CSM_NONE and a
\* session_start event.  When the session pool is full the accepted socket
\* is closed at once, which leaves the engine as it was.
Accept(a) ==
  /\ Unlocked
  /\ \A s \in sessions \cup freeAsync : s.ep # a
  /\ SessionPoolFree /\ nextId <= MaxIds
  /\ sessions' = sessions \cup {[id |-> nextId, ep |-> a,
                                 sock |-> <<nextId, 0>>, csm |-> "NONE"]}
  /\ openSocks' = openSocks \cup {<<nextId, 0>>}
  /\ appUp' = [appUp EXCEPT ![a] = TRUE]
  /\ nextId' = nextId + 1
  /\ UNCHANGED <<freeAsync, waiting, freeWaitAsync, signalled, lock, toVisit,
                 used, accepted, onWire, cbLog, wsWithCb>>

\* tcp_session_receive_message on a readable session whose recv() returns
\* 0 (peer closed) or an error, or whose length header exceeds
\* OC_MAX_APP_DATA_SIZE + COAP_MAX_HEADER_SIZE: free_session_locked(s, true).
\* A complete read leaves the engine's state unchanged.
PeerClosed(s) ==
  /\ Unlocked
  /\ sessions' = sessions \ {s}
  /\ openSocks' = openSocks \ {s.sock}
  /\ appUp' = [appUp EXCEPT ![s.ep] = FALSE]
  /\ signalled' = TRUE
  /\ UNCHANGED <<freeAsync, waiting, freeWaitAsync, lock, toVisit, nextId,
                 used, accepted, onWire, cbLog, wsWithCb>>

\* tcp_send_waiting_messages_locked: the queued messages in list order;
\* sent holds the positions whose tcp_send_message succeeded (a failure is
\* only logged).
\* Variant of Flushed that pops the queue from its tail.
FlushedFromTail(q, sent) ==
  LET idx == SetToSortSeq(sent, <) IN Reverse([k \in 1..Len(idx) |-> q[idx[k]]])

Flushed(q, sent) ==
  LET idx == SetToSortSeq(sent, <) IN [k \in 1..Len(idx) |-> q[idx[k]]]

\* tcp_create_session_locked for the socket of w, then
\* tcp_cleanup_connected_waiting_session_locked succeeding: CONNECTED is
\* posted, w leaves the list, its queue is written to the new session.
\* Variant of PromoteWs that leaves the waiting session on the list.
PromoteWsKeepListed(w, sock, sent) ==
  /\ sessions' = sessions \cup {[id |-> nextId, ep |-> w.ep, sock |-> sock,
                                 csm |-> "SENT"]}
  /\ UNCHANGED waiting
  /\ cbLog' = Fire(cbLog, w, "CONNECTED")
  /\ onWire' = [onWire EXCEPT ![w.ep] = @ \o Flushed(w.queue, sent)]
  /\ appUp' = [appUp EXCEPT ![w.ep] = TRUE]
  /\ nextId' = nextId + 1
  /\ signalled' = TRUE

PromoteWs(w, sock, sent) ==
  /\ sessions' = sessions \cup {[id |-> nextId, ep |-> w.ep, sock |-> sock,
                                 csm |-> "SENT"]}
  /\ waiting' = WithoutWs(waiting, w.id)
  /\ cbLog' = Fire(cbLog, w, "CONNECTED")
  /\ onWire' = [onWire EXCEPT ![w.ep] = @ \o Flushed(w.queue, sent)]
  /\ appUp' = [appUp EXCEPT ![w.ep] = TRUE]
  /\ nextId' = nextId + 1
  /\ signalled' = TRUE

\* ws->sock after tcp_try_connect_waiting_session_locked has handed the
\* socket to the new session.
\* Variant of SockTaken: the waiting session keeps the socket.
SockKept(w) == w.sock

SockTaken(w) == NONE

\* tcp_process_waiting_session_locked after a failed attempt: the socket,
\* if the waiting session still holds one, is closed and a retry forced.
ForceRetry(i, sock) == waiting' = [waiting EXCEPT ![i].sock = sock,
                                                  ![i].force = TRUE]

\* tcp_process_waiting_sessions on a waiting session whose socket became
\* writable: tcp_try_connect_waiting_session_locked, and on failure
\* tcp_process_waiting_session_locked closes the socket and sets force.
ProcessWaiting(i) ==
  LET w == waiting[i] IN
  /\ Unlocked /\ w.sock # NONE
  /\ \/ \* SO_ERROR set, fcntl failed, or no session object left
        /\ ForceRetry(i, NONE)
        /\ openSocks' = openSocks \ {w.sock}
        /\ UNCHANGED <<sessions, cbLog, onWire, appUp, nextId, signalled>>
     \/ \* the CONNECTED event cannot be allocated: free_session_locked
        \* undoes the session (session_start then session_end) and closes
        \* the socket the waiting session no longer owns
        /\ SessionPoolFree /\ nextId <= MaxIds /\ w.cb
        /\ ForceRetry(i, SockTaken(w))
        /\ openSocks' = openSocks \ {w.sock}
        /\ appUp' = [appUp EXCEPT ![w.ep] = FALSE]
        /\ nextId' = nextId + 1
        /\ UNCHANGED <<sessions, cbLog, onWire, signalled>>
     \/ /\ SessionPoolFree /\ nextId <= MaxIds
        /\ \E sent \in SUBSET (1..Len(w.queue)) : PromoteWs(w, w.sock, sent)
        /\ UNCHANGED openSocks
  /\ UNCHANGED <<freeAsync, freeWaitAsync, lock, toVisit, used, accepted,
                 wsWithCb>>

\* Time passes beyond g_connect_retry.timeout since retry.start.
Tick(i) ==
  /\ Unlocked /\ ~waiting[i].due
  /\ waiting' = [waiting EXCEPT ![i].due = TRUE]
  /\ UNCHANGED <<sessions, freeAsync, freeWaitAsync, signalled, lock,
                 toVisit, nextId, openSocks, used, accepted, onWire, cbLog,
                 wsWithCb, appUp>>

-----------------------------------------------------------------------------
(* tcp_check_expiring_sessions: one step per waiting session, g_mutex held *)

\* tcp_waiting_session_check
\* Variant of WaitingCheck with the max_count comparison off by one.
WaitingCheckOffByOne(w) ==
  CASE ~(w.force \/ w.due)   -> "VALID"
    [] w.count > MaxCount    -> "EXPIRED"
    [] OTHER                 -> "RETRY"

WaitingCheck(w) ==
  CASE ~(w.force \/ w.due)   -> "VALID"
    [] w.count >= MaxCount   -> "EXPIRED"
    [] OTHER                 -> "RETRY"

\* free_waiting_session_locked(w, has_expired = TRUE): queued messages are
\* released, the socket (if any) closed, TIMEOUT posted.
FreeWaitingExpired(w, socks) ==
  /\ waiting' = WithoutWs(waiting, w.id)
  /\ openSocks' = socks \ SockSet(w)
  /\ cbLog' = Fire(cbLog, w, "TIMEOUT")

\* tcp_retry_waiting_session_locked when connect() is in progress again.
\* Variant of RetryConnecting that does not count the attempt.
RetryConnectingNoCount(i, w, new) ==
  /\ waiting' = [waiting EXCEPT ![i] = [@ EXCEPT
                   !.due = FALSE, !.force = FALSE, !.sock = new]]
  /\ openSocks' = (openSocks \ SockSet(w)) \cup {new}
  /\ signalled' = TRUE
  /\ UNCHANGED <<sessions, cbLog, onWire, appUp, nextId>>

RetryConnecting(i, w, new) ==
  /\ waiting' = [waiting EXCEPT ![i] = [@ EXCEPT !.count = @ + 1,
                   !.due = FALSE, !.force = FALSE, !.sock = new]]
  /\ openSocks' = (openSocks \ SockSet(w)) \cup {new}
  /\ signalled' = TRUE
  /\ UNCHANGED <<sessions, cbLog, onWire, appUp, nextId>>

\* tcp_retry_waiting_session_locked when connect() succeeds at once, and the
\* caller's handling of its result.  The new socket is open before the
\* session object is allocated.
RetryConnected(w, new) ==
  \/ \* tcp_create_session_locked fails: -1, the waiting session expires
     /\ ~SessionPoolFree
     /\ FreeWaitingExpired(w, openSocks \cup {new})
     /\ UNCHANGED <<sessions, onWire, appUp, nextId, signalled>>
  \/ \* the CONNECTED event cannot be allocated: the session is freed, -1
     /\ SessionPoolFree /\ nextId <= MaxIds /\ w.cb
     /\ FreeWaitingExpired(w, openSocks)
     /\ appUp' = [appUp EXCEPT ![w.ep] = FALSE]
     /\ nextId' = nextId + 1
     /\ UNCHANGED <<sessions, onWire, signalled>>
  \/ /\ SessionPoolFree /\ nextId <= MaxIds
     /\ \E sent \in SUBSET (1..Len(w.queue)) : PromoteWs(w, new, sent)
     /\ openSocks' = (openSocks \ SockSet(w)) \cup {new}

\* The socket the next connect attempt of w opens.
NextSock(w) == <<w.id, w.count + 1>>

ExpiryBegin ==
  /\ Unlocked /\ waiting # <<>>
  /\ lock' = "expiry"
  /\ toVisit' = [k \in 1..Len(waiting) |-> waiting[k].id]
  /\ UNCHANGED <<sessions, freeAsync, waiting, freeWaitAsync, signalled,
                 nextId, openSocks, used, accepted, onWire, cbLog, wsWithCb,
                 appUp>>

ExpiryStep ==
  /\ lock = "expiry" /\ toVisit # <<>>
  /\ toVisit' = Tail(toVisit)
  /\ LET i == WsIndex(Head(toVisit))
         w == waiting[i]
     IN
     \/ /\ WaitingCheck(w) = "VALID"
        /\ UNCHANGED <<sessions, waiting, signalled, nextId, openSocks,
                       onWire, cbLog, appUp>>
     \/ /\ WaitingCheck(w) = "EXPIRED"
        /\ FreeWaitingExpired(w, openSocks)
        /\ UNCHANGED <<sessions, onWire, appUp, nextId, signalled>>
     \/ /\ WaitingCheck(w) = "RETRY"
        /\ \/ RetryConnecting(i, w, NextSock(w))
           \/ RetryConnected(w, NextSock(w))
           \/ \* no socket could be created: -1, the waiting session expires
              /\ FreeWaitingExpired(w, openSocks)
              /\ UNCHANGED <<sessions, onWire, appUp, nextId, signalled>>
  /\ UNCHANGED <<freeAsync, freeWaitAsync, lock, used, accepted, wsWithCb>>

ExpiryEnd ==
  /\ lock = "expiry" /\ toVisit = <<>>
  /\ lock' = "free"
  /\ UNCHANGED <<sessions, freeAsync, waiting, freeWaitAsync, signalled,
                 toVisit, nextId, openSocks, used, accepted, onWire, cbLog,
                 wsWithCb, appUp>>

-----------------------------------------------------------------------------
(* Releasing sessions in bulk                                              *)

OwnedSocks(S, W) == {s.sock : s \in S} \cup UNION {SockSet(w) : w \in W}
EndEvents(S) == [e \in Eps |-> IF \E s \in S : s.ep = e THEN FALSE
                                                      ELSE appUp[e]]
ErrorEvents(W) ==
  [i \in Ids |-> IF \E w \in W : w.id = i /\ w.cb
                 THEN Append(cbLog[i], "ERROR") ELSE cbLog[i]]

\* tcp_session_handle_signal: tcp_process_async_sessions_locked frees both
\* free-async lists (free_session_locked and free_waiting_session_locked
\* with signal, which write to the pipe again).
HandleSignal ==
  /\ Unlocked /\ signalled
  /\ freeAsync' = {} /\ freeWaitAsync' = {}
  /\ openSocks' = openSocks \ OwnedSocks(freeAsync, freeWaitAsync)
  /\ appUp' = EndEvents(freeAsync)
  /\ cbLog' = ErrorEvents(freeWaitAsync)
  /\ signalled' = (freeAsync # {} \/ freeWaitAsync # {})
  /\ UNCHANGED <<sessions, waiting, lock, toVisit, nextId, used, accepted,
                 onWire, wsWithCb>>

\* tcp_session_shutdown for the (single) device: every session and waiting
\* session is freed without signal, then the free-async lists.
Shutdown ==
  LET S == sessions \cup freeAsync
      W == Range(waiting) \cup freeWaitAsync
  IN
  /\ Unlocked /\ S \cup W # {}
  /\ sessions' = {} /\ freeAsync' = {}
  /\ waiting' = <<>> /\ freeWaitAsync' = {}
  /\ openSocks' = openSocks \ OwnedSocks(S, W)
  /\ appUp' = EndEvents(S)
  /\ cbLog' = ErrorEvents(W)
  /\ signalled' = (signalled \/ freeAsync # {} \/ freeWaitAsync # {})
  /\ UNCHANGED <<lock, toVisit, nextId, used, accepted, onWire, wsWithCb>>

-----------------------------------------------------------------------------

Next ==
  \/ \E e \in Eps :
       \/ \E o \in SockOutcomes : Connect(e, o)
       \/ EndSession(e)
       \/ UpdateCsm(e, "DONE")
       \/ \E m \in Msgs : SendBuffer(e, m) \/ \E q \in BOOLEAN : SendBuffer2(e, m, q)
  \/ Shutdown
  \/ \E a \in Accepted : Accept(a)
  \/ \E s \in sessions : PeerClosed(s)
  \/ \E i \in 1..Len(waiting) : ProcessWaiting(i) \/ Tick(i)
  \/ ExpiryBegin \/ ExpiryStep \/ ExpiryEnd
  \/ HandleSignal

\* The network thread's loop runs tcp_check_expiring_sessions on every
\* wake-up and sleeps at most the time it returns, so a running check is
\* finished (WF).  The same loop reads the signal pipe whenever it is
\* readable, and time keeps passing: both are taken however often the
\* expiry check holds the mutex in between (SF).
Fairness ==
  /\ WF_vars(ExpiryBegin) /\ WF_vars(ExpiryStep) /\ WF_vars(ExpiryEnd)
  /\ SF_vars(HandleSignal)
  /\ SF_vars(\E i \in 1..Len(waiting) : Tick(i))

Spec == Init /\ [][Next]_vars /\ Fairness

-----------------------------------------------------------------------------
(* Properties                                                             *)

TypeOK ==
  /\ sessions \subseteq Session /\ freeAsync \subseteq Session
  /\ waiting \in Seq(WaitingSession) /\ freeWaitAsync \subseteq WaitingSession
  /\ signalled \in BOOLEAN /\ lock \in {"free", "expiry"}
  /\ toVisit \in Seq(Ids) /\ nextId \in 1..(MaxIds + 1)
  /\ openSocks \subseteq Socks /\ used \subseteq Msgs
  /\ accepted \in [Eps -> Seq(Msgs)] /\ onWire \in [Eps -> Seq(Msgs)]
  /\ cbLog \in [Ids -> Seq({"CONNECTED", "TIMEOUT", "ERROR"})]
  /\ wsWithCb \subseteq Ids /\ appUp \in [Eps -> BOOLEAN]

\* Every socket a session or waiting session holds, with its owner.
Owners ==
  {<<s.id, s.sock>> : s \in sessions \cup freeAsync}
  \cup {<<w.id, w.sock>> : w \in {x \in Range(waiting) \cup freeWaitAsync :
                                    x.sock # NONE}}

\* Ids of waiting sessions not yet freed.
WsIds == {w.id : w \in Range(waiting) \cup freeWaitAsync}

\* Invariant 1 of the specification: tcp_connect_locked, the promotion of a
\* waiting session (tcp_try_connect_waiting_session_locked and the retry in
\* tcp_check_expiring_sessions) and tcp_end_session never leave an endpoint
\* with two active sessions, two waiting sessions, or one of each.
OneSessionPerEndpoint ==
  \A e \in Eps :
    /\ Cardinality(SessionOf(e)) <= 1
    /\ Cardinality(WaitIdx(waiting, e)) <= 1
    /\ ~(HasSession(e) /\ HasWaiting(e))

\* A socket is closed only once its owner is gone: every socket a session or
\* waiting session still holds is open and held by no other one.  The
\* waiting session drops its socket (ws->sock = -1) when a session takes it,
\* so free_session_locked and tcp_process_waiting_session_locked do not both
\* close it.
OwnedSocketsOpen ==
  /\ \A o \in Owners : o[2] \in openSocks
  /\ \A o1, o2 \in Owners : o1 # o2 => o1[2] # o2[2]

\* Invariant 5 of the specification, the other half: no socket is left open
\* that no session or waiting session owns (none leaks).
NoOrphanSocket == openSocks \subseteq {o[2] : o \in Owners}

\* Messages reach an endpoint's sockets in the order the application's sends
\* were accepted (written or QUEUED), each at most once: messages queued on a
\* waiting session, through retries, go out FIFO on promotion
\* (tcp_send_waiting_messages_locked) before any later send.
AcceptedOrder ==
  \A e \in Eps :
    LET w == onWire[e]
        a == accepted[e]
        Pos(x) == CHOOSE k \in 1..Len(a) : a[k] = x
    IN  /\ ToSet(w) \subseteq ToSet(a)
        /\ \A i, j \in 1..Len(w) : i < j => Pos(w[i]) < Pos(w[j])

\* Every waiting session created by oc_tcp_connect reports exactly one
\* on_tcp_connect result (CONNECTED, TIMEOUT or ERROR) once it is freed,
\* whichever path frees it, and none while it is alive.
ConnectOutcomeOnce ==
  \A i \in Ids :
    IF i \in wsWithCb /\ i \notin WsIds THEN Len(cbLog[i]) = 1
                                        ELSE cbLog[i] = <<>>

\* oc_tcp_connect returns OC_TCP_SOCKET_ERROR only when it left no session
\* behind for the endpoint (the specification: an immediate connect creates
\* the session and returns Connected).
ConnectReportsSession ==
  [][\A e \in Eps, o \in SockOutcomes :
       Connect(e, o) /\ ConnectReturn(TcpConnectLocked(e, o)) = "ERROR"
         => ~\E s \in sessions' : s.ep = e]_vars

\* The application's last session event for an endpoint with an active
\* session is session_start: a session_end from freeing an earlier,
\* already-ended session of the same endpoint never follows it.
AppViewConsistent == \A e \in Eps : HasSession(e) => appUp[e]

\* Every waiting session is eventually freed or promoted: retries are bounded
\* by g_connect_retry.max_count and the expiry check keeps running.
WaitingReleased == \A i \in Ids : i \in WsIds ~> i \notin WsIds

\* Every session handed to tcp_end_session is eventually freed by the
\* network thread (its socket closed, session_end emitted).
AsyncFreed ==
  \A i \in Ids : (\E s \in freeAsync : s.id = i) ~> ~\E s \in freeAsync : s.id = i

=============================================================================
