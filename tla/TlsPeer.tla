------------------------------- MODULE TlsPeer -------------------------------
(***************************************************************************)
(* The DTLS peer engine of src/security/oc_tls.c: the peer pool, the       *)
(* handshake pump and the events of the oc_tls_handler process.            *)
(*                                                                         *)
(* Peers live in a fixed pool (OC_MEMB g_tls_peers_s); events posted to    *)
(* oc_tls_handler carry a peer pointer, that is, a pool slot.  The         *)
(* handler runs one event at a time in the order they were posted.  The   *)
(* handshake is abstracted to the number of the remote's records it has    *)
(* consumed: it is over once HsRecords of them have been processed.        *)
(***************************************************************************)
EXTENDS Naturals, Sequences, SequencesExt

CONSTANTS
    Endpoints,   \* remote endpoints (UDP, SECURED)
    Slots,       \* the slots of g_tls_peers_s (OC_MAX_TLS_PEERS)
    Msgs,        \* outbound CoAP messages (oc_message_t pointers)
    Dest,        \* Dest[m]: the endpoint message m is addressed to
    HsRecords,   \* records of the remote a handshake consumes
    MaxRecords,  \* bound on the records the remote sends
    MaxSends,    \* bound on the times one message is sent (retransmissions)
    OxmSel,      \* doxm->oxmsel: the owner-transfer method selected
    ClientDefault, \* the list a client gets with no selection: "psk" with a
                   \* PSK credential for the peer, "cert" with a loaded chain
    ClientSelect,  \* the lists the application may select (oc_tls_select_*)
    NONE         \* an empty slot

ASSUME /\ Dest \in [Msgs -> Endpoints] /\ HsRecords \in Nat \ {0}
       /\ MaxRecords \in Nat /\ MaxSends \in Nat \ {0}
       /\ OxmSel \in {"JW", "RDP", "MFG_CERT", "other"}
       /\ ClientDefault \in {"default", "psk", "cert"}
       /\ ClientSelect \subseteq {"psk", "anon", "cert", "cloud"}

VARIABLES
    pstat,       \* the device's ownership state, pstat->s
    peer,        \* peer[s]: the peer in slot s, or NONE
    inact,       \* slots with a pending oc_tls_inactive timed event
    evq,         \* the events posted to oc_tls_handler, oldest first
    appUp,       \* endpoints the application was told are connected
    sends,       \* sends[m]: times message m was sent by the CoAP layer
    records,     \* records the remote endpoints have sent
    written,     \* messages written over the secure session (history)
    dropped,     \* messages released because no session could carry them
    ciphers      \* the global priority list selection, "NULL" when unset

vars == <<pstat, peer, inact, evq, appUp, sends, records, written, dropped,
          ciphers>>

Roles == {"client", "server"}
(* The static priority lists of oc_tls.c, by name *)
Priorities == {"default", "psk", "anon", "cert", "cloud",
               "jw_otm", "pin_otm", "cert_otm"}
Peers == [ep : Endpoints, role : Roles, prog : 0 .. HsRecords,
          recvq : 0 .. MaxRecords, sendq : Seq(Msgs), suites : Priorities]
Events == [kind : {"UDP_TO_TLS"}, arg : Endpoints]
          \cup [kind : {"INIT_TLS_CONN", "RI_TO_TLS"}, arg : Msgs]
          \cup [kind : {"TLS_READ_DECRYPTED_DATA",
                        "TLS_WRITE_APPLICATION_DATA"}, arg : Slots]

ReadEvent(s) == [kind |-> "TLS_READ_DECRYPTED_DATA", arg |-> s]
WriteEvent(s) == [kind |-> "TLS_WRITE_APPLICATION_DATA", arg |-> s]

(* g_tls_peers: the slots holding a peer *)
Used == {s \in Slots : peer[s] # NONE}

\* Variant of PeerOf whose lookup only finds server-role peers.
PeerOfServers(e) == {s \in Used : peer[s].ep = e /\ peer[s].role = "server"}

(* oc_tls_get_peer: the slot of the peer of endpoint e (at most one) *)
PeerOf(e) == {s \in Used : peer[s].ep = e}

(* oc_tls_peer_connected: ssl_ctx.state == MBEDTLS_SSL_HANDSHAKE_OVER *)
Over(r) == r.prog = HsRecords

(* oc_tls_connected *)
Connected(e) == \E s \in PeerOf(e) : Over(peer[s])

(* The OTM priority list of a server in RFOTM, by doxm->oxmsel *)
OtmPriority == [JW |-> "jw_otm", RDP |-> "pin_otm", MFG_CERT |-> "cert_otm",
                other |-> "default"]

(* oc_tls_set_ciphersuites: the list a new peer of the role is configured  *)
(* with.  A server in RFOTM takes its OTM list; otherwise the selected     *)
(* list if there is one, else the default (a client: by its credentials). *)
(* The global selection is then reset to NULL.                             *)
Ciphersuites(role) ==
    IF role = "server" /\ pstat = "RFOTM" THEN OtmPriority[OxmSel]
    ELSE IF ciphers # "NULL" THEN ciphers
    ELSE IF role = "client" THEN ClientDefault
    ELSE "default"

(* oc_tls_peer_allocate and oc_tls_peer_ssl_init: a fresh peer record *)
NewPeer(e, role) == [ep |-> e, role |-> role, prog |-> 0, recvq |-> 0,
                     sendq |-> <<>>, suites |-> Ciphersuites(role)]

\* Variant of Pump that feeds every queued record to the handshake.
PumpAll(r) == [r EXCEPT !.prog = r.prog + r.recvq, !.recvq = 0]

(* mbedtls_ssl_handshake, through ssl_recv: the queued records are         *)
(* consumed until the handshake is over or recv_q is empty (WANT_READ).    *)
Pump(r) ==
    LET p == Min({HsRecords, r.prog + r.recvq})
    IN  [r EXCEPT !.prog = p, !.recvq = r.recvq - (p - r.prog)]

\* Variant of FreePeer that leaves the oc_tls_inactive event scheduled.
FreePeerKeepTimer(s, r, also) ==
    /\ peer' = [peer EXCEPT ![s] = NONE]
    /\ UNCHANGED inact
    /\ dropped' = dropped \cup ToSet(r.sendq) \cup also
    /\ appUp' = appUp \ {r.ep}

(* oc_tls_free_peer(peer, _) for a UDP peer: unlink it, drop both queues, *)
(* cancel oc_tls_inactive and report OC_SESSION_DISCONNECTED.  r is the   *)
(* peer record at the time it is freed.                                    *)
FreePeer(s, r, also) ==
    /\ peer' = [peer EXCEPT ![s] = NONE]
    /\ inact' = inact \ {s}
    /\ dropped' = dropped \cup ToSet(r.sendq) \cup also
    /\ appUp' = appUp \ {r.ep}

-----------------------------------------------------------------------------
Init ==
    /\ pstat \in {"RFOTM", "RFNOP"}
    /\ peer = [s \in Slots |-> NONE] /\ inact = {}
    /\ evq = <<>> /\ appUp = {}
    /\ sends = [m \in Msgs |-> 0] /\ records = 0
    /\ written = {} /\ dropped = {}
    /\ ciphers = "NULL"

(* The CoAP layer sends message m on a secured endpoint: RI_TO_TLS_EVENT  *)
(* when oc_tls_connected(endpoint) at that moment, INIT_TLS_CONN_EVENT     *)
(* otherwise.  A confirmable message may be sent again (retransmission).   *)
AppSend(m) ==
    /\ sends[m] < MaxSends
    /\ sends' = [sends EXCEPT ![m] = @ + 1]
    /\ evq' = Append(evq, [kind |-> IF Connected(Dest[m]) THEN "RI_TO_TLS"
                                    ELSE "INIT_TLS_CONN", arg |-> m])
    /\ UNCHANGED <<pstat, peer, inact, appUp, records, written, dropped,
                   ciphers>>

(* A DTLS record from endpoint e reaches the TLS layer (UDP_TO_TLS_EVENT). *)
Arrive(e) ==
    /\ records < MaxRecords
    /\ records' = records + 1
    /\ evq' = Append(evq, [kind |-> "UDP_TO_TLS", arg |-> e])
    /\ UNCHANGED <<pstat, peer, inact, appUp, sends, written, dropped,
                   ciphers>>

(* oc_tls_select_psk_ciphersuite, _anon_, _cert_ and _cloud_ (client API): *)
(* the list for the next peer set up, whatever its role.                   *)
SelectCiphersuite(l) ==
    /\ ciphers' = l
    /\ UNCHANGED <<pstat, peer, inact, evq, appUp, sends, records, written,
                   dropped>>

(* oc_tls_reset_ciphersuite *)
ResetCiphersuite ==
    /\ ciphers' = "NULL"
    /\ UNCHANGED <<pstat, peer, inact, evq, appUp, sends, records, written,
                   dropped>>

(* oc_tls_add_peer, for an endpoint with no peer, returns NULL before any  *)
(* allocation in RFOTM when a peer exists ("Allow only a single DOC"), and  *)
(* when oc_tls_peer_allocate finds g_tls_peers_s exhausted.                 *)
AddPeerRefused == (pstat = "RFOTM" /\ Used # {}) \/ Used = Slots

(* oc_tls_recv_message: oc_tls_add_peer(endpoint, SERVER), queue the       *)
(* record on recv_q and post TLS_READ_DECRYPTED_DATA for the peer.         *)
RecvMessage ==
    /\ evq # <<>> /\ Head(evq).kind = "UDP_TO_TLS"
    /\ LET e == Head(evq).arg
           rest == Tail(evq)
       IN
       \/ \E s \in PeerOf(e) :
             /\ peer' = [peer EXCEPT ![s].recvq = @ + 1]
             /\ evq' = Append(rest, ReadEvent(s))
             /\ UNCHANGED <<inact, appUp, dropped, ciphers>>
       \/ /\ PeerOf(e) = {} /\ AddPeerRefused
          /\ evq' = rest
          /\ UNCHANGED <<peer, inact, appUp, dropped, ciphers>>
       \/ /\ PeerOf(e) = {} /\ ~AddPeerRefused
          /\ \E s \in Slots \ Used :
                \/ \* oc_tls_peer_ssl_init fails, before oc_tls_set_ciphersuites
                   \* (the selection survives) or after it: oc_tls_free_peer
                   /\ evq' = rest /\ appUp' = appUp \ {e}
                   /\ ciphers' \in {ciphers, "NULL"}
                   /\ UNCHANGED <<peer, inact, dropped>>
                \/ /\ peer' = [peer EXCEPT ![s] =
                                 [NewPeer(e, "server") EXCEPT !.recvq = 1]]
                   /\ inact' = inact \cup {s}
                   /\ evq' = Append(rest, ReadEvent(s))
                   /\ ciphers' = "NULL"
                   /\ UNCHANGED <<appUp, dropped>>
    /\ UNCHANGED <<pstat, sends, records, written>>

\* Variant of FreeInvalidPeer that discards the endpoint's peer whatever
\* its role.
FreeInvalidPeerAnyRole(e) ==
    [s \in Slots |-> IF s \in PeerOf(e) THEN NONE ELSE peer[s]]

(* oc_tls_free_invalid_peer, for a peer of e that is not a client: the     *)
(* pool after it is unlinked and freed.  Its send_q is empty (only          *)
(* oc_tls_init_connection fills send_q, of client peers).                  *)
FreeInvalidPeer(e) ==
    [s \in Slots |-> IF s \in PeerOf(e) /\ peer[s].role = "server" THEN NONE
                     ELSE peer[s]]

(* oc_tls_init_connection (client).  Outside RFNOP the message is dropped. *)
(* A server-role peer of the endpoint is discarded with                    *)
(* oc_tls_free_invalid_peer, which cancels its timer but reports nothing   *)
(* to the application.  The message joins the client peer's send_q unless  *)
(* already there, and oc_tls_handshake runs: a fatal result frees the      *)
(* peer, 0 (handshake over) posts TLS_WRITE_APPLICATION_DATA.              *)
InitConnection ==
    /\ evq # <<>> /\ Head(evq).kind = "INIT_TLS_CONN"
    /\ LET m == Head(evq).arg
           e == Dest[m]
           rest == Tail(evq)
           invalid == {s \in PeerOf(e) : peer[s].role = "server"}
           p0 == FreeInvalidPeer(e)
           i0 == inact \ invalid
           used0 == {s \in Slots : p0[s] # NONE}
           mine == {s \in used0 : p0[s].ep = e}
       IN
       \/ /\ pstat # "RFNOP"
          /\ evq' = rest /\ dropped' = dropped \cup {m}
          /\ UNCHANGED <<peer, inact, appUp, ciphers>>
       \/ /\ pstat = "RFNOP" /\ mine = {}
          /\ \/ used0 = Slots /\ UNCHANGED <<appUp, ciphers>> \* add_peer: NULL
             \/ /\ used0 # Slots /\ appUp' = appUp \ {e}   \* ssl_init fails
                /\ ciphers' \in {ciphers, "NULL"}
          /\ peer' = p0 /\ inact' = i0 /\ evq' = rest
          /\ dropped' = dropped \cup {m}
       \/ /\ pstat = "RFNOP"
          /\ \E s \in IF mine # {} THEN mine ELSE Slots \ used0 :
                LET r0 == IF s \in mine THEN p0[s] ELSE NewPeer(e, "client")
                    r1 == IF m \in ToSet(r0.sendq) THEN r0
                          ELSE [r0 EXCEPT !.sendq = Append(@, m)]
                    r2 == Pump(r1)
                    i1 == i0 \cup {s}
                IN
                /\ ciphers' = IF s \in mine THEN ciphers ELSE "NULL"
                /\ \/ /\ ~Over(r1)                \* fatal handshake error
                      /\ peer' = [p0 EXCEPT ![s] = NONE] /\ inact' = i1 \ {s}
                      /\ dropped' = dropped \cup ToSet(r1.sendq)
                      /\ appUp' = appUp \ {e} /\ evq' = rest
                   \/ /\ peer' = [p0 EXCEPT ![s] = r2] /\ inact' = i1
                      /\ evq' = IF Over(r2) THEN Append(rest, WriteEvent(s))
                                            ELSE rest
                      /\ UNCHANGED <<appUp, dropped>>
    /\ UNCHANGED <<pstat, sends, records, written>>

(* oc_tls_send_message: the message is written with mbedtls_ssl_write to  *)
(* the endpoint's peer.  Without a peer it is released.  When the peer's   *)
(* handshake is not over, mbedtls_ssl_write first drives it; if it is      *)
(* still not over the call returns WANT_READ, which is not an error, and   *)
(* the message is released unwritten.  A fatal result frees the peer.      *)
SendMessage ==
    /\ evq # <<>> /\ Head(evq).kind = "RI_TO_TLS"
    /\ LET m == Head(evq).arg
           rest == Tail(evq)
       IN
       /\ evq' = rest
       /\ \/ /\ PeerOf(Dest[m]) = {}
             /\ dropped' = dropped \cup {m}
             /\ UNCHANGED <<peer, inact, appUp, written>>
          \/ \E s \in PeerOf(Dest[m]) :
                LET r == Pump(peer[s]) IN
                \/ FreePeer(s, peer[s], {m}) /\ UNCHANGED written
                \/ /\ peer' = [peer EXCEPT ![s] = r]
                   /\ written' = IF Over(r) THEN written \cup {m} ELSE written
                   /\ UNCHANGED <<inact, appUp, dropped>>
    /\ UNCHANGED <<pstat, sends, records, ciphers>>

(* read_application_data, for the peer pointer s of the event.  An         *)
(* inactive pointer (is_peer_active) is ignored.  During the handshake,    *)
(* mbedtls_ssl_handshake_step runs while it returns 0; when the handshake  *)
(* is over the application is told OC_SESSION_CONNECTED and                *)
(* TLS_WRITE_APPLICATION_DATA is posted.  After it, mbedtls_ssl_read       *)
(* decrypts one record: data is posted to the CoAP engine, a               *)
(* close_notify or an error frees the peer.                                *)
ReadApplicationData ==
    /\ evq # <<>> /\ Head(evq).kind = "TLS_READ_DECRYPTED_DATA"
    /\ LET s == Head(evq).arg
           rest == Tail(evq)
       IN
       \/ /\ s \notin Used
          /\ evq' = rest
          /\ UNCHANGED <<peer, inact, appUp, dropped>>
       \/ /\ s \in Used /\ ~Over(peer[s])
          /\ LET r == Pump(peer[s]) IN
             \/ FreePeer(s, peer[s], {}) /\ evq' = rest
             \/ /\ peer' = [peer EXCEPT ![s] = r]
                /\ appUp' = IF Over(r) THEN appUp \cup {r.ep} ELSE appUp
                /\ evq' = IF Over(r) THEN Append(rest, WriteEvent(s)) ELSE rest
                /\ UNCHANGED <<inact, dropped>>
       \/ /\ s \in Used /\ Over(peer[s])
          /\ evq' = rest
          /\ \/ /\ peer[s].recvq = 0           \* WANT_READ
                /\ UNCHANGED <<peer, inact, appUp, dropped>>
             \/ /\ peer[s].recvq > 0
                /\ peer' = [peer EXCEPT ![s].recvq = @ - 1]
                /\ UNCHANGED <<inact, appUp, dropped>>
             \/ /\ peer[s].recvq > 0
                /\ FreePeer(s, peer[s], {})
    /\ UNCHANGED <<pstat, sends, records, written, ciphers>>

(* write_application_data, for the peer pointer s of the event: ignored    *)
(* if inactive, otherwise every message of send_q is popped, written with  *)
(* mbedtls_ssl_write and released.  WANT_READ / WANT_WRITE (a handshake     *)
(* that is not over) is not an error; a fatal result frees the peer and    *)
(* stops the loop.                                                         *)
WriteApplicationData ==
    /\ evq # <<>> /\ Head(evq).kind = "TLS_WRITE_APPLICATION_DATA"
    /\ LET s == Head(evq).arg IN
       /\ evq' = Tail(evq)
       /\ \/ /\ IF s \in Used THEN peer[s].sendq = <<>> ELSE TRUE
             /\ UNCHANGED <<peer, inact, appUp, written, dropped>>
          \/ /\ s \in Used /\ peer[s].sendq # <<>>
             /\ LET q == peer[s].sendq
                    r == Pump(peer[s])
                    Wrote(k) == IF Over(r) THEN ToSet(SubSeq(q, 1, k)) ELSE {}
                IN
                \/ \E k \in 1 .. Len(q) :
                      /\ written' = written \cup Wrote(k - 1)
                      /\ FreePeer(s, [r EXCEPT !.sendq = SubSeq(q, k + 1, Len(q))],
                                  {q[k]})
                \/ /\ written' = written \cup Wrote(Len(q))
                   /\ peer' = [peer EXCEPT ![s] = [r EXCEPT !.sendq = <<>>]]
                   /\ UNCHANGED <<inact, appUp, dropped>>
    /\ UNCHANGED <<pstat, sends, records, ciphers>>

(* A peer's retransmission timer is armed (ssl_set_timer) once its         *)
(* handshake has sent a flight: a client from its first handshake call, a  *)
(* server once it has answered the first record.                          *)
Armed(r) == ~Over(r) /\ (r.role = "client" \/ r.prog > 0)

(* check_retr_timers, on PROCESS_EVENT_TIMER: an armed timer of some peer  *)
(* has fired, and every peer whose handshake is not over and whose timer   *)
(* has expired (a timer never started counts as expired) runs              *)
(* mbedtls_ssl_handshake; a fatal result frees the peer, any other leaves  *)
(* it as it is.                                                            *)
RetrTimers ==
    /\ \E t \in Used : Armed(peer[t])
    /\ \E due \in SUBSET {s \in Used : ~Over(peer[s])} :
       \E fatal \in SUBSET due :
          /\ \E t \in due : Armed(peer[t])
          /\ peer' = [s \in Slots |-> IF s \in fatal THEN NONE
                                      ELSE IF s \in due THEN Pump(peer[s])
                                      ELSE peer[s]]
          /\ inact' = inact \ fatal
          /\ dropped' = dropped \cup UNION {ToSet(peer[s].sendq) : s \in fatal}
          /\ appUp' = appUp \ {peer[s].ep : s \in fatal}
    /\ UNCHANGED <<pstat, evq, sends, records, written, ciphers>>

Inactive(s) ==
    /\ s \in inact
    /\ IF s \in Used
          THEN FreePeer(s, peer[s], {})
          ELSE /\ inact' = inact \ {s}
               /\ UNCHANGED <<peer, appUp, dropped>>
    /\ UNCHANGED <<pstat, evq, sends, records, written, ciphers>>

(* oc_tls_close_connection, called by the stack (oc_close_session). *)
CloseConnection(e) ==
    /\ \E s \in PeerOf(e) : FreePeer(s, peer[s], {})
    /\ UNCHANGED <<pstat, evq, sends, records, written, ciphers>>

(* oc_tls_close_peer on every slot of S in one call: close_notify and      *)
(* oc_tls_free_peer for each.                                              *)
FreePeers(S) ==
    /\ peer' = [s \in Slots |-> IF s \in S THEN NONE ELSE peer[s]]
    /\ inact' = inact \ S
    /\ dropped' = dropped \cup UNION {ToSet(peer[s].sendq) : s \in S}
    /\ appUp' = appUp \ {peer[s].ep : s \in S}

(* oc_tls_close_peers(filter): the peers the filter selects are closed;    *)
(* the loop takes next before closing, so each is visited once.            *)
ClosePeers ==
    /\ \E S \in SUBSET Used : S # {} /\ FreePeers(S)
    /\ UNCHANGED <<pstat, evq, sends, records, written, ciphers>>

(* close_all_tls_sessions (the process's poll handler) and                 *)
(* close_all_tls_sessions_for_device (TLS_CLOSE_ALL_SESSIONS, one device   *)
(* here): oc_tls_close_connection for every peer there is when it runs.    *)
CloseAllSessions ==
    /\ Used # {} /\ FreePeers(Used)
    /\ UNCHANGED <<pstat, evq, sends, records, written, ciphers>>

Next ==
    \/ \E m \in Msgs : AppSend(m)
    \/ \E e \in Endpoints : Arrive(e) \/ CloseConnection(e)
    \/ \E l \in ClientSelect : SelectCiphersuite(l)
    \/ ResetCiphersuite
    \/ RecvMessage \/ InitConnection \/ SendMessage
    \/ ReadApplicationData \/ WriteApplicationData
    \/ RetrTimers
    \/ \E s \in Slots : Inactive(s)
    \/ ClosePeers \/ CloseAllSessions

Spec == Init /\ [][Next]_vars

(* The events oc_tls_handler takes from its queue.  The process runs       *)
(* whenever an event is posted, so a posted event is eventually handled;   *)
(* the oc_tls_inactive timed event of a peer eventually fires (the ETimer  *)
(* process), and with finitely many records and sends the peer is then     *)
(* idle for OC_DTLS_INACTIVITY_TIMEOUT.  Records, sends, retransmission    *)
(* timeouts and closes come from outside and are not assumed to happen.   *)
Handler ==
    RecvMessage \/ InitConnection \/ SendMessage
    \/ ReadApplicationData \/ WriteApplicationData

FairSpec == Spec /\ WF_vars(Handler) /\ \A s \in Slots : WF_vars(Inactive(s))

-----------------------------------------------------------------------------
TypeOK ==
    /\ pstat \in {"RFOTM", "RFNOP"}
    /\ peer \in [Slots -> Peers \cup {NONE}]
    /\ inact \subseteq Slots /\ appUp \subseteq Endpoints
    /\ evq \in Seq(Events)
    /\ sends \in [Msgs -> 0 .. MaxSends] /\ records \in 0 .. MaxRecords
    /\ written \subseteq Msgs /\ dropped \subseteq Msgs
    /\ ciphers \in ClientSelect \cup {"NULL"}

(* Spec invariant 2: at most one TLS peer per endpoint, whatever the order *)
(* in which records, sends and teardowns reach oc_tls_handler.             *)
OnePeerPerEndpoint ==
    \A s1, s2 \in Used : peer[s1].ep = peer[s2].ep => s1 = s2

(* Every live DTLS peer has its oc_tls_inactive timed event, and no such   *)
(* event outlives its peer: a pool slot reused by a new peer never         *)
(* inherits the old peer's reaper.                                         *)
TimersMatchPeers == inact = Used

(* A message handed to the TLS layer is written over a secure session,     *)
(* still waiting (in an event or a send_q), or released because its        *)
(* session is gone; the TLS layer never swallows one while its peer lives.  *)
InFlight(m) ==
    \/ \E i \in 1 .. Len(evq) : evq[i].kind \in {"INIT_TLS_CONN", "RI_TO_TLS"}
                                /\ evq[i].arg = m
    \/ \E s \in Used : m \in ToSet(peer[s].sendq)
MessagesAccounted ==
    \A m \in Msgs : sends[m] > 0 => InFlight(m) \/ m \in written \/ m \in dropped

SessionViewMatches == \A e \in Endpoints : e \in appUp <=> Connected(e)

(* Ciphersuite selection as spec.md states it: a server in RFNOP is set   *)
(* up with the default priority list, and a client's override applies to  *)
(* its own connection only, never to a peer created for an incoming       *)
(* handshake (oc_tls_set_ciphersuites at peer setup).                      *)
ServerSuitesAsSpecified ==
    \A s \in Used : peer[s].role = "server" /\ pstat = "RFNOP"
                    => peer[s].suites = "default"
=============================================================================
