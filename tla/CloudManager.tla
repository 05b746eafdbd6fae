---------------------------- MODULE CloudManager ----------------------------
(***************************************************************************)
(* The cloud manager of src/apps/st_app/st_cloud_manager.c for one device  *)
(* context: sign-up, sign-in, token refresh, device profile, publish, find *)
(* ping and ping, each a delayed callback that sends a request and         *)
(* re-arms itself with a back-off from session_timeout or message_timeout, *)
(* and a response handler per request.                                     *)
(*                                                                         *)
(* The timed-event queue (outside src/) follows spec section 4.1: one      *)
(* pending entry per (context, callback); scheduling a pending pair again  *)
(* replaces its deadline; an entry is removed when it fires, before the    *)
(* callback runs.  Deadlines are kept relative to the current time, so     *)
(* timers fire in deadline order while responses, which may be lost or     *)
(* arrive after a retry, are delivered at any moment.                      *)
(***************************************************************************)
EXTENDS Naturals, Sequences, FiniteSets, FiniteSetsExt

CONSTANTS
    StoredStatus,    \* cloudinfo.status values the store may start with
    MaxOut,          \* requests of one kind whose responses may be pending
    MaxDisconnects,  \* bound on session-disconnect events
    MaxRejects       \* bound on token / authorisation rejections

Statuses == {"INITIALIZE", "SIGNED_UP", "SIGNED_IN", "PUBLISHED", "FINISH",
             "RE_CONNECTING", "RESET", "FAIL"}
ASSUME /\ StoredStatus \subseteq Statuses
       /\ MaxOut \in Nat \ {0} /\ MaxDisconnects \in Nat /\ MaxRejects \in Nat

(* The delayed callbacks; all but callback_handler send a request. *)
Requests == {"sign_up", "sign_in", "refresh_token", "set_dev_profile",
             "publish_resource", "find_ping", "send_ping"}
Callbacks == Requests \cup {"callback_handler"}

(* A response: the expected success code, an error carrying one of the     *)
(* CI codes error_handler dispatches on, or any other failure.            *)
Responses == {"ok", "token_expired", "unauthorized", "device_not_found",
              "internal_error", "failed"}

VARIABLES
    status,       \* context->cloud_manager_status
    retry,        \* context->retry_count
    timers,       \* pending delayed callbacks of the context -> time left
    outstanding,  \* request kind -> requests whose response may still come
    active,       \* the context is allocated (between start and stop)
    discs,        \* session-disconnect events so far
    rejects,      \* token / authorisation rejections so far
    finished      \* FINISH reports since the last disconnect (history)

vars == <<status, retry, timers, outstanding, active, discs, rejects,
          finished>>

MAX_RETRY_COUNT == 5
ONE_MINUTE == 56
ping_interval == 1
session_timeout == <<3, 50, 50, 50, 10>>
message_timeout == <<1, 2, 4, 8, 10>>

(* The back-off table of each request, indexed by retry_count (0-based). *)
Timeout(f, r) ==
    IF f \in {"sign_up", "sign_in", "refresh_token"}
    THEN session_timeout[r + 1] ELSE message_timeout[r + 1]

(* oc_set_delayed_callback / oc_remove_delayed_callback (spec 4.1). *)
SetTimer(t, f, d) == [g \in DOMAIN t \cup {f} |-> IF g = f THEN d ELSE t[g]]
RemoveTimer(t, f) == [g \in DOMAIN t \ {f} |-> t[g]]

(* The request goes out; a count at MaxOut stays there (one is lost). *)
Send(f) == [outstanding EXCEPT ![f] = Min({@ + 1, MaxOut})]

(* retry_count++ on the uint8_t counter. *)
IncrementedLost(r) == r % 256
Incremented(r) == (r + 1) % 256

(* is_retry_over, on the already incremented retry_count. *)
IsRetryOver(r) == r >= MAX_RETRY_COUNT

Settled == {"FINISH", "FAIL", "RESET"}

-----------------------------------------------------------------------------
(* st_cloud_manager_start: the context takes the stored status and         *)
(* cloud_start_process arms sign_up or sign_in.                            *)
StartTimer(s) ==
    IF s = "INITIALIZE" THEN "sign_up" ELSE "sign_in"

Init ==
    /\ status \in StoredStatus
    /\ retry = 0
    /\ timers = [f \in {StartTimer(status)} |-> session_timeout[1]]
    /\ outstanding = [f \in Requests |-> 0]
    /\ active = TRUE
    /\ discs = 0 /\ rejects = 0 /\ finished = 0

(* callback_handler reports the status the context has when it runs. *)
CallbackHandler(t) ==
    /\ finished' = IF status = "FINISH" THEN Min({finished + 1, 2})
                                        ELSE finished
    /\ timers' = t
    /\ UNCHANGED <<status, retry, outstanding>>

(* The request callbacks: sign_up, sign_in, refresh_token, set_dev_profile, *)
(* publish_resource, find_ping, send_ping.  retry_count++ first; past the  *)
(* limit is_retry_over fails the context; otherwise the request is sent    *)
(* and the callback re-armed.  find_ping and send_ping do neither unless   *)
(* the status is one they serve.                                           *)
Serves(f) ==
    CASE f = "find_ping" -> status \in {"SIGNED_IN", "PUBLISHED"}
      [] f = "send_ping" -> status = "FINISH"
      [] OTHER           -> TRUE

RequestCallback(f, t) ==
    LET r == Incremented(retry) IN
    /\ retry' = r
    /\ \/ /\ IsRetryOver(r)
          /\ status' = "FAIL"
          /\ timers' = SetTimer(t, "callback_handler", 0)
          /\ UNCHANGED outstanding
       \/ /\ ~IsRetryOver(r) /\ Serves(f)
          /\ outstanding' = Send(f)
          /\ timers' = SetTimer(t, f, Timeout(f, r))
          /\ UNCHANGED status
       \/ /\ ~IsRetryOver(r) /\ ~Serves(f)
          /\ timers' = t
          /\ UNCHANGED <<status, outstanding>>
    /\ UNCHANGED finished

(* The event loop: time passes to the earliest deadline and that callback  *)
(* is taken off the queue and run.                                         *)
Tick ==
    /\ active /\ DOMAIN timers # {}
    /\ LET m == Min({timers[g] : g \in DOMAIN timers}) IN
       \E f \in DOMAIN timers :
          /\ timers[f] = m
          /\ LET t == [g \in DOMAIN timers \ {f} |-> timers[g] - m] IN
             IF f = "callback_handler" THEN CallbackHandler(t)
                                       ELSE RequestCallback(f, t)
    /\ UNCHANGED <<active, discs, rejects>>

(* error_handler(data, callback): a token error restarts at refresh_token, *)
(* an authorisation error at sign_in, an unknown device resets; an         *)
(* internal server error sets retry_count to MAX_RETRY_COUNT and, like any *)
(* failure once retry_count >= MAX_RETRY_COUNT - 1, fails the context.     *)
Restart(f, g) ==
    /\ retry' = 0 /\ status' = "RE_CONNECTING"
    /\ timers' = SetTimer(RemoveTimer(timers, f), g, session_timeout[1])

Fail(f, s) ==
    /\ status' = s
    /\ timers' = SetTimer(RemoveTimer(timers, f), "callback_handler", 0)

ErrorHandler(f, resp) ==
    CASE resp = "token_expired"    -> Restart(f, "refresh_token")
      [] resp = "unauthorized"     -> Restart(f, "sign_in")
      [] resp = "device_not_found" -> Fail(f, "RESET") /\ UNCHANGED retry
      [] resp = "internal_error"   -> Fail(f, "FAIL") /\ retry' = MAX_RETRY_COUNT
      [] OTHER ->
           IF retry < MAX_RETRY_COUNT - 1
           THEN UNCHANGED <<status, retry, timers>>
           ELSE Fail(f, "FAIL") /\ UNCHANGED retry

(* The success handlers: each cancels its own retry, clears retry_count    *)
(* and arms the next step; sign_in_handler goes to set_dev_profile only    *)
(* right after sign-up, find_ping_handler reports FINISH and starts ping.  *)
NextStep(f) ==
    CASE f = "sign_in" -> IF status = "SIGNED_UP" THEN "set_dev_profile"
                                                  ELSE "find_ping"
      [] f = "refresh_token"    -> "sign_in"
      [] f = "set_dev_profile"  -> "publish_resource"
      [] f = "publish_resource" -> "find_ping"
      [] OTHER                  -> "send_ping"

NextDelay(f) ==
    CASE f = "refresh_token" -> session_timeout[1]
      [] f = "send_ping"     -> ping_interval * ONE_MINUTE
      [] OTHER               -> message_timeout[1]

OkStatus(f) ==
    CASE f = "sign_up"          -> "SIGNED_UP"
      [] f = "sign_in"          -> "SIGNED_IN"
      [] f = "publish_resource" -> "PUBLISHED"
      [] f = "find_ping"        -> "FINISH"
      [] OTHER                  -> status

OkHandlerNoPingRearm(f) ==
    LET t == RemoveTimer(timers, f)
        t2 == IF f = "find_ping" THEN SetTimer(t, "callback_handler", 0) ELSE t
    IN
    /\ retry' = 0 /\ status' = OkStatus(f)
    /\ timers' = IF f \in {"sign_up", "send_ping"} THEN t
                 ELSE SetTimer(t2, NextStep(f), NextDelay(f))

OkHandler(f) ==
    LET t == RemoveTimer(timers, f)
        t2 == IF f = "find_ping" THEN SetTimer(t, "callback_handler", 0) ELSE t
    IN
    /\ retry' = 0 /\ status' = OkStatus(f)
    /\ timers' = IF f = "sign_up" THEN t
                 ELSE SetTimer(t2, NextStep(f), NextDelay(f))

(* A response to an outstanding request reaches its handler. *)
Deliver(f, resp) ==
    /\ active /\ outstanding[f] > 0
    /\ resp \in {"token_expired", "unauthorized"} => rejects < MaxRejects
    /\ outstanding' = [outstanding EXCEPT ![f] = @ - 1]
    /\ rejects' = IF resp \in {"token_expired", "unauthorized"}
                  THEN rejects + 1 ELSE rejects
    /\ IF resp = "ok" THEN OkHandler(f) ELSE ErrorHandler(f, resp)
    /\ UNCHANGED <<active, discs, finished>>

(* session_event_handler on OC_SESSION_DISCONNECTED for an endpoint of the *)
(* device: ignored while RE_CONNECTING; for the cloud endpoint, or any     *)
(* endpoint once signed up, a FINISHed context stops pinging and goes      *)
(* RE_CONNECTING, then cloud_start_process arms sign_up or sign_in.        *)
Disconnect(ep) ==
    /\ active /\ discs < MaxDisconnects
    /\ discs' = discs + 1
    /\ IF status # "RE_CONNECTING" /\ (ep = "cloud" \/ status = "SIGNED_UP")
       THEN LET s == IF status = "FINISH" THEN "RE_CONNECTING" ELSE status
                t == IF status = "FINISH" THEN RemoveTimer(timers, "send_ping")
                                          ELSE timers
            IN /\ status' = s
               /\ timers' = SetTimer(t, StartTimer(s), session_timeout[1])
               /\ finished' = 0
       ELSE UNCHANGED <<status, timers, finished>>
    /\ UNCHANGED <<retry, outstanding, active, rejects>>

(* st_cloud_manager_stop: only the ping of a FINISHed context is          *)
(* cancelled before the context is freed.                                  *)
Stop ==
    /\ active
    /\ active' = FALSE
    /\ timers' = IF status = "FINISH" THEN RemoveTimer(timers, "send_ping")
                                      ELSE timers
    /\ UNCHANGED <<status, retry, outstanding, discs, rejects, finished>>

Next ==
    \/ Tick
    \/ \E f \in Requests, resp \in Responses : Deliver(f, resp)
    \/ \E ep \in {"cloud", "other"} : Disconnect(ep)
    \/ Stop

(* The event loop runs every callback that falls due; the network and the  *)
(* server promise nothing.                                                 *)
Spec == Init /\ [][Next]_vars /\ WF_vars(Tick)

-----------------------------------------------------------------------------
TypeOK ==
    /\ status \in Statuses
    /\ retry \in 0 .. MAX_RETRY_COUNT + Cardinality(Callbacks)
    /\ DOMAIN timers \subseteq Callbacks
    /\ \A f \in DOMAIN timers : timers[f] \in 0 .. ONE_MINUTE * ping_interval
    /\ outstanding \in [Requests -> 0 .. MaxOut]
    /\ active \in BOOLEAN /\ finished \in 0 .. 2

(* A FINISHed context always has its next ping armed (find_ping_handler,   *)
(* send_ping and send_ping_handler), so the cloud connection is kept.      *)
PingArmed == active /\ status = "FINISH" => "send_ping" \in DOMAIN timers

(* The application is told FINISH once per connection: no second Finished *)
(* callback without a session disconnect in between (spec scenario S4).    *)
FinishedOnce == finished <= 1

(* Once st_cloud_manager_stop has freed the context, no delayed callback   *)
(* still refers to it.                                                     *)
TimersReleased == ~active => DOMAIN timers = {}

(* A started context eventually reaches FINISH, FAIL or RESET. *)
Progress == (active /\ status \notin Settled) ~> (~active \/ status \in Settled)
=============================================================================
