------------------------------ MODULE Serving -------------------------------
(***************************************************************************)
(* How the server runs requests: the layers of build_router (src/main.rs), *)
(* the request metrics (src/metrics.rs), the live streams                  *)
(* (src/streaming.rs) and the graceful shutdown.                           *)
(*                                                                         *)
(* From the outside in, a request passes CORS, record_http, the body       *)
(* limit, the timeout, the panic guard, the security gates (stage "gate")  *)
(* and its handler (stage "handler").  Either stage can wait on another    *)
(* service forever, panic, or be dropped because the client went away.     *)
(* Out of reach of the layers are what comes before, a request head that   *)
(* is not complete (stage "connected"), and what comes after: the body of  *)
(* a response on its way to the client ("sending"), and a live stream,     *)
(* whose frames follow the answer in the response body (SSE) or in a task  *)
(* of its own (WebSocket).  hyper and the client are external.             *)
(***************************************************************************)
EXTENDS Integers, FiniteSets

CONSTANTS
  Requests,        \* HTTP requests, each sent at most once
  KindsOfRequests, \* which kind each request has: the assignments to consider
  CorsConfigured   \* FIDUCIA_CUSTOMER_APP_ORIGIN is set

(* Pages, fragments and API calls; /metrics; /app/events; /app/ws; OPTIONS. *)
Kinds == {"plain", "scrape", "events", "socket", "preflight"}

ASSUME ServingAssumption ==
  /\ IsFiniteSet(Requests)
  /\ KindsOfRequests \subseteq [Requests -> Kinds]
  /\ CorsConfigured \in BOOLEAN

VARIABLES
  server,    \* "serving", "draining" (signal received) or "stopped" (main returned)
  kind,      \* kind[r]: the kind of request r
  at,        \* at[r]: where request r stands
  answer,    \* answer[r]: the kind of response it got
  gone,      \* the requests whose client has gone away
  active,    \* the gauge http_active_requests
  total,     \* the counter http_requests_total, over all methods and statuses
  scraped    \* scraped[r]: what scrape r was told, and how many requests had arrived

vars == <<server, kind, at, answer, gone, active, total, scraped>>

Init ==
  /\ server = "serving"
  /\ kind \in KindsOfRequests
  /\ at = [r \in Requests |-> "idle"]
  /\ answer = [r \in Requests |-> "none"]
  /\ gone = {}
  /\ active = 0
  /\ total = 0
  /\ scraped = [r \in Requests |-> [active |-> 0, total |-> 0, arrived |-> 0]]

Stream(r) == kind[r] \in {"events", "socket"}

(* record_http lets scrapes pass; a preflight is answered by the CORS layer around it. *)
Counted(r) ==
  /\ kind[r] # "scrape"
  /\ kind[r] = "preflight" => ~CorsConfigured

Arrived == {r \in Requests : at[r] \notin {"idle", "connected", "closed"} /\ Counted(r)}

(* next.run of record_http is being awaited. *)
Executing == {r \in Requests : at[r] \in {"gate", "handler"} /\ Counted(r)}

(* The future of record_http was dropped while it awaited next.run. *)
Abandoned == {r \in Requests : at[r] = "dropped" /\ Counted(r)}

Recorded == {r \in Requests : at[r] \in {"sending", "streaming", "done", "cut"} /\ Counted(r)}

-----------------------------------------------------------------------------
(* A connection is accepted, and the client begins to send the head of its request. *)
Connect(r) ==
  /\ server = "serving"
  /\ at[r] = "idle"
  /\ at' = [at EXCEPT ![r] = "connected"]
  /\ UNCHANGED <<server, kind, answer, gone, active, total, scraped>>

(* The head is complete, be it during the drain; record_http increments the gauge. *)
Arrive(r) ==
  /\ at[r] = "connected"
  /\ IF kind[r] = "preflight" /\ CorsConfigured
     THEN /\ at' = [at EXCEPT ![r] = "sending"]
          /\ answer' = [answer EXCEPT ![r] = "ok"]
     ELSE at' = [at EXCEPT ![r] = "gate"] /\ UNCHANGED answer
  /\ active' = IF Counted(r) THEN active + 1 ELSE active
  /\ UNCHANGED <<server, kind, gone, total, scraped>>

(* The gates let the request through to its handler. *)
Pass(r) ==
  /\ at[r] = "gate"
  /\ at' = [at EXCEPT ![r] = "handler"]
  /\ UNCHANGED <<server, kind, answer, gone, active, total, scraped>>

(* Mutant: the gauge is decremented for scrapes as well. *)
LeaveRegardless(r, a) ==
  /\ answer' = [answer EXCEPT ![r] = a]
  /\ active' = active - 1
  /\ at' = [at EXCEPT ![r] = IF Counted(r) THEN "recording" ELSE "sending"]
  /\ UNCHANGED total

(* Mutant: the request is recorded before the gauge is decremented. *)
LeaveRecorded(r, a) ==
  /\ answer' = [answer EXCEPT ![r] = a]
  /\ total' = IF Counted(r) THEN total + 1 ELSE total
  /\ at' = [at EXCEPT ![r] = IF Counted(r) THEN "recording" ELSE "sending"]
  /\ UNCHANGED active

(* next.run returns a response; record_http decrements the gauge first, a scrape goes out. *)
Leave(r, a) ==
  /\ answer' = [answer EXCEPT ![r] = a]
  /\ active' = IF Counted(r) THEN active - 1 ELSE active
  /\ at' = [at EXCEPT ![r] = IF Counted(r) THEN "recording" ELSE "sending"]
  /\ UNCHANGED total

(* 413 of the body limit, 403 of a gate, 401 or the way to /login of the assurance gate. *)
Refuse(r) ==
  /\ at[r] = "gate"
  /\ Leave(r, "refused")
  /\ UNCHANGED <<server, kind, gone, scraped>>

(* The handler responds; a scrape renders the registry under the lock of the totals. *)
Respond(r) ==
  /\ at[r] = "handler"
  /\ Leave(r, "ok")
  /\ scraped' = IF kind[r] # "scrape" THEN scraped
                ELSE [scraped EXCEPT ![r] =
                        [active |-> active, total |-> total, arrived |-> Cardinality(Arrived)]]
  /\ UNCHANGED <<server, kind, gone>>

(* Mutant: the timeout is inside the gates, and does not cover them. *)
TimeOutInHandler(r) ==
  /\ at[r] = "handler"
  /\ Leave(r, "timeout")
  /\ UNCHANGED <<server, kind, gone, scraped>>

(* REQUEST_TIMEOUT_SECS have passed: TimeoutLayer drops what is inside of it. *)
TimeOut(r) ==
  /\ at[r] \in {"gate", "handler"}
  /\ Leave(r, "timeout")
  /\ UNCHANGED <<server, kind, gone, scraped>>

(* A gate or the handler panics: CatchPanicLayer answers 500. *)
Panic(r) ==
  /\ at[r] \in {"gate", "handler"}
  /\ Leave(r, "panic")
  /\ UNCHANGED <<server, kind, gone, scraped>>

(* Mutant: record() is only for responses of handlers. *)
RecordOnlyOk(r) ==
  /\ at[r] = "recording"
  /\ total' = IF answer[r] = "ok" THEN total + 1 ELSE total
  /\ at' = [at EXCEPT ![r] = IF Stream(r) /\ answer[r] = "ok" THEN "streaming" ELSE "sending"]
  /\ UNCHANGED <<server, kind, answer, gone, active, scraped>>

(* record() takes the lock and counts the response, whose body or stream begins. *)
Record(r) ==
  /\ at[r] = "recording"
  /\ total' = total + 1
  /\ at' = [at EXCEPT ![r] = IF Stream(r) /\ answer[r] = "ok" THEN "streaming" ELSE "sending"]
  /\ UNCHANGED <<server, kind, answer, gone, active, scraped>>

(* The client has read the body; nothing limits the time it takes. *)
Sent(r) ==
  /\ at[r] = "sending"
  /\ at' = [at EXCEPT ![r] = "done"]
  /\ UNCHANGED <<server, kind, answer, gone, active, total, scraped>>

-----------------------------------------------------------------------------
(* The client closes its connection, or the network loses it. *)
Vanish(r) ==
  /\ at[r] \in {"connected", "gate", "handler", "sending", "streaming"}
  /\ r \notin gone
  /\ gone' = gone \cup {r}
  /\ UNCHANGED <<server, kind, at, answer, active, total, scraped>>

(* hyper notices, and drops the request's future with all its layers. *)
DropFuture(r) ==
  /\ r \in gone
  /\ at[r] \in {"gate", "handler"}
  /\ at' = [at EXCEPT ![r] = "dropped"]
  /\ UNCHANGED <<server, kind, answer, gone, active, total, scraped>>

(* hyper notices before the head was complete; of a silent loss there is nothing to notice. *)
HangUp(r) ==
  /\ r \in gone
  /\ at[r] = "connected"
  /\ at' = [at EXCEPT ![r] = "closed"]
  /\ UNCHANGED <<server, kind, answer, gone, active, total, scraped>>

(* The rest of the body finds the client gone. *)
Close(r) ==
  /\ r \in gone
  /\ at[r] = "sending"
  /\ at' = [at EXCEPT ![r] = "done"]
  /\ UNCHANGED <<server, kind, answer, gone, active, total, scraped>>

(* Mutant: a failed send does not end the task of a WebSocket. *)
HeartbeatOfEvents(r) ==
  /\ at[r] = "streaming"
  /\ kind[r] = "events"
  /\ r \in gone
  /\ at' = [at EXCEPT ![r] = "done"]
  /\ UNCHANGED <<server, kind, answer, gone, active, total, scraped>>

(* The next frame finds the client gone: the stream ends.  Frames that arrive change nothing here. *)
Heartbeat(r) ==
  /\ at[r] = "streaming"
  /\ r \in gone
  /\ at' = [at EXCEPT ![r] = "done"]
  /\ UNCHANGED <<server, kind, answer, gone, active, total, scraped>>

(* SIGTERM or Ctrl-C: no connection is accepted any more, and idle ones are closed. *)
Signal ==
  /\ server = "serving"
  /\ server' = "draining"
  /\ UNCHANGED <<kind, at, answer, gone, active, total, scraped>>

(* The connections that keep the server: all but those upgraded to a WebSocket. *)
Holding ==
  {r \in Requests : \/ at[r] \in {"connected", "gate", "handler", "recording", "sending"}
                    \/ at[r] = "streaming" /\ kind[r] = "events"}

(* Mutant: the server stops at the signal, as without with_graceful_shutdown. *)
StopAtOnce ==
  /\ server = "draining"
  /\ server' = "stopped"
  /\ at' = [r \in Requests |-> IF at[r] \in {"idle", "done", "dropped", "closed"}
                                THEN at[r] ELSE "cut"]
  /\ UNCHANGED <<kind, answer, gone, active, total, scraped>>

(* The last connection ends and main returns: the runtime drops the WebSocket tasks. *)
Stop ==
  /\ server = "draining"
  /\ Holding = {}
  /\ server' = "stopped"
  /\ at' = [r \in Requests |-> IF at[r] = "streaming" THEN "cut" ELSE at[r]]
  /\ UNCHANGED <<kind, answer, gone, active, total, scraped>>

Next ==
  \/ \E r \in Requests :
       \/ Connect(r) \/ Arrive(r) \/ Pass(r) \/ Refuse(r) \/ Respond(r) \/ TimeOut(r) \/ Panic(r)
       \/ Record(r) \/ Sent(r) \/ Vanish(r) \/ HangUp(r) \/ DropFuture(r) \/ Close(r) \/ Heartbeat(r)
  \/ Signal \/ Stop

Spec == Init /\ [][Next]_vars

(***************************************************************************)
(* Fairness: timers fire, code that awaits nothing runs on, a write to a   *)
(* client that is gone fails in the end, the heartbeat ticks, and the      *)
(* server stops when its last connection ends.  No gate and no handler     *)
(* ever has to finish, and no client has to send, to read or to leave.     *)
(***************************************************************************)
FairTo(r) == /\ WF_vars(TimeOut(r)) /\ WF_vars(Record(r))
             /\ WF_vars(Close(r)) /\ WF_vars(Heartbeat(r))

Fairness == (\A r \in Requests : FairTo(r)) /\ WF_vars(Stop)

FairSpec == Spec /\ Fairness

-----------------------------------------------------------------------------
Stages == {"idle", "connected", "gate", "handler", "recording", "sending", "streaming",
           "done", "dropped", "closed", "cut"}

(* Every variable stays in its domain; the gauge is never negative. *)
TypeOK ==
  /\ server \in {"serving", "draining", "stopped"}
  /\ kind \in [Requests -> Kinds]
  /\ at \in [Requests -> Stages]
  /\ answer \in [Requests -> {"none", "ok", "refused", "timeout", "panic"}]
  /\ gone \subseteq Requests
  /\ active \in Nat
  /\ total \in Nat
  /\ scraped \in [Requests -> [active: Nat, total: Nat, arrived: Nat]]

(***************************************************************************)
(* The gauge is what it says but for one thing: it counts the requests     *)
(* that execute, and for ever those whose client left while they did.      *)
(* Timeouts, panics and refusals of any layer are taken off, whatever      *)
(* their order, and every response is in the totals once.                  *)
(***************************************************************************)
MetricsExplained ==
  /\ active = Cardinality(Executing) + Cardinality(Abandoned)
  /\ total = Cardinality(Recorded)

(***************************************************************************)
(* A scrape never sees one request as executing and as completed, though   *)
(* the gauge and the totals are updated in two steps: together they never  *)
(* exceed the requests that arrived.                                       *)
(***************************************************************************)
NoDoubleCount ==
  \A r \in Requests : scraped[r].active + scraped[r].total <= scraped[r].arrived

(***************************************************************************)
(* The HELP text of the gauge: "HTTP requests currently executing."        *)
(***************************************************************************)
ActiveIsExecuting == active = Cardinality(Executing)

(***************************************************************************)
(* A request ends in a response whatever hangs, in a gate as in a handler  *)
(* ("Ordering is a correctness property, not style", build_router).        *)
(***************************************************************************)
RequestsEnd ==
  \A r \in Requests : at[r] \in {"gate", "handler"} ~> at[r] \notin {"gate", "handler"}

(***************************************************************************)
(* A stream whose client is gone is found out and ends.                    *)
(***************************************************************************)
StreamsReclaimed ==
  \A r \in Requests : (at[r] = "streaming" /\ r \in gone) ~> (at[r] # "streaming")

(***************************************************************************)
(* After a signal the server stops whatever hangs behind the gates and     *)
(* whoever is lost while a response is sent, unless a client holds it: one *)
(* that does not complete its request, does not read its response to the   *)
(* end, or stays on /app/events, which has no end.  Nothing limits these.  *)
(***************************************************************************)
ClientHeld(r) ==
  \/ at[r] = "connected"
  \/ r \notin gone /\ (at[r] = "sending" \/ (at[r] = "streaming" /\ kind[r] = "events"))

DrainCompletes == []<>(server # "draining" \/ \E r \in Requests : ClientHeld(r))

(***************************************************************************)
(* The drain cuts only WebSockets off: when the server has stopped, every  *)
(* other request of a client that stayed, of one whose head was complete   *)
(* only after the signal too, has been answered and its response sent.     *)
(***************************************************************************)
NobodyCutOff ==
  server = "stopped" =>
    \A r \in Requests \ gone :
      \/ at[r] = "idle"
      \/ at[r] = "done" /\ answer[r] # "none"
      \/ at[r] = "cut" /\ kind[r] = "socket"

(***************************************************************************)
(* What main.rs and docs/web-api-data-access.md say of the browser streams *)
(* at shutdown: they are not cut, they drain.                              *)
(***************************************************************************)
StreamsDrain == \A r \in Requests : at[r] = "cut" => r \in gone
=============================================================================
