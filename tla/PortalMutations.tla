-------------------------- MODULE PortalMutations ---------------------------
(***************************************************************************)
(* The portal's writes to other services: customer API keys, whose         *)
(* authority is fiducia-auth (src/main.rs), and cron schedules and         *)
(* functions, proxied to fiducia-node and the lambda service (src/cron.rs).*)
(* The portal keeps nothing of them.  Every form it renders carries the    *)
(* CSRF token of the session, the organisation and a fresh idempotency     *)
(* key; an attempt is verified, forwarded under that key, and on success   *)
(* answered with a refreshed fragment, which needs further upstream reads. *)
(*                                                                         *)
(* htmx swaps the fragment in on a 2xx only.  The create forms are outside *)
(* of the fragment and stay in the page with their key; the forms of the   *)
(* rows are inside and are replaced.  Attempts of one form can overlap, be *)
(* lost at any await, and leave an upstream call behind.  A client of the  *)
(* JSON API is a form of its own here: it repeats one request under one    *)
(* key, with its own credential, and is answered without a fragment.       *)
(***************************************************************************)
EXTENDS Naturals

CONSTANTS
  Forms,        \* rendered forms, and operations of API clients
  Handlers,     \* attempts that can be in flight
  FormsOfHandlers, \* which form each attempt submits: the assignments to consider
  KindsOfForms, \* which kind each form has: the assignments to consider
  Accounts,     \* customers
  NoAccount,    \* nobody: for whom a form is that is not yet rendered
  Sessions,     \* credentials: the tokens of sign-ins, and of step-ups
  NoSession,    \* no session cookie; also the owner of a form not yet rendered
  AccountOf,    \* AccountOf[s]: whom session s signs in
  FirstSessions,\* the sessions to begin with
  Orgs,         \* organisations
  Contents,     \* what the user fills in
  ValidContents,\* what the handlers' checks accept
  Configured,   \* the upstream services whose URL and secret are set
  Stamps,       \* values of now_ms()
  MaxFaults,    \* bound on lost calls, failed reads and dropped handlers
  MaxMoves      \* bound on switches and ends of sessions, lost memberships and navigations

(***************************************************************************)
(* What can be submitted, by the handlers that answer it: forms of the     *)
(* API-key and the cron page, and the calls of the JSON API.  An action of *)
(* a row pauses, resumes or deletes it (a schedule), or checks, pauses or  *)
(* deletes it (a function); a call of the API creates, updates or does one *)
(* of these.                                                               *)
(***************************************************************************)
KeyForms == {"create_key", "rotate_key", "revoke_key"}

KeyCalls == {"api_create_key", "api_rotate_key", "api_revoke_key"}

ScheduleForms == {"create_schedule", "schedule_action", "trigger"}

ScheduleCalls == {"api_schedule", "api_trigger"}

FunctionForms == {"create_function", "function_action"}

FunctionCalls == {"api_function"}

Kinds == UNION {KeyForms, KeyCalls, ScheduleForms, ScheduleCalls, FunctionForms, FunctionCalls}

Services == {"keys", "node", "functions"}

ASSUME MutationAssumption ==
  /\ FormsOfHandlers \subseteq [Handlers -> Forms]
  /\ KindsOfForms \subseteq [Forms -> Kinds]
  /\ NoAccount \notin Accounts /\ NoSession \notin Sessions
  /\ AccountOf \in [Sessions -> Accounts] /\ FirstSessions \subseteq Sessions
  /\ ValidContents \subseteq Contents /\ ValidContents # {}
  /\ Stamps # {}
  /\ Configured \subseteq Services
  /\ MaxFaults \in Nat /\ MaxMoves \in Nat

VARIABLES
  kind,       \* kind[f]: the kind of form f
  formOf,     \* formOf[h]: the form attempt h submits
  owner,      \* owner[f]: the session f was rendered for: its CSRF token is bound to it
  org,        \* org[f]: the organisation in the form
  present,    \* present[f]: f can be submitted (is in the page)
  displaced,  \* forms the page lost by navigating or by another form's fragment
  cookie,     \* the session of the browser's cookie
  live,       \* the sessions that authenticate() and the assurance gate let through
  orgs,       \* orgs[a]: the organisations of account a
  pc,         \* pc[h]: where the handler of attempt h stands
  attempt,    \* attempt[h]: its session, content, time stamp and membership found
  answer,     \* answer[h]: the outcome so far
  stored,     \* upstream idempotency records: <<key, request>>
  made,       \* made[f]: how often f's operation took effect upstream
  authors,    \* authors[f]: the attempts that made it, as <<session, member>>
  late,       \* calls whose handler is gone and which may still execute
  revealed,   \* forms whose secret the client has been shown
  sent,       \* sent[f]: the contents submitted with f
  faults, moves

formVars == <<kind, formOf, owner, org, present, displaced>>
client == <<cookie, live, orgs, moves>>
upstream == <<stored, made, authors>>

vars == <<formVars, client, pc, attempt, answer, upstream, late, revealed, sent, faults>>

Api(f) == kind[f] \in KeyCalls \cup ScheduleCalls \cup FunctionCalls

(* fiducia-auth, fiducia-node and the lambda service. *)
Service(f) ==
  CASE kind[f] \in KeyForms \cup KeyCalls -> "keys"
    [] kind[f] \in ScheduleForms \cup ScheduleCalls -> "node"
    [] kind[f] \in FunctionForms \cup FunctionCalls -> "functions"

(* The part of a page that a success replaces: the table of keys, or the inventory of crons. *)
Fragment(f) == IF Service(f) = "keys" THEN "keys" ELSE "crons"

(* The forms with fields to fill in; they are outside of the fragment. *)
Editable(f) == kind[f] \in {"create_key", "create_schedule", "create_function"}

(* What a success leaves where it is. *)
Sticky(f) == Api(f) \/ Editable(f)

(* create and rotate answer with a secret that is shown once. *)
Secret(f) == kind[f] \in {"create_key", "rotate_key", "api_create_key", "api_rotate_key"}

(* Mutant: every call carries the time. *)
StampedAlways(f) == TRUE

(* A manual run without a fire id is forwarded with now_ms(). *)
Stamped(f) == kind[f] \in {"trigger", "api_trigger"}

NoAttempt == [session |-> NoSession, content |-> CHOOSE c \in Contents : TRUE,
              stamp |-> CHOOSE t \in Stamps : TRUE, member |-> FALSE]

Init ==
  /\ kind \in KindsOfForms
  /\ formOf \in FormsOfHandlers
  /\ owner = [f \in Forms |-> NoSession]
  /\ org \in [Forms -> Orgs]
  /\ present = [f \in Forms |-> FALSE]
  /\ displaced = {}
  /\ cookie \in FirstSessions
  /\ live = Sessions
  /\ orgs = [a \in Accounts |-> Orgs]
  /\ pc = [h \in Handlers |-> "idle"]
  /\ attempt = [h \in Handlers |-> NoAttempt]
  /\ answer = [h \in Handlers |-> "none"]
  /\ stored = {}
  /\ made = [f \in Forms |-> 0]
  /\ authors = [f \in Forms |-> {}]
  /\ late = {}
  /\ revealed = {}
  /\ sent = [f \in Forms |-> {}]
  /\ faults = 0
  /\ moves = 0

-----------------------------------------------------------------------------
(* The client's side. *)

(* A page or a fragment renders form f for the session and one of its organisations. *)
Render(f) ==
  /\ owner[f] = NoSession
  /\ cookie \in live
  /\ org[f] \in orgs[AccountOf[cookie]]
  /\ owner' = [owner EXCEPT ![f] = cookie]
  /\ present' = [present EXCEPT ![f] = TRUE]
  /\ UNCHANGED <<kind, formOf, org, displaced, client, pc, attempt, answer, upstream, late,
                 revealed, sent, faults>>

(* The credentials f can be submitted with; a client of the API gets itself another in time. *)
Credentials(f) ==
  CASE ~Api(f) -> {cookie}
    [] Api(f) /\ owner[f] \in live -> {owner[f]}
    [] Api(f) /\ owner[f] \notin live -> {s \in Sessions : AccountOf[s] = AccountOf[owner[f]]}

(* The form is submitted, for the first time or again, with the cookie of the moment. *)
Submit(h) ==
  LET f == formOf[h] IN
  /\ pc[h] = "idle"
  /\ present[f]
  /\ \E c \in IF Editable(f) THEN Contents ELSE {CHOOSE c \in ValidContents : TRUE} :
       /\ \E s \in Credentials(f) :
            attempt' = [attempt EXCEPT ![h] = [NoAttempt EXCEPT !.session = s, !.content = c]]
       /\ sent' = [sent EXCEPT ![f] = @ \cup {c}]
  /\ pc' = [pc EXCEPT ![h] = "verify"]
  /\ UNCHANGED <<formVars, client, answer, upstream, late, revealed, faults>>

Move == moves < MaxMoves /\ moves' = moves + 1

(* Another tab signs in, with the same account or another, activates a factor, or signs out. *)
Switch ==
  /\ Move
  /\ \E s \in live \cup {NoSession} : s # cookie /\ cookie' = s
  /\ UNCHANGED <<formVars, live, orgs, pc, attempt, answer, upstream, late, revealed, sent, faults>>

(* A session expires or is revoked, or its account comes to require another factor. *)
Expire ==
  /\ Move
  /\ \E s \in live : live' = live \ {s}
  /\ UNCHANGED <<formVars, cookie, orgs, pc, attempt, answer, upstream, late, revealed, sent, faults>>

(* An account is removed from an organisation. *)
Leave ==
  /\ Move
  /\ \E a \in Accounts : \E o \in orgs[a] : orgs' = [orgs EXCEPT ![a] = @ \ {o}]
  /\ UNCHANGED <<formVars, cookie, live, pc, attempt, answer, upstream, late, revealed, sent, faults>>

(* The browser leaves the page. *)
Navigate ==
  LET gone == {f \in Forms : present[f] /\ ~Api(f)} IN
  /\ Move
  /\ gone # {}
  /\ present' = [f \in Forms |-> present[f] /\ f \notin gone]
  /\ displaced' = displaced \cup gone
  /\ UNCHANGED <<kind, formOf, owner, org, cookie, live, orgs, pc, attempt, answer, upstream, late,
                 revealed, sent, faults>>

-----------------------------------------------------------------------------
(* The handlers. *)

(* Mutant: the form's CSRF token is not compared with the session. *)
AuthenticWithoutCsrf(h) == attempt[h].session \in live

(* A valid session and the CSRF token of that very session; a bearer credential needs none. *)
Authentic(h) ==
  /\ attempt[h].session \in live
  /\ Api(formOf[h]) \/ attempt[h].session = owner[formOf[h]]

(* The organisation of the form, or of the header, is one of the account's. *)
Member(h) == org[formOf[h]] \in orgs[AccountOf[attempt[h].session]]

(* The fields and the idempotency key pass the handler's own checks. *)
Valid(h) == attempt[h].content \in ValidContents

(* What a handler asks before it forwards anything, the configured service last. *)
Accepted(h) ==
  /\ Authentic(h)
  /\ Member(h)
  /\ Valid(h)
  /\ Service(formOf[h]) \in Configured

(* The handler is gone, and its slot free. *)
Free(h) ==
  /\ pc' = [pc EXCEPT ![h] = "idle"]
  /\ attempt' = [attempt EXCEPT ![h] = NoAttempt]
  /\ answer' = [answer EXCEPT ![h] = "none"]

Finish(h, a) ==
  /\ pc' = [pc EXCEPT ![h] = "answered"]
  /\ answer' = [answer EXCEPT ![h] = a]

Verify(h) ==
  LET f == formOf[h] IN
  /\ pc[h] = "verify"
  /\ IF Accepted(h)
     THEN /\ pc' = [pc EXCEPT ![h] = "call"]
          /\ \E t \in IF Stamped(f) THEN Stamps ELSE {NoAttempt.stamp} :
               attempt' = [attempt EXCEPT ![h].stamp = t, ![h].member =
                              org[f] \in orgs[AccountOf[attempt[h].session]]]
          /\ UNCHANGED answer
     ELSE Finish(h, "refused") /\ UNCHANGED attempt
  /\ UNCHANGED <<formVars, client, upstream, late, revealed, sent, faults>>

(* Mutant: the portal sends a key of its own with every call. *)
KeyPerCall(h) == h

(* The idempotency key of the form, forwarded as it is. *)
KeyOf(h) == formOf[h]

(* The request as the service sees it: what its fingerprint is taken of. *)
Request(h) ==
  [content |-> attempt[h].content, org |-> org[formOf[h]], stamp |-> attempt[h].stamp]

Call(h) == [key |-> KeyOf(h), form |-> formOf[h], session |-> attempt[h].session,
            member |-> attempt[h].member, request |-> Request(h)]

Stored(k) == {s \in stored : s[1] = k}

(***************************************************************************)
(* fiducia-auth verifies the forwarded session and its organisation again; *)
(* the others trust the portal.  Which of the sessions that the portal no  *)
(* longer lets through fiducia-auth still admits is open.                  *)
(***************************************************************************)
Unwelcome(c) == c.request.org \notin orgs[AccountOf[c.session]]

Verdicts(c) ==
  CASE Service(c.form) # "keys" -> {TRUE}
    [] Service(c.form) = "keys" /\ Unwelcome(c) -> {FALSE}
    [] Service(c.form) = "keys" /\ ~Unwelcome(c) ->
         IF c.session \in live THEN {TRUE} ELSE BOOLEAN

(***************************************************************************)
(* The service runs a new key once, replays the result of a key it knows   *)
(* with the same request, and refuses a key it knows with another one.     *)
(***************************************************************************)
Execute(c, admitted) ==
  IF admitted /\ Stored(c.key) = {}
  THEN /\ stored' = stored \cup {<<c.key, c.request>>}
       /\ made' = [made EXCEPT ![c.form] = @ + 1]
       /\ authors' = [authors EXCEPT ![c.form] = @ \cup {<<c.session, c.member>>}]
  ELSE UNCHANGED upstream

Result(c, admitted) ==
  CASE ~admitted -> "rejected"
    [] admitted /\ Stored(c.key) \in {{}, {<<c.key, c.request>>}} -> "ok"
    [] OTHER -> "conflict"

(* The service executes the call and replies. *)
Perform(h) ==
  /\ pc[h] = "call"
  /\ \E admitted \in Verdicts(Call(h)) :
       /\ Execute(Call(h), admitted)
       /\ answer' = [answer EXCEPT ![h] = Result(Call(h), admitted)]
  /\ pc' = [pc EXCEPT ![h] = "reply"]
  /\ UNCHANGED <<formVars, client, attempt, late, revealed, sent, faults>>

(* Mutant: the status of the reply is not looked at. *)
ReceiveAnyStatus(h) ==
  /\ pc[h] = "reply"
  /\ IF Api(formOf[h])
     THEN Finish(h, "ok")
     ELSE pc' = [pc EXCEPT ![h] = "list"] /\ answer' = [answer EXCEPT ![h] = "ok"]
  /\ UNCHANGED <<formVars, client, attempt, upstream, late, revealed, sent, faults>>

(* A 2xx goes on to the fragment, or to the JSON answer; anything else is passed on. *)
Receive(h) ==
  /\ pc[h] = "reply"
  /\ IF Api(formOf[h]) \/ answer[h] # "ok"
     THEN Finish(h, answer[h])
     ELSE pc' = [pc EXCEPT ![h] = "list"] /\ UNCHANGED answer
  /\ UNCHANGED <<formVars, client, attempt, upstream, late, revealed, sent, faults>>

(* The lists of the fragment: GET /v1/keys, or the schedules and the functions. *)
List(h) ==
  /\ pc[h] = "list"
  /\ \/ TRUE \in Verdicts(Call(h)) /\ Finish(h, "ok")
     \/ FALSE \in Verdicts(Call(h)) /\ Finish(h, "list_failed")
  /\ UNCHANGED <<formVars, client, attempt, upstream, late, revealed, sent, faults>>

Fault == faults < MaxFaults /\ faults' = faults + 1

(* Mutant: the fragment is rendered without the list, and without the secret. *)
ListFailsSoftly(h) ==
  /\ pc[h] = "list"
  /\ Fault
  /\ Finish(h, "ok_without_secret")
  /\ UNCHANGED <<formVars, client, attempt, upstream, late, revealed, sent>>

(* api_keys_fragment_markup answers with the error; cron_fragment_for shows it as a note. *)
ListFails(h) ==
  /\ pc[h] = "list"
  /\ Fault
  /\ Finish(h, IF Service(formOf[h]) = "keys" THEN "list_failed" ELSE "ok")
  /\ UNCHANGED <<formVars, client, attempt, upstream, late, revealed, sent>>

(* A reply that is no JSON, too large, not the key that was asked for, or that no key was revoked. *)
BadReply(h) ==
  /\ pc[h] = "reply"
  /\ Fault
  /\ Finish(h, "bad_response")
  /\ UNCHANGED <<formVars, client, attempt, upstream, late, revealed, sent>>

(* A call nobody awaits any more: executed, never to be, or still to be. *)
GiveUp(h) ==
  \/ pc[h] = "call" /\ (\E admitted \in Verdicts(Call(h)) : Execute(Call(h), admitted))
     /\ UNCHANGED late
  \/ UNCHANGED <<upstream, late>>
  \/ pc[h] = "call" /\ late' = late \cup {Call(h)} /\ UNCHANGED upstream

(* The upstream client times out or loses its connection (502 or 503), or the service fails. *)
Unreachable(h) ==
  /\ pc[h] = "call"
  /\ Fault
  /\ GiveUp(h)
  /\ Finish(h, "unavailable")
  /\ UNCHANGED <<formVars, client, attempt, revealed, sent>>

(* The handler is dropped, or its response lost: the client sees no answer. *)
Drop(h) ==
  /\ pc[h] # "idle"
  /\ Fault
  /\ GiveUp(h)
  /\ Free(h)
  /\ UNCHANGED <<formVars, client, revealed, sent>>

LateCall(c) ==
  /\ c \in late
  /\ \E admitted \in Verdicts(c) : Execute(c, admitted)
  /\ late' = late \ {c}
  /\ UNCHANGED <<formVars, client, pc, attempt, answer, revealed, sent, faults>>

(* The forms inside of the fragment that f's success refreshes. *)
Replaced(f) ==
  IF Api(f) THEN {}
  ELSE {g \in Forms : present[g] /\ ~Sticky(g) /\ Fragment(g) = Fragment(f)}

Success(h) == answer[h] \in {"ok", "ok_without_secret"}

(* The response arrives; only a success is swapped into the page. *)
Deliver(h) ==
  LET f == formOf[h] IN
  /\ pc[h] = "answered"
  /\ present[f]
  /\ Free(h)
  /\ IF Success(h)
     THEN /\ present' = [g \in Forms |-> present[g] /\ g \notin Replaced(f)]
          /\ displaced' = displaced \cup (Replaced(f) \ {f})
          /\ revealed' = IF Secret(f) /\ answer[h] = "ok" THEN revealed \cup {f} ELSE revealed
     ELSE UNCHANGED <<present, displaced, revealed>>
  /\ UNCHANGED <<kind, formOf, owner, org, client, upstream, late, sent, faults>>

(* The form is no longer in the page: nobody sees the response. *)
Ignore(h) ==
  /\ pc[h] = "answered"
  /\ ~present[formOf[h]]
  /\ Free(h)
  /\ UNCHANGED <<formVars, client, upstream, late, revealed, sent, faults>>

Handle(h) ==
  Verify(h) \/ Perform(h) \/ Receive(h) \/ List(h) \/ Deliver(h) \/ Ignore(h)

Next ==
  \/ \E f \in Forms : Render(f)
  \/ \E h \in Handlers :
       \/ Submit(h) \/ Handle(h) \/ ListFails(h) \/ BadReply(h) \/ Unreachable(h) \/ Drop(h)
  \/ \E c \in late : LateCall(c)
  \/ Switch \/ Expire \/ Leave \/ Navigate

Spec == Init /\ [][Next]_vars

(***************************************************************************)
(* Fairness: handlers are polled, the services reply to what is not lost,  *)
(* and the client submits again until it has its answer.  Nothing forces a *)
(* call left behind to execute.                                            *)
(***************************************************************************)
FairTo(h) == WF_vars(Handle(h)) /\ WF_vars(Submit(h))

Fairness == \A h \in Handlers : FairTo(h)

FairSpec == Spec /\ Fairness

-----------------------------------------------------------------------------
AttemptType == [session: Sessions \cup {NoSession}, content: Contents, stamp: Stamps,
                member: BOOLEAN]

RequestType == [content: Contents, org: Orgs, stamp: Stamps]

CallType == [key: Forms, form: Forms, session: Sessions, member: BOOLEAN, request: RequestType]

Outcomes == {"none", "refused", "ok", "rejected", "conflict", "list_failed", "bad_response",
             "unavailable"}

(* Every variable stays in its domain. *)
TypeOK ==
  /\ kind \in [Forms -> Kinds]
  /\ formOf \in [Handlers -> Forms]
  /\ owner \in [Forms -> Sessions \cup {NoSession}]
  /\ org \in [Forms -> Orgs]
  /\ present \in [Forms -> BOOLEAN]
  /\ displaced \in SUBSET Forms
  /\ cookie \in Sessions \cup {NoSession}
  /\ live \in SUBSET Sessions
  /\ orgs \in [Accounts -> SUBSET Orgs]
  /\ pc \in [Handlers -> {"idle", "verify", "call", "reply", "list", "answered"}]
  /\ attempt \in [Handlers -> AttemptType]
  /\ answer \in [Handlers -> Outcomes]
  /\ stored \in SUBSET (Forms \X RequestType)
  /\ made \in [Forms -> Nat]
  /\ authors \in [Forms -> SUBSET (Sessions \X BOOLEAN)]
  /\ late \in SUBSET CallType
  /\ revealed \in SUBSET Forms
  /\ sent \in [Forms -> SUBSET Contents]
  /\ faults \in 0..MaxFaults
  /\ moves \in 0..MaxMoves

(***************************************************************************)
(* A form takes effect once: double clicks, retries after a lost answer,   *)
(* attempts that overlap and calls that outlive their handler all carry    *)
(* the key rendered into the form, so the service runs them once.          *)
(***************************************************************************)
OneEffectPerForm == \A f \in Forms : made[f] <= 1

(***************************************************************************)
(* An effect is made in the name of the account the form was rendered for, *)
(* a form of a page even by the session it was rendered for, found to be   *)
(* a member of the form's organisation when the attempt was verified, even *)
(* if the cookie has changed hands since the page loaded.                  *)
(***************************************************************************)
EffectByFormOwner ==
  \A f \in Forms : \A a \in authors[f] :
    /\ AccountOf[a[1]] = AccountOf[owner[f]]
    /\ ~Api(f) => a[1] = owner[f]
    /\ a[2]

(***************************************************************************)
(* A success is never reported for a request that did not take effect: a   *)
(* create form, which stays in the page with its key, submitted again with *)
(* other fields is refused and not answered with the first one's result.   *)
(***************************************************************************)
SuccessIsTrue ==
  \A h \in Handlers :
    pc[h] \in {"list", "answered"} /\ answer[h] = "ok" =>
      Stored(formOf[h]) = {<<formOf[h], Request(h)>>}

(***************************************************************************)
(* A secret that was issued and not shown can still be had: its form, with *)
(* the key that replays the answer, is in the page unless the user left or *)
(* another form's fragment replaced it.  No answer to the form itself, in  *)
(* particular not the failure of the list that comes after the issue,      *)
(* takes the form away without the secret.                                 *)
(***************************************************************************)
SecretRecoverable ==
  \A f \in Forms :
    Secret(f) /\ made[f] > 0 /\ f \notin revealed => present[f] \/ f \in displaced

(***************************************************************************)
(* A client that submits the same form until it is answered gets to see    *)
(* the secret, whatever was lost on the way, unless the form is gone, the  *)
(* very session it was rendered for is (another sign-in of the same        *)
(* account does not do), the membership is, or its fields were changed.    *)
(***************************************************************************)
Spoiled(f) ==
  \/ ~present[f]
  \/ owner[f] \notin live
  \/ ~Api(f) /\ cookie # owner[f]
  \/ org[f] \notin orgs[AccountOf[owner[f]]]
  \/ \E c, d \in sent[f] : c # d

SecretEventuallyShown ==
  \A f \in Forms : (Secret(f) /\ made[f] > 0) ~> (f \in revealed \/ Spoiled(f))

(***************************************************************************)
(* Lost answers, late calls, overlapping attempts and changed sessions     *)
(* included, the portal and the services keep the promise of OncePerForm.  *)
(***************************************************************************)
Record(f) == {<<AccountOf[a[1]], s[2].content>> : a \in authors[f], s \in Stored(f)}

For(f) == IF owner[f] = NoSession THEN NoAccount ELSE AccountOf[owner[f]]

Promise ==
  INSTANCE OncePerForm
  WITH owner <- [f \in Forms |-> For(f)],
       times <- made,
       record <- [f \in Forms |-> Record(f)],
       shown <- revealed

ImplementsPromise == Promise!Spec
=============================================================================
