----------------------------- MODULE UserStore ------------------------------
(***************************************************************************)
(* The customer's own rows in PostgreSQL (src/store.rs) and the handlers   *)
(* of src/main.rs that read and write them: preferences, the trusted       *)
(* sessions of the security page, and notifications.                       *)
(*                                                                         *)
(* No handler opens a transaction: a request is a sequence of statements,  *)
(* each atomic, and any number of requests interleave between them.  A row *)
(* is read first and then written by primary key, so the second statement  *)
(* acts on what the first one saw.  A statement can fail, before or after  *)
(* the database executed it, and a request can be dropped with a statement *)
(* sent that executes later.                                               *)
(*                                                                         *)
(* Revoking a session (status = 'revoked') and reading a notification      *)
(* (read_at = now) are the same program on different tables: find a row of *)
(* the caller that is not marked, then mark it.  Both are "mark" here; a   *)
(* session is asked for by its device label, a notification by its id.     *)
(***************************************************************************)
EXTENDS Naturals, FiniteSets

CONSTANTS
  Requests,    \* HTTP requests, each handled once
  Subjects,    \* Supabase users (CustomerCtx.user_id)
  Columns,     \* the columns a preferences form sets
  Values,      \* their values
  NoRow,       \* no preferences row
  Items,       \* the session and notification rows other services insert
  NoItem,      \* no row found
  Owner,       \* Owner[i]: the user_id column of row i
  Kind,        \* Kind[i]: "session" or "notification", the table of row i
  Label,       \* Label[i]: the device of a session, the id of a notification
  Inputs,      \* what the requests ask for (InputAssumption)
  MaxFaults    \* bound on failed statements and dropped requests

Forms == [Columns -> Values]

Ops == {"save", "mark", "show", "read"}

Kinds == {"session", "notification"}

(* "form" answers with the refreshed fragment, "api" with JSON. *)
Views == {"form", "api"}

ASSUME RowAssumption ==
  /\ NoRow \notin Forms
  /\ NoItem \notin Items
  /\ Owner \in [Items -> Subjects]
  /\ Kind \in [Items -> Kinds]
  /\ DOMAIN Label = Items

(* A request that any check before the first statement refuses is `refused'. *)
ASSUME InputAssumption ==
  \A x \in Inputs :
    /\ x.subject \in Subjects
    /\ x.op \in Ops
    /\ x.form \in Forms
    /\ x.kind \in Kinds
    /\ x.view \in Views
    /\ x.refused \in BOOLEAN

ASSUME FaultAssumption == MaxFaults \in Nat

VARIABLES
  users,     \* the subjects that have a users row
  prefs,     \* customer_preferences, by user_id
  rows,      \* rows[i]: "absent", "unmarked" or "marked"
  input,     \* input[r]: what request r asks for
  pc,        \* pc[r]: the statement request r awaits
  phase,     \* phase[r]: "act", or "render" once the fragment is being built
  existing,  \* existing[r]: the preferences row upsert_preferences found
  target,    \* target[r]: the row the first statement of a mark found
  answer,    \* answer[r]: what the client is told
  shown,     \* shown[r]: the rows of the fragment, with their state
  left,      \* left[r]: the write a request gave up waiting for, not yet executed
  hit,       \* requests a fault has hit
  inserted,  \* the requests whose INSERT made a preferences row
  faults     \* faults so far

vars == <<users, prefs, rows, input, pc, phase, existing, target, answer,
          shown, left, hit, inserted, faults>>

tables == <<users, prefs, rows, inserted>>

Writes == {"insertUser", "savePrefs", "mark"}

Reads == {"findUser", "refindUser", "findPrefs", "findRow", "list", "count"}

Init ==
  /\ users = {}
  /\ prefs = [s \in Subjects |-> NoRow]
  /\ rows = [i \in Items |-> "absent"]
  /\ input \in [Requests -> Inputs]
  /\ pc = [r \in Requests |-> "idle"]
  /\ phase = [r \in Requests |-> "act"]
  /\ existing = [r \in Requests |-> NoRow]
  /\ target = [r \in Requests |-> NoItem]
  /\ answer = [r \in Requests |-> "none"]
  /\ shown = [r \in Requests |-> {}]
  /\ left = [r \in Requests |-> "none"]
  /\ hit = {}
  /\ inserted = {}
  /\ faults = 0

Subject(r) == input[r].subject

Own(s) == {i \in Items : Owner[i] = s /\ rows[i] # "absent"}

Await(r, statement) == pc' = [pc EXCEPT ![r] = statement]

Answer(r, a) ==
  /\ Await(r, "done")
  /\ answer' = [answer EXCEPT ![r] = a]

-----------------------------------------------------------------------------
(* Another service inserts a session or a notification of a known user. *)
Deliver(i) ==
  /\ rows[i] = "absent"
  /\ Owner[i] \in users
  /\ rows' = [rows EXCEPT ![i] = "unmarked"]
  /\ UNCHANGED <<users, prefs, input, pc, phase, existing, target, answer,
                 shown, left, hit, inserted, faults>>

(***************************************************************************)
(* authenticate, the CSRF or API-write check, the fields of the form, and  *)
(* in caller_user_id the pool and the email: all before any statement.     *)
(***************************************************************************)
Begin(r) ==
  /\ pc[r] = "idle"
  /\ IF input[r].refused
     THEN Answer(r, "refused")
     ELSE Await(r, "findUser") /\ UNCHANGED answer
  /\ UNCHANGED <<tables, input, phase, existing, target, shown, left, hit, faults>>

(* The statement after caller_user_id. *)
AfterUser(r) ==
  CASE phase[r] = "render" -> "list"
    [] phase[r] = "act" /\ input[r].op \in {"save", "read"} -> "findPrefs"
    [] phase[r] = "act" /\ input[r].op = "mark" -> "findRow"
    [] OTHER -> "list"

(* ensure_user: SELECT ... WHERE supabase_user_id. *)
FindUser(r) ==
  /\ pc[r] = "findUser"
  /\ Await(r, IF Subject(r) \in users THEN AfterUser(r) ELSE "insertUser")
  /\ UNCHANGED <<tables, input, phase, existing, target, answer, shown, left, hit, faults>>

(* The SELECT after a failed INSERT: the winner's row, or RecordNotFound. *)
RefindUser(r) ==
  /\ pc[r] = "refindUser"
  /\ IF Subject(r) \in users
     THEN Await(r, AfterUser(r)) /\ UNCHANGED answer
     ELSE Answer(r, "failed")
  /\ UNCHANGED <<tables, input, phase, existing, target, shown, left, hit, faults>>

(* get_preferences, and the SELECT of upsert_preferences. *)
FindPrefs(r) ==
  /\ pc[r] = "findPrefs"
  /\ IF input[r].op = "save"
     THEN /\ Await(r, "savePrefs")
          /\ existing' = [existing EXCEPT ![r] = prefs[Subject(r)]]
          /\ UNCHANGED answer
     ELSE Answer(r, "read") /\ UNCHANGED existing
  /\ UNCHANGED <<tables, input, phase, target, shown, left, hit, faults>>

(***************************************************************************)
(* The filters of revoke_session and of mark_notification_read: the        *)
(* caller's rows, with the label or id asked for, not marked yet.          *)
(***************************************************************************)
(* Mutant: the row is looked up without the filter on user_id. *)
MatchingOfAnyUser(r) ==
  {i \in Items : /\ Kind[i] = input[r].kind
                 /\ Label[i] = input[r].label
                 /\ rows[i] = "unmarked"}

Matching(r) ==
  {i \in Own(Subject(r)) : /\ Kind[i] = input[r].kind
                           /\ Label[i] = input[r].label
                           /\ rows[i] = "unmarked"}

(* After the mark, "api" answers and "form" goes on to build the fragment. *)
Conclude(r, a) ==
  /\ answer' = [answer EXCEPT ![r] = a]
  /\ Await(r, IF input[r].view = "form" THEN "findUser" ELSE "done")
  /\ phase' = [phase EXCEPT ![r] = IF input[r].view = "form" THEN "render" ELSE @]

(* SELECT ... .one(db): some matching row, or Ok(false). *)
FindRow(r) ==
  /\ pc[r] = "findRow"
  /\ \/ /\ Matching(r) = {}
        /\ Conclude(r, "nothing")
        /\ UNCHANGED target
     \/ \E i \in Matching(r) :
          /\ target' = [target EXCEPT ![r] = i]
          /\ Await(r, "mark")
          /\ UNCHANGED <<answer, phase>>
  /\ UNCHANGED <<tables, input, existing, shown, left, hit, faults>>

-----------------------------------------------------------------------------
(***************************************************************************)
(* What a write does to the tables.  Both INSERTs meet a unique index; the *)
(* UPDATEs name their row by primary key and set every column of the form. *)
(***************************************************************************)
Conflict(r, w) ==
  \/ w = "insertUser" /\ Subject(r) \in users
  \/ w = "savePrefs" /\ existing[r] = NoRow /\ prefs[Subject(r)] # NoRow

(* Mutant: only the columns that differ from the row found are set. *)
ExecuteChangedColumns(r, w) ==
  LET s == Subject(r)
      old == prefs[s]
      merged == [c \in Columns |-> IF existing[r] # NoRow /\ existing[r][c] = input[r].form[c]
                                   THEN old[c] ELSE input[r].form[c]]
  IN
  /\ users' = IF w = "insertUser" THEN users \cup {s} ELSE users
  /\ IF w = "savePrefs" /\ ~Conflict(r, w)
     THEN /\ prefs' = [prefs EXCEPT ![s] = merged]
          /\ inserted' = IF existing[r] = NoRow THEN inserted \cup {r} ELSE inserted
     ELSE UNCHANGED <<prefs, inserted>>
  /\ rows' = IF w = "mark" THEN [rows EXCEPT ![target[r]] = "marked"] ELSE rows

(* Mutant: the INSERT leaves a column out. *)
ExecuteOmittingColumn(r, w) ==
  LET s == Subject(r)
      columns == IF existing[r] = NoRow THEN Columns \ {CHOOSE c \in Columns : TRUE} ELSE Columns
  IN
  /\ users' = IF w = "insertUser" THEN users \cup {s} ELSE users
  /\ IF w = "savePrefs" /\ ~Conflict(r, w)
     THEN /\ prefs' = [prefs EXCEPT ![s] = [c \in columns |-> input[r].form[c]]]
          /\ inserted' = IF existing[r] = NoRow THEN inserted \cup {r} ELSE inserted
     ELSE UNCHANGED <<prefs, inserted>>
  /\ rows' = IF w = "mark" THEN [rows EXCEPT ![target[r]] = "marked"] ELSE rows

Execute(r, w) ==
  LET s == Subject(r) IN
  /\ users' = IF w = "insertUser" THEN users \cup {s} ELSE users
  /\ IF w = "savePrefs" /\ ~Conflict(r, w)
     THEN /\ prefs' = [prefs EXCEPT ![s] = input[r].form]
          /\ inserted' = IF existing[r] = NoRow THEN inserted \cup {r} ELSE inserted
     ELSE UNCHANGED <<prefs, inserted>>
  /\ rows' = IF w = "mark" THEN [rows EXCEPT ![target[r]] = "marked"] ELSE rows

(* Mutant: an INSERT that loses the race is the request's failure. *)
InsertUserOrFail(r) ==
  /\ pc[r] = "insertUser"
  /\ Execute(r, "insertUser")
  /\ IF Conflict(r, "insertUser")
     THEN Answer(r, "failed")
     ELSE Await(r, AfterUser(r)) /\ UNCHANGED answer
  /\ UNCHANGED <<input, phase, existing, target, shown, left, hit, faults>>

(* ensure_user's INSERT; an error of any kind is answered by a second SELECT. *)
InsertUser(r) ==
  /\ pc[r] = "insertUser"
  /\ Execute(r, "insertUser")
  /\ Await(r, IF Conflict(r, "insertUser") THEN "refindUser" ELSE AfterUser(r))
  /\ UNCHANGED <<input, phase, existing, target, answer, shown, left, hit, faults>>

(* upsert_preferences' UPDATE or INSERT: preferences_write_failed on a conflict. *)
SavePrefs(r) ==
  /\ pc[r] = "savePrefs"
  /\ Execute(r, "savePrefs")
  /\ Answer(r, IF Conflict(r, "savePrefs") THEN "failed" ELSE "saved")
  /\ UNCHANGED <<input, phase, existing, target, shown, left, hit, faults>>

(* The UPDATE of revoke_session and of mark_notification_read: Ok(true). *)
Mark(r) ==
  /\ pc[r] = "mark"
  /\ Execute(r, "mark")
  /\ Conclude(r, "marked")
  /\ UNCHANGED <<input, existing, target, shown, left, hit, faults>>

(* Mutant: the list is not restricted to the caller's rows. *)
ListEveryRow(r) ==
  /\ pc[r] = "list"
  /\ shown' = [shown EXCEPT ![r] = {<<i, rows[i]>> : i \in {i \in Items :
                  Kind[i] = input[r].kind /\ rows[i] # "absent"}}]
  /\ IF input[r].kind = "notification"
     THEN Await(r, "count") /\ UNCHANGED answer
     ELSE Answer(r, IF phase[r] = "act" THEN "listed" ELSE answer[r])
  /\ UNCHANGED <<tables, input, phase, existing, target, left, hit, faults>>

(***************************************************************************)
(* list_sessions or list_notifications: the caller's rows, newest first.   *)
(* (Items is meant to be smaller than the LIMITs, 200 and 50.)             *)
(***************************************************************************)
List(r) ==
  /\ pc[r] = "list"
  /\ shown' = [shown EXCEPT ![r] = {<<i, rows[i]>> : i \in {i \in Own(Subject(r)) :
                  Kind[i] = input[r].kind}}]
  /\ IF input[r].kind = "notification"
     THEN Await(r, "count") /\ UNCHANGED answer
     ELSE Answer(r, IF phase[r] = "act" THEN "listed" ELSE answer[r])
  /\ UNCHANGED <<tables, input, phase, existing, target, left, hit, faults>>

(* unread_notification_count, a statement of its own. *)
Count(r) ==
  /\ pc[r] = "count"
  /\ Answer(r, IF phase[r] = "act" THEN "listed" ELSE answer[r])
  /\ UNCHANGED <<tables, input, phase, existing, target, shown, left, hit, faults>>

-----------------------------------------------------------------------------
Fault(r) ==
  /\ faults < MaxFaults
  /\ faults' = faults + 1
  /\ hit' = hit \cup {r}

(* A write that nobody awaits any more: executed, never to be, or still to be. *)
GiveUp(r) ==
  \/ pc[r] \in Writes /\ Execute(r, pc[r]) /\ UNCHANGED left
  \/ UNCHANGED <<tables, left>>
  \/ pc[r] \in Writes /\ left' = [left EXCEPT ![r] = pc[r]] /\ UNCHANGED tables

(* Mutant: the error of the UPDATE is ignored. *)
StatementFailsUnnoticed(r) ==
  /\ pc[r] \in Reads \cup Writes
  /\ Fault(r)
  /\ GiveUp(r)
  /\ CASE pc[r] = "insertUser" -> Await(r, "refindUser") /\ UNCHANGED <<answer, phase>>
       [] pc[r] = "mark" -> Conclude(r, "marked")
       [] OTHER -> Answer(r, "failed") /\ UNCHANGED phase
  /\ UNCHANGED <<input, existing, target, shown>>

(* A DbErr: ensure_user's INSERT is followed by the second SELECT, the rest by 5xx. *)
StatementFails(r) ==
  /\ pc[r] \in Reads \cup Writes
  /\ Fault(r)
  /\ GiveUp(r)
  /\ IF pc[r] = "insertUser"
     THEN Await(r, "refindUser") /\ UNCHANGED answer
     ELSE Answer(r, "failed")
  /\ UNCHANGED <<input, phase, existing, target, shown>>

(* TimeoutLayer, a disconnect or a crash drops the handler. *)
Drop(r) ==
  /\ pc[r] \in Reads \cup Writes
  /\ Fault(r)
  /\ GiveUp(r)
  /\ Answer(r, "lost")
  /\ UNCHANGED <<input, phase, existing, target, shown>>

(* A write left behind executes; nobody sees its result. *)
LateWrite(r) ==
  /\ left[r] # "none"
  /\ Execute(r, left[r])
  /\ left' = [left EXCEPT ![r] = "none"]
  /\ UNCHANGED <<input, pc, phase, existing, target, answer, shown, hit, faults>>

Handle(r) ==
  \/ Begin(r) \/ FindUser(r) \/ InsertUser(r) \/ RefindUser(r)
  \/ FindPrefs(r) \/ SavePrefs(r) \/ FindRow(r) \/ Mark(r) \/ List(r) \/ Count(r)

Next ==
  \/ \E r \in Requests : Handle(r) \/ StatementFails(r) \/ Drop(r) \/ LateWrite(r)
  \/ \E i \in Items : Deliver(i)

Spec == Init /\ [][Next]_vars

-----------------------------------------------------------------------------
Answers == {"none", "refused", "failed", "lost", "read", "saved", "marked", "nothing", "listed"}

(* Every variable stays in its domain. *)
TypeOK ==
  /\ users \in SUBSET Subjects
  /\ prefs \in [Subjects -> Forms \cup {NoRow}]
  /\ rows \in [Items -> {"absent", "unmarked", "marked"}]
  /\ input \in [Requests -> Inputs]
  /\ pc \in [Requests -> Reads \cup Writes \cup {"idle", "done"}]
  /\ phase \in [Requests -> {"act", "render"}]
  /\ existing \in [Requests -> Forms \cup {NoRow}]
  /\ target \in [Requests -> Items \cup {NoItem}]
  /\ answer \in [Requests -> Answers]
  /\ shown \in [Requests -> SUBSET (Items \X {"unmarked", "marked"})]
  /\ left \in [Requests -> Writes \cup {"none"}]
  /\ hit \in SUBSET Requests
  /\ inserted \in SUBSET Requests
  /\ faults \in 0..MaxFaults

(***************************************************************************)
(* Concurrency alone fails one thing only, a first save that another first *)
(* save of the same user overtook: an error that no fault explains is the  *)
(* answer to a save, of a user whose preferences another request inserted. *)
(* In particular the loser of the users race (ensure_user) never fails.    *)
(***************************************************************************)
FailuresExplained ==
  \A r \in Requests :
    answer[r] = "failed" /\ r \notin hit =>
      /\ input[r].op = "save"
      /\ \E q \in inserted \ {r} : Subject(q) = Subject(r)

(***************************************************************************)
(* "Session revoked." and "Notification marked read." are true: the row is *)
(* marked, stays so, and the fragment that carries the message (a later    *)
(* statement's rows) does not list it as active or unread.                 *)
(***************************************************************************)
MarkedMeansMarked ==
  \A r \in Requests :
    answer[r] = "marked" =>
      /\ target[r] \in Items
      /\ rows[target[r]] = "marked"
      /\ <<target[r], "unmarked">> \notin shown[r]

(***************************************************************************)
(* The tables implement UserLedger: however the statements of concurrent   *)
(* requests interleave, fail or run late, preferences are one submitted    *)
(* form and never a mix of two, a row is marked for its owner only, who    *)
(* asked, and nobody is shown the rows of another user.                    *)
(***************************************************************************)
Sent(op) == {r \in Requests : pc[r] # "idle" /\ input[r].op = op}

Asked(r) == {i \in Items : Kind[i] = input[r].kind /\ Label[i] = input[r].label}

SubmittedForms == {<<Subject(r), input[r].form>> : r \in Sent("save")}

AskedRows == UNION {{Subject(r)} \X Asked(r) : r \in Sent("mark")}

SeenRows == UNION {{<<Subject(r), x[1]>> : x \in shown[r]} : r \in Requests}

UL == INSTANCE UserLedger WITH
        submitted <- SubmittedForms, asked <- AskedRows, seen <- SeenRows

ImplementsUserLedger == UL!Spec
=============================================================================
