-------------------------- MODULE UserStoreProofs ---------------------------
(***************************************************************************)
(* Proofs about UserStore for any number of requests, users, rows and      *)
(* faults.  What a request has established (Known) survives the steps of   *)
(* all others because the tables only grow: rows are inserted and marked,  *)
(* never deleted or unmarked.                                              *)
(***************************************************************************)
EXTENDS UserStore, TLAPS

(* The row a mark is about to write: the caller's own, and what was asked for. *)
MarksOwnRow(r) ==
  /\ input[r].op = "mark"
  /\ target[r] \in Asked(r)
  /\ Owner[target[r]] = Subject(r)
  /\ rows[target[r]] # "absent"

(* What a request that awaits a statement, or left one behind, knows. *)
Known(r) ==
  /\ pc[r] = "findRow" => input[r].op = "mark" /\ phase[r] = "act"
  /\ answer[r] = "marked" => phase[r] = "render" \/ pc[r] = "done"
  /\ pc[r] = "savePrefs" \/ left[r] = "savePrefs" => input[r].op = "save"
  /\ pc[r] = "mark" \/ left[r] = "mark" => MarksOwnRow(r)
  /\ pc[r] = "refindUser" /\ r \notin hit => Subject(r) \in users
  /\ existing[r] # NoRow => prefs[Subject(r)] # NoRow
  /\ left[r] # "none" => r \in hit /\ pc[r] # "idle"
  /\ shown[r] # {} => pc[r] \in {"count", "done"}
  /\ r \in inserted /\ r \notin hit => pc[r] = "done" /\ answer[r] = "saved"

(* FailuresExplained and MarkedMeansMarked, of one request. *)
Told(r) ==
  /\ answer[r] = "failed" /\ r \notin hit =>
       /\ input[r].op = "save"
       /\ \E q \in inserted \ {r} : Subject(q) = Subject(r)
  /\ answer[r] = "marked" =>
       /\ target[r] \in Items
       /\ rows[target[r]] = "marked"
       /\ <<target[r], "unmarked">> \notin shown[r]

(* A preferences row was inserted by some request of its user. *)
RowsInserted ==
  \A s \in Subjects : prefs[s] # NoRow => \E q \in inserted : Subject(q) = s

IInv ==
  /\ TypeOK
  /\ RowsInserted
  /\ \A r \in Requests : Known(r) /\ Told(r)

(* The tables grow, and no request changes what it asks for. *)
Grow ==
  /\ input' = input
  /\ users \subseteq users'
  /\ inserted \subseteq inserted'
  /\ \A s \in Subjects : prefs[s] # NoRow => prefs'[s] # NoRow
  /\ \A i \in Items : /\ rows[i] # "absent" => rows'[i] # "absent"
                      /\ rows[i] = "marked" => rows'[i] = "marked"

(* The step is not of request q. *)
Aside(q) ==
  /\ pc'[q] = pc[q] /\ phase'[q] = phase[q] /\ left'[q] = left[q] /\ target'[q] = target[q]
  /\ existing'[q] = existing[q]
  /\ answer'[q] = answer[q] /\ shown'[q] = shown[q]
  /\ (q \in hit' <=> q \in hit)
  /\ (q \in inserted' => q \in inserted)

-----------------------------------------------------------------------------
(* The columns of a request's input. *)
LEMMA InputFields ==
  ASSUME TypeOK, NEW r \in Requests
  PROVE  /\ input[r] \in Inputs
         /\ Subject(r) \in Subjects
         /\ input[r].form \in Forms
         /\ input[r].form # NoRow
         /\ input[r].op \in Ops
         /\ input[r].view \in Views
BY InputAssumption, RowAssumption DEF TypeOK, Subject

(* What the other requests know stays true. *)
LEMMA Frame ==
  ASSUME TypeOK, NEW q \in Requests, Known(q), Told(q), Grow, Aside(q)
  PROVE  Known(q)' /\ Told(q)'
<1>0. Subject(q) \in Subjects /\ input[q] \in Inputs
  BY InputFields
<1>1. Subject(q)' = Subject(q) /\ Asked(q)' = Asked(q) /\ Asked(q) \subseteq Items
  BY DEF Grow, Subject, Asked
<1>2. MarksOwnRow(q) => MarksOwnRow(q)'
  BY <1>1 DEF MarksOwnRow, Grow, Aside
<1>3. Known(q)'
  BY <1>0, <1>1, <1>2 DEF Known, Grow, Aside
<1>4. \A p \in Requests : Subject(p)' = Subject(p)
  BY DEF Grow, Subject
<1>5. inserted \subseteq Requests
  BY DEF TypeOK
<1>6. (answer[q] = "failed" /\ q \notin hit =>
         \E p \in inserted \ {q} : Subject(p) = Subject(q))
      => (answer'[q] = "failed" /\ q \notin hit' =>
            \E p \in inserted' \ {q} : Subject(p)' = Subject(q)')
  BY <1>1, <1>4, <1>5 DEF Grow, Aside
<1>7. Told(q)'
  BY <1>1, <1>6 DEF Told, Grow, Aside
<1> QED BY <1>3, <1>7

(* A write of a request that knows what it writes. *)
LEMMA ExecuteFacts ==
  ASSUME IInv, NEW r \in Requests, NEW w \in Writes, Execute(r, w), input' = input,
         w = "mark" => MarksOwnRow(r)
  PROVE  /\ Grow
         /\ RowsInserted'
         /\ users' \in SUBSET Subjects
         /\ prefs' \in [Subjects -> Forms \cup {NoRow}]
         /\ rows' \in [Items -> {"absent", "unmarked", "marked"}]
         /\ inserted' \in SUBSET Requests
         /\ \A q \in Requests : q # r /\ q \in inserted' => q \in inserted
         /\ w # "savePrefs" \/ Conflict(r, w) => inserted' = inserted
         /\ w = "insertUser" => Subject(r) \in users'
         /\ w = "mark" => rows'[target[r]] = "marked"
<1> USE RowAssumption
<1>0. TypeOK /\ RowsInserted
  BY DEF IInv
<1>1. Subject(r) \in Subjects /\ input[r].form \in Forms /\ input[r].form # NoRow
  BY <1>0, InputFields
<1>2. Asked(r) \subseteq Items
  BY DEF Asked
<1>3. users' \in SUBSET Subjects /\ users \subseteq users'
      /\ (w = "insertUser" => Subject(r) \in users')
  BY <1>0, <1>1 DEF Execute, TypeOK
<1>4. /\ rows' \in [Items -> {"absent", "unmarked", "marked"}]
      /\ \A i \in Items : /\ rows[i] # "absent" => rows'[i] # "absent"
                          /\ rows[i] = "marked" => rows'[i] = "marked"
      /\ w = "mark" => rows'[target[r]] = "marked"
  BY <1>0, <1>2 DEF Execute, TypeOK, MarksOwnRow
<1>5. /\ inserted' \in SUBSET Requests
      /\ inserted \subseteq inserted'
      /\ inserted' \subseteq inserted \cup {r}
      /\ w # "savePrefs" \/ Conflict(r, w) => inserted' = inserted
  BY <1>0 DEF Execute, TypeOK
<1>6. prefs' \in [Subjects -> Forms \cup {NoRow}]
  BY <1>0, <1>1 DEF Execute, TypeOK
<1>7. Grow
  <2>1. \A s \in Subjects : prefs[s] # NoRow => prefs'[s] # NoRow
    BY <1>0, <1>1 DEF Execute, TypeOK
  <2> QED BY <2>1, <1>3, <1>4, <1>5 DEF Grow
<1>8. \A q \in Requests : Subject(q)' = Subject(q)
  BY DEF Subject
<1>9. RowsInserted'
  <2> SUFFICES ASSUME NEW s \in Subjects, prefs'[s] # NoRow
               PROVE  \E q \in inserted' : Subject(q)' = s
    BY DEF RowsInserted
  <2>1. CASE prefs[s] # NoRow
    BY <2>1, <1>0, <1>5, <1>8 DEF RowsInserted, TypeOK
  <2>2. CASE prefs[s] = NoRow
    <3>1. w = "savePrefs" /\ ~Conflict(r, w) /\ s = Subject(r)
      BY <2>2, <1>0, <1>1 DEF Execute, TypeOK
    <3>2. CASE existing[r] = NoRow
      <4>1. r \in inserted'
        BY <3>1, <3>2 DEF Execute
      <4> QED BY <4>1, <3>1, <1>8
    <3>3. CASE existing[r] # NoRow
      BY <2>2, <3>1, <3>3, <1>0 DEF IInv, Known
    <3> QED BY <3>2, <3>3
  <2> QED BY <2>1, <2>2
<1> QED BY <1>3, <1>4, <1>5, <1>6, <1>7, <1>9

-----------------------------------------------------------------------------
(* A step of request r, and of nothing else. *)
LEMMA OneRequestStep ==
  ASSUME IInv, NEW r \in Requests, TypeOK', RowsInserted', Grow, Known(r)', Told(r)',
         \A q \in Requests \ {r} : Aside(q)
  PROVE  IInv'
<1>1. ASSUME NEW q \in Requests \ {r} PROVE Known(q)' /\ Told(q)'
  BY <1>1, Frame DEF IInv
<1> QED BY <1>1 DEF IInv

(* A step that leaves the tables alone. *)
LEMMA ReadFacts ==
  ASSUME IInv, UNCHANGED <<tables, input>>
  PROVE  Grow /\ RowsInserted'
BY DEF IInv, tables, Grow, RowsInserted, Subject

(* The initial states satisfy the invariant. *)
LEMMA InitIInv == Init => IInv
<1> SUFFICES ASSUME Init PROVE IInv
  OBVIOUS
<1> USE RowAssumption, FaultAssumption
<1>1. TypeOK
  BY DEF Init, TypeOK, Reads, Writes, Answers
<1>2. RowsInserted
  BY DEF Init, RowsInserted
<1>3. ASSUME NEW r \in Requests PROVE Known(r) /\ Told(r)
  BY DEF Init, Known, Told
<1> QED BY <1>1, <1>2, <1>3 DEF IInv

(* A request enters its handler, or is refused. *)
LEMMA BeginStep ==
  ASSUME IInv, NEW r \in Requests, Begin(r)
  PROVE  IInv'
<1>0. TypeOK /\ Known(r) /\ Told(r)
  BY DEF IInv
<1>1. Grow /\ RowsInserted'
  BY ReadFacts DEF Begin
<1>2. TypeOK'
  BY <1>0, InputFields DEF Begin, Await, Answer, tables, TypeOK, Reads, Writes, Answers
<1>3. Known(r)' /\ Told(r)'
  BY <1>0, InputFields DEF Begin, Await, Answer, tables, TypeOK, Known, Told, MarksOwnRow, Subject, Asked, Ops
<1>4. \A q \in Requests \ {r} : Aside(q)
  BY <1>0 DEF Begin, Await, Answer, tables, TypeOK, Aside
<1> QED BY <1>1, <1>2, <1>3, <1>4, OneRequestStep

(* The first SELECT of ensure_user. *)
LEMMA FindUserStep ==
  ASSUME IInv, NEW r \in Requests, FindUser(r)
  PROVE  IInv'
<1>0. TypeOK /\ Known(r) /\ Told(r)
  BY DEF IInv
<1>1. Grow /\ RowsInserted'
  BY ReadFacts DEF FindUser
<1>2. TypeOK'
  BY <1>0, InputFields DEF FindUser, Await, Answer, tables, TypeOK, Reads, Writes, Answers, AfterUser
<1>3. Known(r)' /\ Told(r)'
  BY <1>0, InputFields DEF FindUser, Await, Answer, tables, TypeOK, Known, Told, MarksOwnRow, Subject, Asked, Ops, AfterUser
<1>4. \A q \in Requests \ {r} : Aside(q)
  BY <1>0 DEF FindUser, Await, Answer, tables, TypeOK, Aside, AfterUser
<1> QED BY <1>1, <1>2, <1>3, <1>4, OneRequestStep

(* The second SELECT of ensure_user: an unfaulted loser finds the winner's row. *)
LEMMA RefindUserStep ==
  ASSUME IInv, NEW r \in Requests, RefindUser(r)
  PROVE  IInv'
<1>0. TypeOK /\ Known(r) /\ Told(r)
  BY DEF IInv
<1>1. Grow /\ RowsInserted'
  BY ReadFacts DEF RefindUser
<1>2. TypeOK'
  BY <1>0, InputFields DEF RefindUser, Await, Answer, tables, TypeOK, Reads, Writes, Answers, AfterUser
<1>3. Known(r)' /\ Told(r)'
  BY <1>0, InputFields DEF RefindUser, Await, Answer, tables, TypeOK, Known, Told, MarksOwnRow, Subject, Asked, Ops, AfterUser
<1>4. \A q \in Requests \ {r} : Aside(q)
  BY <1>0 DEF RefindUser, Await, Answer, tables, TypeOK, Aside, AfterUser
<1> QED BY <1>1, <1>2, <1>3, <1>4, OneRequestStep

(* The SELECT of the preferences. *)
LEMMA FindPrefsStep ==
  ASSUME IInv, NEW r \in Requests, FindPrefs(r)
  PROVE  IInv'
<1>0. TypeOK /\ Known(r) /\ Told(r)
  BY DEF IInv
<1>1. Grow /\ RowsInserted'
  BY ReadFacts DEF FindPrefs
<1>2. TypeOK'
  BY <1>0, InputFields DEF FindPrefs, Await, Answer, tables, TypeOK, Reads, Writes, Answers
<1>3. Known(r)' /\ Told(r)'
  BY <1>0, InputFields DEF FindPrefs, Await, Answer, tables, TypeOK, Known, Told, MarksOwnRow, Subject, Asked, Ops
<1>4. \A q \in Requests \ {r} : Aside(q)
  BY <1>0 DEF FindPrefs, Await, Answer, tables, TypeOK, Aside
<1> QED BY <1>1, <1>2, <1>3, <1>4, OneRequestStep

(* The SELECT of the row to mark: it is of the caller and was asked for. *)
LEMMA FindRowStep ==
  ASSUME IInv, NEW r \in Requests, FindRow(r)
  PROVE  IInv'
<1>0. TypeOK /\ Known(r) /\ Told(r)
  BY DEF IInv
<1>1. Grow /\ RowsInserted'
  BY ReadFacts DEF FindRow
<1>2. TypeOK'
  BY <1>0, InputFields DEF FindRow, Await, Answer, tables, TypeOK, Reads, Writes, Answers, Conclude, Matching, Own
<1>3. Known(r)' /\ Told(r)'
  BY <1>0, InputFields DEF FindRow, Await, Answer, tables, TypeOK, Known, Told, MarksOwnRow, Subject, Asked, Ops, Conclude, Matching, Own
<1>4. \A q \in Requests \ {r} : Aside(q)
  BY <1>0 DEF FindRow, Await, Answer, tables, TypeOK, Aside, Conclude, Matching, Own
<1> QED BY <1>1, <1>2, <1>3, <1>4, OneRequestStep

(* The rows of the fragment: a row the request has marked is listed as marked. *)
LEMMA ListStep ==
  ASSUME IInv, NEW r \in Requests, List(r)
  PROVE  IInv'
<1>0. TypeOK /\ Known(r) /\ Told(r)
  BY DEF IInv
<1>1. Grow /\ RowsInserted'
  BY ReadFacts DEF List
<1>2. TypeOK'
  BY <1>0, InputFields DEF List, Await, Answer, tables, TypeOK, Reads, Writes, Answers, Own
<1>3. Known(r)' /\ Told(r)'
  BY <1>0, InputFields DEF List, Await, Answer, tables, TypeOK, Known, Told, MarksOwnRow, Subject, Asked, Ops, Own
<1>4. \A q \in Requests \ {r} : Aside(q)
  BY <1>0 DEF List, Await, Answer, tables, TypeOK, Aside, Own
<1> QED BY <1>1, <1>2, <1>3, <1>4, OneRequestStep

(* The unread count. *)
LEMMA CountStep ==
  ASSUME IInv, NEW r \in Requests, Count(r)
  PROVE  IInv'
<1>0. TypeOK /\ Known(r) /\ Told(r)
  BY DEF IInv
<1>1. Grow /\ RowsInserted'
  BY ReadFacts DEF Count
<1>2. TypeOK'
  BY <1>0, InputFields DEF Count, Await, Answer, tables, TypeOK, Reads, Writes, Answers
<1>3. Known(r)' /\ Told(r)'
  BY <1>0, InputFields DEF Count, Await, Answer, tables, TypeOK, Known, Told, MarksOwnRow, Subject, Asked, Ops
<1>4. \A q \in Requests \ {r} : Aside(q)
  BY <1>0 DEF Count, Await, Answer, tables, TypeOK, Aside
<1> QED BY <1>1, <1>2, <1>3, <1>4, OneRequestStep

(* The INSERT of ensure_user: a conflict leaves the winner's row to be found. *)
LEMMA InsertUserStep ==
  ASSUME IInv, NEW r \in Requests, InsertUser(r)
  PROVE  IInv'
<1>0. TypeOK /\ Known(r) /\ Told(r)
  BY DEF IInv
<1>1. /\ "insertUser" \in Writes /\ Execute(r, "insertUser") /\ input' = input
      /\ "insertUser" = "mark" => MarksOwnRow(r)
  BY <1>0 DEF InsertUser, Writes, Known
<1>2. Grow /\ RowsInserted'
  BY <1>1, ExecuteFacts
<1>3. TypeOK'
  BY <1>0, <1>1, ExecuteFacts, InputFields
     DEF InsertUser, Await, Answer, Conclude, AfterUser, TypeOK, Reads, Writes, Answers
<1>4. Known(r)' /\ Told(r)'
  BY <1>0, <1>1, <1>2, ExecuteFacts, InputFields
     DEF InsertUser, Await, Answer, Conclude, AfterUser, TypeOK, Known, Told, MarksOwnRow, Grow,
         Subject, Asked, Ops, Conflict, IInv, RowsInserted
<1>5. \A q \in Requests \ {r} : Aside(q)
  BY <1>0, <1>1, ExecuteFacts DEF InsertUser, Await, Answer, Conclude, AfterUser, TypeOK, Aside
<1> QED BY <1>2, <1>3, <1>4, <1>5, OneRequestStep

(* The write of the preferences: only an overtaken first save fails. *)
LEMMA SavePrefsStep ==
  ASSUME IInv, NEW r \in Requests, SavePrefs(r)
  PROVE  IInv'
<1>0. TypeOK /\ Known(r) /\ Told(r)
  BY DEF IInv
<1>1. /\ "savePrefs" \in Writes /\ Execute(r, "savePrefs") /\ input' = input
      /\ "savePrefs" = "mark" => MarksOwnRow(r)
  BY <1>0 DEF SavePrefs, Writes, Known
<1>2. Grow /\ RowsInserted'
  BY <1>1, ExecuteFacts
<1>3. TypeOK'
  BY <1>0, <1>1, ExecuteFacts, InputFields
     DEF SavePrefs, Await, Answer, Conclude, AfterUser, TypeOK, Reads, Writes, Answers
<1>4. Known(r)' /\ Told(r)'
  <2>1. /\ \A q \in Requests : Subject(q)' = Subject(q)
        /\ Subject(r) \in Subjects /\ inserted' \in SUBSET Requests
        /\ input'[r].op = "save" /\ input[r].op = "save"
    BY <1>0, <1>1, ExecuteFacts, InputFields DEF SavePrefs, Subject, Known
  <2>2. /\ pc[r] = "savePrefs" /\ pc'[r] = "done"
        /\ answer'[r] = IF Conflict(r, "savePrefs") THEN "failed" ELSE "saved"
        /\ left'[r] = left[r] /\ target'[r] = target[r] /\ shown'[r] = shown[r]
        /\ existing'[r] = existing[r] /\ (r \in hit' <=> r \in hit)
    BY <1>0 DEF SavePrefs, Await, Answer, TypeOK
  <2>3. ASSUME r \notin hit, Conflict(r, "savePrefs")
        PROVE  r \notin inserted' /\ \E q \in inserted' \ {r} : Subject(q) = Subject(r)
    <3>1. r \notin inserted /\ inserted' = inserted
      BY <1>0, <1>1, <2>2, <2>3, ExecuteFacts DEF Known
    <3>2. \E q \in inserted : Subject(q) = Subject(r)
      BY <2>1, <2>3 DEF Conflict, IInv, RowsInserted
    <3> QED BY <3>1, <3>2
  <2>4. MarksOwnRow(r) => MarksOwnRow(r)'
    <3>1. Asked(r) \subseteq Items /\ Asked(r)' = Asked(r)
      BY <1>1 DEF Asked
    <3> QED BY <1>1, <1>2, <2>1, <2>2, <3>1 DEF MarksOwnRow, Grow
  <2>5. Known(r)'
    BY <1>0, <1>2, <2>1, <2>2, <2>3, <2>4 DEF Known, Grow
  <2>6. Told(r)'
    <3>1. r \notin hit /\ Conflict(r, "savePrefs") =>
            \E q \in inserted' \ {r} : Subject(q)' = Subject(r)'
      BY <2>1, <2>3
    <3> QED BY <2>1, <2>2, <3>1 DEF Told
  <2> QED BY <2>5, <2>6
<1>5. \A q \in Requests \ {r} : Aside(q)
  BY <1>0, <1>1, ExecuteFacts DEF SavePrefs, Await, Answer, Conclude, AfterUser, TypeOK, Aside
<1> QED BY <1>2, <1>3, <1>4, <1>5, OneRequestStep

(* The UPDATE of a row: it is marked before the client is told so. *)
LEMMA MarkStep ==
  ASSUME IInv, NEW r \in Requests, Mark(r)
  PROVE  IInv'
<1>0. TypeOK /\ Known(r) /\ Told(r)
  BY DEF IInv
<1>1. /\ "mark" \in Writes /\ Execute(r, "mark") /\ input' = input
      /\ "mark" = "mark" => MarksOwnRow(r)
  BY <1>0 DEF Mark, Writes, Known
<1>2. Grow /\ RowsInserted'
  BY <1>1, ExecuteFacts
<1>3. TypeOK'
  BY <1>0, <1>1, ExecuteFacts, InputFields
     DEF Mark, Await, Answer, Conclude, AfterUser, TypeOK, Reads, Writes, Answers
<1>4. Known(r)' /\ Told(r)'
  BY <1>0, <1>1, <1>2, ExecuteFacts, InputFields
     DEF Mark, Await, Answer, Conclude, AfterUser, TypeOK, Known, Told, MarksOwnRow, Grow,
         Subject, Asked, Ops, Conflict, IInv, RowsInserted
<1>5. \A q \in Requests \ {r} : Aside(q)
  BY <1>0, <1>1, ExecuteFacts DEF Mark, Await, Answer, Conclude, AfterUser, TypeOK, Aside
<1> QED BY <1>2, <1>3, <1>4, <1>5, OneRequestStep

(* What giving up on a statement leaves: the write is done, forgotten or still to come. *)
LEMMA GiveUpFacts ==
  ASSUME IInv, NEW r \in Requests, pc[r] \in Reads \cup Writes, GiveUp(r), input' = input
  PROVE  /\ Grow /\ RowsInserted'
         /\ users' \in SUBSET Subjects
         /\ prefs' \in [Subjects -> Forms \cup {NoRow}]
         /\ rows' \in [Items -> {"absent", "unmarked", "marked"}]
         /\ inserted' \in SUBSET Requests
         /\ \A q \in Requests : q # r /\ q \in inserted' => q \in inserted
         /\ left' \in [Requests -> Writes \cup {"none"}]
         /\ left'[r] \in {left[r], pc[r]}
         /\ \A q \in Requests \ {r} : left'[q] = left[q]
<1>0. TypeOK /\ Known(r)
  BY DEF IInv
<1>1. CASE pc[r] \in Writes /\ Execute(r, pc[r]) /\ UNCHANGED left
  <2>1. pc[r] = "mark" => MarksOwnRow(r)
    BY <1>0 DEF Known
  <2> QED BY <1>0, <1>1, <2>1, ExecuteFacts DEF TypeOK
<1>2. CASE UNCHANGED tables /\ \/ UNCHANGED left
                               \/ pc[r] \in Writes /\ left' = [left EXCEPT ![r] = pc[r]]
  <2>1. Grow /\ RowsInserted'
    BY <1>2, ReadFacts
  <2> QED BY <1>0, <1>2, <2>1 DEF TypeOK, tables
<1> QED BY <1>1, <1>2 DEF GiveUp, tables

(* A fault ends the request, or sends ensure_user to its second SELECT. *)
LEMMA FaultStep ==
  ASSUME IInv, NEW r \in Requests, StatementFails(r) \/ Drop(r)
  PROVE  IInv'
<1> USE FaultAssumption
<1>0. TypeOK /\ Known(r) /\ Told(r)
  BY DEF IInv
<1>1. /\ pc[r] \in Reads \cup Writes /\ GiveUp(r) /\ Fault(r)
      /\ UNCHANGED <<input, phase, existing, target, shown>>
  BY DEF StatementFails, Drop
<1>2. Grow /\ RowsInserted'
  BY <1>1, GiveUpFacts
<1>3. \/ /\ pc[r] = "insertUser" /\ pc' = [pc EXCEPT ![r] = "refindUser"] /\ answer' = answer
      \/ /\ pc' = [pc EXCEPT ![r] = "done"]
         /\ \E a \in {"failed", "lost"} : answer' = [answer EXCEPT ![r] = a]
  BY DEF StatementFails, Drop, Answer, Await
<1>4. TypeOK'
  BY <1>0, <1>1, <1>3, GiveUpFacts DEF Fault, TypeOK, Reads, Writes, Answers
<1>5. hit' = hit \cup {r}
  BY <1>1 DEF Fault
<1>6. MarksOwnRow(r) => MarksOwnRow(r)'
  <2>1. Asked(r) \subseteq Items /\ Asked(r)' = Asked(r)
    BY <1>1 DEF Asked
  <2> QED BY <1>1, <1>2, <2>1 DEF MarksOwnRow, Grow, Subject
<1>7. Known(r)'
  <2>1. left'[r] \in {left[r], pc[r]}
    BY <1>1, GiveUpFacts
  <2>2. Subject(r)' = Subject(r) /\ Subject(r) \in Subjects
    BY <1>0, <1>1, InputFields DEF Subject
  <2>3. pc'[r] \in {"refindUser", "done"} /\ pc'[r] # "idle"
        /\ (pc'[r] = "refindUser" => answer'[r] = answer[r] /\ shown'[r] = {})
        /\ (pc'[r] = "done" => answer'[r] \in {"failed", "lost"})
    BY <1>0, <1>1, <1>3 DEF TypeOK, Known
  <2>4. existing'[r] # NoRow => prefs'[Subject(r)'] # NoRow
    BY <1>0, <1>1, <1>2, <2>2 DEF Known, Grow
  <2>5. /\ r \in hit' /\ input' = input /\ phase' = phase
        /\ pc'[r] \notin {"idle", "findRow", "savePrefs", "mark"}
    BY <1>1, <1>5, <2>3
  <2>6. answer'[r] = "marked" => phase'[r] = "render" \/ pc'[r] = "done"
    BY <1>0, <1>1, <2>3 DEF Known, Reads, Writes
  <2>7. /\ left'[r] = "savePrefs" => input'[r].op = "save"
        /\ left'[r] = "mark" => MarksOwnRow(r)'
    BY <1>0, <1>1, <1>6, <2>1 DEF Known
  <2>8. shown'[r] # {} => pc'[r] \in {"count", "done"}
    BY <2>3
  <2> QED BY <2>4, <2>5, <2>6, <2>7, <2>8 DEF Known
<1>8. Told(r)'
  <2>1. answer'[r] # "marked" \/ answer' = answer
    BY <1>0, <1>3 DEF TypeOK
  <2>2. r \in hit'
    BY <1>5
  <2> QED BY <1>0, <1>1, <1>2, <2>1, <2>2 DEF Told, Grow
<1>9. \A q \in Requests \ {r} : Aside(q)
  BY <1>0, <1>1, <1>3, <1>5, GiveUpFacts DEF TypeOK, Aside
<1> QED BY <1>2, <1>4, <1>7, <1>8, <1>9, OneRequestStep

(* A write left behind is still the write its request was entitled to. *)
LEMMA LateWriteStep ==
  ASSUME IInv, NEW r \in Requests, LateWrite(r)
  PROVE  IInv'
<1>0. TypeOK /\ Known(r) /\ Told(r)
  BY DEF IInv
<1>1. /\ left[r] \in Writes /\ Execute(r, left[r]) /\ left' = [left EXCEPT ![r] = "none"]
      /\ UNCHANGED <<input, pc, phase, existing, target, answer, shown, hit, faults>>
      /\ left[r] = "mark" => MarksOwnRow(r)
  BY <1>0 DEF LateWrite, TypeOK, Known
<1>2. Grow /\ RowsInserted'
  BY <1>1, ExecuteFacts
<1>3. TypeOK'
  BY <1>0, <1>1, ExecuteFacts DEF TypeOK
<1>4. r \in hit /\ left'[r] = "none" /\ r \in hit'
  BY <1>0, <1>1 DEF Known, TypeOK, Writes
<1>5. MarksOwnRow(r) => MarksOwnRow(r)'
  <2>1. Asked(r) \subseteq Items /\ Asked(r)' = Asked(r)
    BY <1>1 DEF Asked
  <2> QED BY <1>1, <1>2, <2>1 DEF MarksOwnRow, Grow, Subject
<1>6. Known(r)'
  <2>1. Subject(r)' = Subject(r) /\ Subject(r) \in Subjects
    BY <1>0, <1>1, InputFields DEF Subject
  <2> QED BY <1>0, <1>1, <1>2, <1>4, <1>5, <2>1 DEF Known, Grow
<1>7. Told(r)'
  BY <1>0, <1>1, <1>2, <1>4 DEF Told, Grow
<1>8. \A q \in Requests \ {r} : Aside(q)
  BY <1>0, <1>1, ExecuteFacts DEF TypeOK, Aside
<1> QED BY <1>2, <1>3, <1>6, <1>7, <1>8, OneRequestStep

(* A row another service inserts takes nothing from anybody. *)
LEMMA DeliverStep ==
  ASSUME IInv, NEW i \in Items, Deliver(i)
  PROVE  IInv'
<1>0. TypeOK
  BY DEF IInv
<1>1. Grow
  BY <1>0 DEF Deliver, Grow, TypeOK
<1>2. TypeOK' /\ RowsInserted'
  BY <1>0 DEF Deliver, TypeOK, IInv, RowsInserted, Subject
<1>3. ASSUME NEW q \in Requests PROVE Known(q)' /\ Told(q)'
  <2>1. Aside(q)
    BY DEF Deliver, Aside
  <2>2. Known(q) /\ Told(q)
    BY DEF IInv
  <2> QED BY <1>0, <1>1, <2>1, <2>2, Frame
<1> QED BY <1>2, <1>3 DEF IInv

(* The invariant is inductive. *)
LEMMA NextIInv == IInv /\ [Next]_vars => IInv'
<1> SUFFICES ASSUME IInv, [Next]_vars PROVE IInv'
  OBVIOUS
<1>1. ASSUME NEW r \in Requests, Handle(r) PROVE IInv'
  BY <1>1, BeginStep, FindUserStep, InsertUserStep, RefindUserStep, FindPrefsStep,
     SavePrefsStep, FindRowStep, MarkStep, ListStep, CountStep DEF Handle
<1>2. ASSUME NEW r \in Requests, StatementFails(r) \/ Drop(r) PROVE IInv'
  BY <1>2, FaultStep
<1>3. ASSUME NEW r \in Requests, LateWrite(r) PROVE IInv'
  BY <1>3, LateWriteStep
<1>4. ASSUME NEW i \in Items, Deliver(i) PROVE IInv'
  BY <1>4, DeliverStep
<1>5. CASE UNCHANGED vars
  <2>1. TypeOK' /\ RowsInserted'
    BY <1>5 DEF vars, IInv, TypeOK, RowsInserted, Subject
  <2>2. ASSUME NEW q \in Requests PROVE Known(q)' /\ Told(q)'
    <3>1. Grow /\ Aside(q)
      BY <1>5 DEF vars, Grow, Aside
    <3>2. TypeOK /\ Known(q) /\ Told(q)
      BY DEF IInv
    <3> QED BY <3>1, <3>2, Frame
  <2> QED BY <2>1, <2>2 DEF IInv
<1> QED BY <1>1, <1>2, <1>3, <1>4, <1>5 DEF Next

-----------------------------------------------------------------------------
(* The inductive invariant holds in every reachable state. *)
THEOREM Invariance == Spec => []IInv
<1> QED BY InitIInv, NextIInv, PTL DEF Spec

(* Every variable stays in its domain. *)
THEOREM TypeCorrect == Spec => []TypeOK
<1>1. IInv => TypeOK
  BY DEF IInv
<1> QED BY <1>1, Invariance, PTL

(* Without a fault, only a first save that was overtaken by another fails. *)
THEOREM FailuresAreExplained == Spec => []FailuresExplained
<1>1. IInv => FailuresExplained
  BY DEF IInv, Told, FailuresExplained
<1> QED BY <1>1, Invariance, PTL

(* A client told that a row is marked has been told the truth. *)
THEOREM MarkedIsTrue == Spec => []MarkedMeansMarked
<1>1. IInv => MarkedMeansMarked
  BY DEF IInv, Told, MarkedMeansMarked
<1> QED BY <1>1, Invariance, PTL

-----------------------------------------------------------------------------
(* The tables start as UserLedger's do. *)
LEMMA LedgerInit == Init => UL!Init
<1> SUFFICES ASSUME Init PROVE UL!Init
  OBVIOUS
<1>1. SubmittedForms = {} /\ AskedRows = {} /\ SeenRows = {}
  BY DEF Init, SubmittedForms, AskedRows, SeenRows, Sent
<1> QED BY <1>1 DEF Init, UL!Init

(* What clients sent and saw does not change in a step that neither begins nor lists. *)
LEMMA ClientsUnchanged ==
  ASSUME TypeOK, input' = input, shown' = shown,
         \A r \in Requests : pc'[r] = "idle" <=> pc[r] = "idle"
  PROVE  SubmittedForms' = SubmittedForms /\ AskedRows' = AskedRows /\ SeenRows' = SeenRows
<1>1. \A op \in {"save", "mark"} : Sent(op)' = Sent(op)
  BY DEF Sent
<1> QED BY <1>1 DEF SubmittedForms, AskedRows, SeenRows, Asked, Subject

(* A write by a request that knows what it writes is one step of the ledger, or none. *)
LEMMA LedgerWrite ==
  ASSUME IInv, NEW r \in Requests, NEW w \in Writes, Execute(r, w), pc[r] # "idle",
         w = "savePrefs" => input[r].op = "save",
         w = "mark" => MarksOwnRow(r),
         SubmittedForms' = SubmittedForms, AskedRows' = AskedRows, SeenRows' = SeenRows
  PROVE  [UL!Next]_UL!vars
<1>0. TypeOK /\ Subject(r) \in Subjects /\ input[r].form \in Forms
  BY InputFields DEF IInv
<1>1. CASE w = "savePrefs" /\ ~Conflict(r, w)
  <2>1. <<Subject(r), input[r].form>> \in SubmittedForms
    BY <1>1 DEF SubmittedForms, Sent
  <2>2. UL!Save(Subject(r), input[r].form)
    BY <1>1, <2>1 DEF Execute, UL!Save
  <2> QED BY <1>0, <2>2 DEF UL!Next
<1>2. CASE w = "mark"
  <2>1. target[r] \in Items
    BY <1>2 DEF MarksOwnRow, Asked
  <2>2. <<Owner[target[r]], target[r]>> \in AskedRows
    BY <1>2 DEF MarksOwnRow, AskedRows, Sent
  <2>3. UL!Mark(target[r])
    BY <1>2, <2>2 DEF MarksOwnRow, Execute, UL!Mark
  <2> QED BY <2>1, <2>3 DEF UL!Next
<1>3. CASE w = "insertUser" \/ (w = "savePrefs" /\ Conflict(r, w))
  BY <1>3 DEF Execute, UL!vars
<1> QED BY <1>1, <1>2, <1>3 DEF Writes

(* A request begins: its client has submitted a form, or asked for rows. *)
LEMMA LedgerBegin ==
  ASSUME IInv, NEW r \in Requests, Begin(r)
  PROVE  [UL!Next]_UL!vars
<1>0. TypeOK /\ Subject(r) \in Subjects /\ input[r].form \in Forms /\ input[r].op \in Ops
  BY InputFields DEF IInv
<1>1. /\ pc[r] = "idle" /\ pc'[r] # "idle" /\ \A q \in Requests \ {r} : pc'[q] = pc[q]
      /\ input' = input /\ shown' = shown /\ prefs' = prefs /\ rows' = rows
  BY <1>0 DEF Begin, Answer, Await, TypeOK, tables
<1>2. SeenRows' = SeenRows
  BY <1>1 DEF SeenRows, Subject
<1>3. \A op \in Ops : Sent(op)' = IF input[r].op = op THEN Sent(op) \cup {r} ELSE Sent(op)
  BY <1>1 DEF Sent
<1>4. /\ input[r].op = "save" =>
           SubmittedForms' = SubmittedForms \cup {<<Subject(r), input[r].form>>}
      /\ input[r].op # "save" => SubmittedForms' = SubmittedForms
  BY <1>1, <1>3 DEF SubmittedForms, Subject, Ops
<1>5. Asked(r) \subseteq Items
  BY DEF Asked
<1>6. /\ AskedRows \subseteq AskedRows'
      /\ AskedRows' \subseteq AskedRows \cup ({Subject(r)} \X Items)
      /\ input[r].op # "mark" => AskedRows' = AskedRows
  <2>1. \A q \in Requests : Subject(q)' = Subject(q) /\ Asked(q)' = Asked(q)
    BY <1>1 DEF Subject, Asked
  <2>2. Sent("mark") \subseteq Requests
    BY DEF Sent
  <2>3. CASE input[r].op = "mark"
    <3>1. Sent("mark")' = Sent("mark") \cup {r}
      BY <1>3, <2>3 DEF Ops
    <3> QED BY <1>5, <2>1, <2>2, <2>3, <3>1 DEF AskedRows
  <2>4. CASE input[r].op # "mark"
    <3>1. Sent("mark")' = Sent("mark")
      BY <1>3, <2>4 DEF Ops
    <3> QED BY <2>1, <2>2, <3>1 DEF AskedRows
  <2> QED BY <2>3, <2>4
<1>7. CASE input[r].op = "save"
  BY <1>0, <1>1, <1>2, <1>4, <1>6, <1>7 DEF UL!Submit, UL!Next
<1>8. CASE input[r].op = "mark"
  <2>1. UL!Ask(Subject(r))
    BY <1>1, <1>2, <1>4, <1>6, <1>8 DEF UL!Ask
  <2> QED BY <1>0, <2>1 DEF UL!Next
<1>9. CASE input[r].op \notin {"save", "mark"}
  BY <1>1, <1>2, <1>4, <1>6, <1>9 DEF UL!vars
<1> QED BY <1>7, <1>8, <1>9

(* A fragment is built: its client is shown rows of its own. *)
LEMMA LedgerList ==
  ASSUME IInv, NEW r \in Requests, List(r)
  PROVE  [UL!Next]_UL!vars
<1>0. TypeOK /\ Known(r) /\ Subject(r) \in Subjects
  BY InputFields DEF IInv
<1>1. /\ pc[r] = "list" /\ pc'[r] # "idle" /\ \A q \in Requests \ {r} : pc'[q] = pc[q]
      /\ input' = input /\ prefs' = prefs /\ rows' = rows
  BY <1>0 DEF List, Answer, Await, TypeOK, tables
<1>2. SubmittedForms' = SubmittedForms /\ AskedRows' = AskedRows
  <2>1. \A op \in {"save", "mark"} : Sent(op)' = Sent(op)
    BY <1>1 DEF Sent
  <2> QED BY <1>1, <2>1 DEF SubmittedForms, AskedRows, Asked, Subject
<1>3. shown[r] = {} /\ \A q \in Requests \ {r} : shown'[q] = shown[q]
  BY <1>0, <1>1 DEF List, Known, TypeOK
<1>4. shown'[r] \subseteq {<<i, rows[i]>> : i \in Own(Subject(r))}
  BY <1>0 DEF List, TypeOK
<1>5. \A q \in Requests : Subject(q)' = Subject(q)
  BY <1>1 DEF Subject
<1>6. SeenRows \subseteq SeenRows'
  BY <1>3, <1>5 DEF SeenRows
<1>7. SeenRows' \subseteq
        SeenRows \cup ({Subject(r)} \X {i \in Items : Owner[i] = Subject(r) /\ rows[i] # "absent"})
  <2> SUFFICES ASSUME NEW y \in SeenRows', y \notin SeenRows
               PROVE  y \in {Subject(r)} \X
                            {i \in Items : Owner[i] = Subject(r) /\ rows[i] # "absent"}
    OBVIOUS
  <2>1. PICK q \in Requests : \E x \in shown'[q] : y = <<Subject(q), x[1]>>
    BY <1>5 DEF SeenRows
  <2>2. q = r
    BY <2>1, <1>3 DEF SeenRows
  <2>3. PICK i \in Own(Subject(r)) : y = <<Subject(r), i>>
    BY <1>4, <2>1, <2>2
  <2> QED BY <2>3 DEF Own
<1>8. UL!Show(Subject(r))
  BY <1>1, <1>2, <1>6, <1>7 DEF UL!Show
<1> QED BY <1>0, <1>8 DEF UL!Next

(* Every step of the program is a step of the ledger or invisible in it. *)
LEMMA LedgerStep == IInv /\ [Next]_vars => [UL!Next]_UL!vars
<1> SUFFICES ASSUME IInv, [Next]_vars PROVE [UL!Next]_UL!vars
  OBVIOUS
<1>0. TypeOK /\ \A r \in Requests : Known(r)
  BY DEF IInv
<1>1. ASSUME NEW r \in Requests,
             FindUser(r) \/ RefindUser(r) \/ FindPrefs(r) \/ FindRow(r) \/ Count(r)
      PROVE  [UL!Next]_UL!vars
  <2>1. /\ input' = input /\ shown' = shown /\ prefs' = prefs /\ rows' = rows
        /\ \A q \in Requests : pc'[q] = "idle" <=> pc[q] = "idle"
    BY <1>0, <1>1 DEF FindUser, RefindUser, FindPrefs, FindRow, Count, Answer, Await, Conclude,
                      AfterUser, TypeOK, tables
  <2> QED BY <1>0, <2>1, ClientsUnchanged DEF UL!vars
<1>2. ASSUME NEW r \in Requests, InsertUser(r) \/ SavePrefs(r) \/ Mark(r)
      PROVE  [UL!Next]_UL!vars
  <2>1. /\ input' = input /\ shown' = shown
        /\ \A q \in Requests : pc'[q] = "idle" <=> pc[q] = "idle"
    BY <1>0, <1>2 DEF InsertUser, SavePrefs, Mark, Answer, Await, Conclude, AfterUser, TypeOK
  <2>2. pc[r] \in Writes /\ Execute(r, pc[r]) /\ pc[r] # "idle"
    BY <1>2 DEF InsertUser, SavePrefs, Mark, Writes
  <2> QED BY <1>0, <2>1, <2>2, ClientsUnchanged, LedgerWrite DEF Known
<1>3. ASSUME NEW r \in Requests, StatementFails(r) \/ Drop(r)
      PROVE  [UL!Next]_UL!vars
  <2>1. /\ input' = input /\ shown' = shown /\ pc[r] # "idle" /\ GiveUp(r)
        /\ \A q \in Requests : pc'[q] = "idle" <=> pc[q] = "idle"
    BY <1>0, <1>3 DEF StatementFails, Drop, Answer, Await, Reads, Writes, TypeOK
  <2>2. CASE UNCHANGED tables
    BY <1>0, <2>1, <2>2, ClientsUnchanged DEF tables, UL!vars
  <2>3. CASE pc[r] \in Writes /\ Execute(r, pc[r])
    BY <1>0, <2>1, <2>3, ClientsUnchanged, LedgerWrite DEF Known
  <2> QED BY <2>1, <2>2, <2>3 DEF GiveUp, tables
<1>4. ASSUME NEW r \in Requests, LateWrite(r)
      PROVE  [UL!Next]_UL!vars
  <2>1. /\ input' = input /\ shown' = shown /\ pc' = pc /\ Execute(r, left[r])
        /\ left[r] \in Writes /\ pc[r] # "idle"
    BY <1>0, <1>4 DEF LateWrite, TypeOK, Known
  <2> QED BY <1>0, <2>1, ClientsUnchanged, LedgerWrite DEF Known
<1>5. ASSUME NEW i \in Items, Deliver(i)
      PROVE  [UL!Next]_UL!vars
  <2>1. SubmittedForms' = SubmittedForms /\ AskedRows' = AskedRows /\ SeenRows' = SeenRows
    BY <1>0, <1>5, ClientsUnchanged DEF Deliver
  <2> QED BY <1>5, <2>1 DEF Deliver, UL!Arrive, UL!Next
<1>6. CASE UNCHANGED vars
  BY <1>0, <1>6, ClientsUnchanged DEF vars, UL!vars
<1> QED BY <1>1, <1>2, <1>3, <1>4, <1>5, <1>6, LedgerBegin, LedgerList DEF Next, Handle

(***************************************************************************)
(* The program implements UserLedger: whole preference forms, marks at     *)
(* their owner's request, and nobody's rows shown to anybody else.         *)
(***************************************************************************)
THEOREM Refinement == Spec => ImplementsUserLedger
<1> QED BY LedgerInit, LedgerStep, Invariance, PTL DEF Spec, ImplementsUserLedger, UL!Spec
=============================================================================
