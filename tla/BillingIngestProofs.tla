------------------------ MODULE BillingIngestProofs ------------------------
(***************************************************************************)
(* Proofs about BillingIngest for any number of deliveries, replicas,      *)
(* events and faults.  The inductive invariant adds to the safety          *)
(* invariants what each handler knows of the table while it waits.         *)
(***************************************************************************)
EXTENDS BillingIngest, TLAPS

(* No identity has two rows. *)
OneRow == \A i \in Identity : ledger[i] = {} \/ \E r \in RowType : ledger[i] = {r}

(* A handler that will see Ok holds the row; one that will see RecordNotInserted lost to a row. *)
InFlight ==
  \A d \in Deliveries :
    /\ pc[d] = "inserted" => Holds(EventOf(d))
    /\ pc[d] = "refused" => ledger[Key(EventOf(d))] # {}
    /\ pc[d] = "responding" /\ answer[d] \in Accepted => Holds(EventOf(d))

(* The one Recorded of an identity is either still to come or already counted. *)
OneRecorder ==
  /\ \A i \in Identity : fresh[i] <= 1
  /\ \A d \in Deliveries : pc[d] = "inserted" => fresh[Key(EventOf(d))] = 0
  /\ \A i \in Identity : fresh[i] # 0 => ledger[i] # {}
  /\ \A d, e \in Deliveries :
       /\ pc[d] = "inserted" /\ pc[e] = "inserted"
       /\ Key(EventOf(d)) = Key(EventOf(e))
       => d = e

IInv ==
  /\ TypeOK
  /\ OneRow
  /\ InFlight
  /\ OneRecorder
  /\ ConflictIsGenuine
  /\ AckedIsStored

-----------------------------------------------------------------------------
(* An event has an identity and a row of the table's type. *)
LEMMA EventColumns ==
  ASSUME NEW e \in Events
  PROVE  Key(e) \in Identity /\ Row(e) \in RowType
BY EventAssumption, DigestAssumption DEF Identity, Row, RowType

(* is_exact_redelivery accepts a row exactly when it is the event's own row. *)
LEMMA ExactIsOwnRow ==
  ASSUME NEW e \in Events, NEW stored \in RowType
  PROVE  IsExactRedelivery(stored, e) <=> stored = Row(e)
BY EventAssumption, DigestAssumption DEF IsExactRedelivery, Row, RowType

(* Two events share a row exactly when they have the same type and the same bytes. *)
LEMMA RowIsContent ==
  ASSUME NEW e \in Events, NEW f \in Events
  PROVE  Row(e) = Row(f) <=> e.event_type = f.event_type /\ e.payload = f.payload
BY EventAssumption, DigestAssumption DEF Row

(* The event of a delivery is one of the announced events. *)
LEMMA EventOfType ==
  ASSUME TypeOK, NEW d \in Deliveries
  PROVE  EventOf(d) \in Events
BY DEF TypeOK, Post, EventOf

(* What INSERT ... DO NOTHING does to the table. *)
LEMMA InsertFacts ==
  ASSUME TypeOK, OneRow, NEW e \in Events, InsertInto(e)
  PROVE  /\ ledger' \in [Identity -> SUBSET RowType]
         /\ OneRow'
         /\ ledger'[Key(e)] # {}
         /\ ledger[Key(e)] = {} => ledger'[Key(e)] = {Row(e)}
         /\ \A i \in Identity : ledger[i] # {} => ledger'[i] = ledger[i]
         /\ \A i \in Identity : i # Key(e) => ledger'[i] = ledger[i]
<1>1. Key(e) \in Identity /\ Row(e) \in RowType
  BY EventColumns
<1>2. CASE ledger[Key(e)] = {}
  <2>1. ledger' = [ledger EXCEPT ![Key(e)] = {Row(e)}]
    BY <1>2 DEF InsertInto
  <2>2. ledger \in [Identity -> SUBSET RowType]
    BY DEF TypeOK
  <2>3. ledger'[Key(e)] = {Row(e)}
    BY <1>1, <2>1, <2>2
  <2>4. \A i \in Identity : i # Key(e) => ledger'[i] = ledger[i]
    BY <2>1, <2>2
  <2>5. OneRow'
    BY <1>1, <2>3, <2>4 DEF OneRow
  <2> QED BY <1>1, <1>2, <2>1, <2>2, <2>3, <2>4, <2>5
<1>3. CASE ledger[Key(e)] # {}
  BY <1>1, <1>3 DEF InsertInto, OneRow, TypeOK
<1> QED BY <1>2, <1>3

-----------------------------------------------------------------------------
(* The initial states satisfy the invariant. *)
LEMMA InitIInv == Init => IInv
<1> SUFFICES ASSUME Init PROVE IInv
  OBVIOUS
<1>1. TypeOK
  BY ConfigAssumption DEF Init, TypeOK, PCs, Answers
<1>2. OneRow /\ InFlight /\ OneRecorder /\ ConflictIsGenuine /\ AckedIsStored
  <2>1. \A d \in Deliveries : EventOf(d) \in Events /\ Key(EventOf(d)) \in Identity
    BY <1>1, EventOfType, EventColumns
  <2> QED
    BY <2>1 DEF Init, OneRow, InFlight, OneRecorder, ConflictIsGenuine, AckedIsStored
<1> QED BY <1>1, <1>2 DEF IInv

(* Type correctness is inductive, one action at a time. *)
LEMMA TypeStep == TypeOK /\ OneRow /\ [Next]_vars => TypeOK'
<1> SUFFICES ASSUME TypeOK, OneRow, [Next]_vars PROVE TypeOK'
  OBVIOUS
<1> USE ConfigAssumption
<1>0. \A d \in Deliveries : EventOf(d) \in Events /\ Key(EventOf(d)) \in Identity
  BY EventOfType, EventColumns
<1>1. ASSUME NEW d \in Deliveries, Send(d) PROVE TypeOK'
  BY <1>1 DEF Send, TypeOK, PCs, Answers
<1>2. ASSUME NEW d \in Deliveries, Reject(d) PROVE TypeOK'
  <2>1. RejectionOf(post[d]) \in Answers
    BY DEF RejectionOf, Answers, Refused
  <2> QED BY <1>2, <2>1 DEF Reject, Decide, TypeOK, PCs
<1>3. ASSUME NEW d \in Deliveries, CertFetchFails(d) PROVE TypeOK'
  BY <1>3 DEF CertFetchFails, Decide, Fault, TypeOK, PCs, Answers, Refused
<1>4. ASSUME NEW d \in Deliveries, Unavailable(d) PROVE TypeOK'
  BY <1>4 DEF Unavailable, Decide, TypeOK, PCs, Answers
<1>5. ASSUME NEW d \in Deliveries, SendInsert(d) PROVE TypeOK'
  BY <1>5 DEF SendInsert, TypeOK, PCs
<1>6. ASSUME NEW d \in Deliveries, ExecuteInsert(d) PROVE TypeOK'
  <2>1. ledger' \in [Identity -> SUBSET RowType]
    BY <1>0, <1>6, InsertFacts DEF ExecuteInsert
  <2> QED BY <1>6, <2>1 DEF ExecuteInsert, TypeOK, PCs
<1>7. ASSUME NEW d \in Deliveries, Recorded(d) PROVE TypeOK'
  BY <1>0, <1>7 DEF Recorded, Decide, TypeOK, PCs, Answers, Accepted
<1>8. ASSUME NEW d \in Deliveries, Classify(d) PROVE TypeOK'
  BY <1>8 DEF Classify, Decide, TypeOK, PCs, Answers, Accepted
<1>9. ASSUME NEW d \in Deliveries, DbError(d) PROVE TypeOK'
  <2>1. orphans' \in SUBSET Events
    BY <1>0, <1>9 DEF DbError, LeaveStatements, TypeOK
  <2> QED BY <1>9, <2>1 DEF DbError, Decide, Fault, TypeOK, PCs, Answers
<1>10. ASSUME NEW e \in Events, OrphanInsert(e) PROVE TypeOK'
  <2>1. ledger' \in [Identity -> SUBSET RowType]
    BY <1>10, InsertFacts DEF OrphanInsert
  <2> QED BY <1>10, <2>1 DEF OrphanInsert, TypeOK
<1>11. ASSUME NEW d \in Deliveries, Respond(d) PROVE TypeOK'
  BY <1>0, <1>11 DEF Respond, TypeOK, PCs
<1>12. ASSUME NEW d \in Deliveries, Abandon(d) PROVE TypeOK'
  <2>1. orphans' \in SUBSET Events
    BY <1>0, <1>12 DEF Abandon, LeaveStatements, TypeOK
  <2> QED BY <1>12, <2>1 DEF Abandon, Fault, TypeOK, PCs
<1>13. ASSUME NEW r \in Replicas, Crash(r) PROVE TypeOK'
  <2>1. orphans' \in SUBSET Events
    BY <1>0, <1>13 DEF Crash, LeaveStatements, TypeOK
  <2> QED BY <1>13, <2>1 DEF Crash, Fault, TypeOK, PCs
<1>14. CASE UNCHANGED vars
  BY <1>14 DEF vars, TypeOK
<1> QED
  BY <1>1, <1>2, <1>3, <1>4, <1>5, <1>6, <1>7, <1>8, <1>9, <1>10, <1>11, <1>12, <1>13, <1>14
  DEF Next, Handle

(***************************************************************************)
(* The rest of the invariant.  A step that leaves the table alone only has *)
(* to establish what its own handler now knows.                            *)
(***************************************************************************)
SafeFacts == OneRow /\ InFlight /\ OneRecorder /\ ConflictIsGenuine /\ AckedIsStored

(* What every handler knows survives another's INSERT. *)
LEMMA InsertKeepsHeld ==
  ASSUME TypeOK, OneRow, NEW e \in Events, InsertInto(e), NEW f \in Events
  PROVE  /\ Holds(f) => Holds(f)'
         /\ ledger[Key(f)] # {} => ledger'[Key(f)] = ledger[Key(f)]
         /\ ledger[Key(f)] # {} => (Holds(f)' <=> Holds(f))
<1>1. Key(f) \in Identity
  BY EventColumns
<1>2. ledger[Key(f)] # {} => ledger'[Key(f)] = ledger[Key(f)]
  BY <1>1, InsertFacts
<1> QED BY <1>2 DEF Holds, Row, Key

LEMMA SafeStep == IInv /\ [Next]_vars => SafeFacts'
<1> SUFFICES ASSUME IInv, [Next]_vars PROVE SafeFacts'
  OBVIOUS
<1> USE DEF IInv
<1>0. \A d \in Deliveries : EventOf(d) \in Events /\ Key(EventOf(d)) \in Identity
  BY EventOfType, EventColumns
<1>a. post' = post /\ \A d \in Deliveries : EventOf(d)' = EventOf(d)
  BY DEF Next, Handle, vars, Send, Reject, CertFetchFails, Unavailable, SendInsert, ExecuteInsert,
     Recorded, Classify, DbError, OrphanInsert, Respond, Abandon, Crash, EventOf
<1>1. ASSUME NEW d \in Deliveries, Send(d) PROVE SafeFacts'
  BY <1>0, <1>1, <1>a DEF Send, TypeOK, SafeFacts, OneRow, InFlight, OneRecorder,
     ConflictIsGenuine, AckedIsStored, Holds, Accepted
<1>2. ASSUME NEW d \in Deliveries, Reject(d) PROVE SafeFacts'
  <2>1. RejectionOf(post[d]) \notin Accepted \cup {"event_identity_conflict"}
    BY DEF RejectionOf, Accepted
  <2> QED
    BY <1>0, <1>2, <1>a, <2>1 DEF Reject, Decide, TypeOK, SafeFacts, OneRow, InFlight, OneRecorder,
       ConflictIsGenuine, AckedIsStored, Holds
<1>3. ASSUME NEW d \in Deliveries, CertFetchFails(d) PROVE SafeFacts'
  BY <1>0, <1>3, <1>a DEF CertFetchFails, Decide, TypeOK, SafeFacts, OneRow, InFlight, OneRecorder,
     ConflictIsGenuine, AckedIsStored, Holds, Accepted
<1>4. ASSUME NEW d \in Deliveries, Unavailable(d) PROVE SafeFacts'
  BY <1>0, <1>4, <1>a DEF Unavailable, Decide, TypeOK, SafeFacts, OneRow, InFlight, OneRecorder,
     ConflictIsGenuine, AckedIsStored, Holds, Accepted
<1>5. ASSUME NEW d \in Deliveries, SendInsert(d) PROVE SafeFacts'
  BY <1>0, <1>5, <1>a DEF SendInsert, TypeOK, SafeFacts, OneRow, InFlight, OneRecorder,
     ConflictIsGenuine, AckedIsStored, Holds, Accepted
<1>6. ASSUME NEW d \in Deliveries, ExecuteInsert(d) PROVE SafeFacts'
  <2>0. PICK e \in Events : e = EventOf(d)
    BY <1>0
  <2>1. Key(e) \in Identity /\ InsertInto(e)
    BY <1>0, <1>6, <2>0 DEF ExecuteInsert
  <2>2. OneRow'
    BY <2>1, InsertFacts
  <2>3. \A f \in Events : /\ Holds(f) => Holds(f)'
                          /\ ledger[Key(f)] # {} => ledger'[Key(f)] = ledger[Key(f)]
                          /\ ledger[Key(f)] # {} => (Holds(f)' <=> Holds(f))
    BY <2>1, InsertKeepsHeld
  <2>4. /\ ledger[Key(e)] = {} => Holds(e)'
        /\ ledger'[Key(e)] # {}
    BY <2>1, InsertFacts DEF Holds, Row, Key
  <2>5. InFlight'
    BY <1>0, <1>6, <1>a, <2>0, <2>3, <2>4 DEF ExecuteInsert, InFlight, TypeOK, Accepted
  <2>6. OneRecorder'
    <3>1. \A i \in Identity : fresh[i] # 0 => ledger'[i] # {}
      BY <2>1, InsertFacts DEF OneRecorder
    <3>2. CASE ledger[Key(e)] = {}
      <4>1. \A c \in Deliveries : pc[c] = "inserted" => Key(EventOf(c)) # Key(e)
        BY <1>0, <3>2, <2>0, EventColumns DEF InFlight, Holds
      <4>2. fresh[Key(e)] = 0
        BY <2>1, <3>2 DEF OneRecorder
      <4> QED
        BY <1>0, <1>6, <1>a, <2>0, <3>1, <3>2, <4>1, <4>2 DEF ExecuteInsert, OneRecorder, TypeOK
    <3>3. CASE ledger[Key(e)] # {}
      BY <1>0, <1>6, <1>a, <2>0, <3>1, <3>3 DEF ExecuteInsert, OneRecorder, TypeOK
    <3> QED BY <3>2, <3>3
  <2>7. ConflictIsGenuine'
    BY <1>0, <1>6, <1>a, <2>0, <2>3 DEF ExecuteInsert, ConflictIsGenuine, TypeOK
  <2>8. AckedIsStored'
    BY <1>6, <2>3 DEF ExecuteInsert, AckedIsStored, TypeOK
  <2> QED BY <2>2, <2>5, <2>6, <2>7, <2>8 DEF SafeFacts
<1>7. ASSUME NEW d \in Deliveries, Recorded(d) PROVE SafeFacts'
  <2>1. InFlight' /\ OneRow' /\ ConflictIsGenuine' /\ AckedIsStored'
    BY <1>0, <1>7, <1>a DEF Recorded, Decide, TypeOK, OneRow, InFlight,
       ConflictIsGenuine, AckedIsStored, Holds
  <2>2. ledger[Key(EventOf(d))] # {}
    BY <1>7 DEF Recorded, InFlight, Holds
  <2>3. OneRecorder'
    BY <1>0, <1>7, <1>a, <2>2 DEF Recorded, Decide, TypeOK, OneRecorder
  <2> QED BY <2>1, <2>3 DEF SafeFacts
<1>8. ASSUME NEW d \in Deliveries, Classify(d) PROVE SafeFacts'
  <2> DEFINE e == EventOf(d)
  <2>1. e \in Events /\ Key(e) \in Identity
    BY <1>0
  <2>2. PICK r \in RowType : ledger[Key(e)] = {r}
    BY <1>8, <2>1 DEF Classify, InFlight, OneRow
  <2>3. Holds(e) <=> IsExactRedelivery(r, e)
    BY <2>1, <2>2, ExactIsOwnRow DEF Holds
  <2>4. CASE IsExactRedelivery(r, e)
    <3>1. Decide(d, "deduped") /\ Holds(e)
      BY <1>8, <2>2, <2>3, <2>4 DEF Classify
    <3> QED
      BY <1>0, <1>8, <1>a, <3>1 DEF Classify, Decide, TypeOK, SafeFacts, OneRow, InFlight,
         OneRecorder, ConflictIsGenuine, AckedIsStored, Holds
  <2>5. CASE ~IsExactRedelivery(r, e)
    <3>1. Decide(d, "event_identity_conflict") /\ ~Holds(e) /\ ledger[Key(e)] # {}
      BY <1>8, <2>2, <2>3, <2>5 DEF Classify
    <3> QED
      BY <1>0, <1>8, <1>a, <3>1 DEF Classify, Decide, TypeOK, SafeFacts, OneRow, InFlight,
         OneRecorder, ConflictIsGenuine, AckedIsStored, Holds, Accepted
  <2> QED BY <2>4, <2>5
<1>9. ASSUME NEW d \in Deliveries, DbError(d) PROVE SafeFacts'
  BY <1>0, <1>9, <1>a DEF DbError, Decide, TypeOK, SafeFacts, OneRow, InFlight, OneRecorder,
     ConflictIsGenuine, AckedIsStored, Holds, Accepted
<1>10. ASSUME NEW e \in Events, OrphanInsert(e) PROVE SafeFacts'
  <2>1. InsertInto(e)
    BY <1>10 DEF OrphanInsert
  <2>2. OneRow'
    BY <2>1, InsertFacts
  <2>3. \A f \in Events : /\ Holds(f) => Holds(f)'
                          /\ ledger[Key(f)] # {} => ledger'[Key(f)] = ledger[Key(f)]
                          /\ ledger[Key(f)] # {} => (Holds(f)' <=> Holds(f))
    BY <2>1, InsertKeepsHeld
  <2>4. \A i \in Identity : fresh[i] # 0 => ledger'[i] # {}
    BY <2>1, InsertFacts DEF OneRecorder
  <2> QED
    BY <1>0, <1>10, <1>a, <2>2, <2>3, <2>4 DEF OrphanInsert, SafeFacts, InFlight, OneRecorder,
       ConflictIsGenuine, AckedIsStored, TypeOK
<1>11. ASSUME NEW d \in Deliveries, Respond(d) PROVE SafeFacts'
  <2>1. AckedIsStored'
    BY <1>0, <1>11, <1>a DEF Respond, InFlight, AckedIsStored, Holds
  <2> QED
    BY <1>0, <1>11, <1>a, <2>1 DEF Respond, TypeOK, SafeFacts, OneRow, InFlight, OneRecorder,
       ConflictIsGenuine, Holds
<1>12. ASSUME NEW d \in Deliveries, Abandon(d) PROVE SafeFacts'
  BY <1>0, <1>12, <1>a DEF Abandon, TypeOK, SafeFacts, OneRow, InFlight, OneRecorder,
     ConflictIsGenuine, AckedIsStored, Holds
<1>13. ASSUME NEW r \in Replicas, Crash(r) PROVE SafeFacts'
  BY <1>0, <1>13, <1>a DEF Crash, TypeOK, SafeFacts, OneRow, InFlight, OneRecorder,
     ConflictIsGenuine, AckedIsStored, Holds
<1>14. CASE UNCHANGED vars
  BY <1>0, <1>14, <1>a DEF vars, SafeFacts, OneRow, InFlight, OneRecorder,
     ConflictIsGenuine, AckedIsStored, Holds
<1> QED
  BY <1>1, <1>2, <1>3, <1>4, <1>5, <1>6, <1>7, <1>8, <1>9, <1>10, <1>11, <1>12, <1>13, <1>14
  DEF Next, Handle

(* The invariant holds in every reachable state. *)
THEOREM Invariance == Spec => []IInv
<1>1. Init => IInv
  BY InitIInv
<1>2. IInv /\ [Next]_vars => IInv'
  BY TypeStep, SafeStep DEF IInv, SafeFacts
<1> QED BY <1>1, <1>2, PTL DEF Spec

(* Every variable of the ingest stays in its domain. *)
THEOREM TypeCorrect == Spec => []TypeOK
BY Invariance, PTL DEF IInv

(* A provider never sees a 2xx for an event the table does not hold with that content. *)
THEOREM AckedEventsAreStored == Spec => []AckedIsStored
BY Invariance, PTL DEF IInv

(* record() returns Ingest::Recorded at most once for an identity. *)
THEOREM RecordedOnce == Spec => []RecordedAtMostOnce
<1>1. IInv => RecordedAtMostOnce
  BY DEF IInv, OneRecorder, RecordedAtMostOnce
<1> QED BY <1>1, Invariance, PTL

(* An exact redelivery is never answered 409. *)
THEOREM ConflictsAreGenuine == Spec => []ConflictIsGenuine
BY Invariance, PTL DEF IInv

(***************************************************************************)
(* Refinement: the first INSERT of an identity to execute is WL!Bind, a    *)
(* 200 that arrives is WL!Ack, and every other step stutters.              *)
(***************************************************************************)
LEMMA InsertBinds ==
  ASSUME TypeOK, OneRow, NEW e \in Events, InsertInto(e), UNCHANGED acked
  PROVE  [WL!Next]_(WL!vars)
<1>1. Key(e) \in Identity /\ Row(e) \in RowType
  BY EventColumns
<1>2. UNCHANGED {<<Key(f), Row(f)>> : f \in acked}
  BY DEF Key, Row
<1>3. CASE ledger[Key(e)] = {}
  <2>1. WL!Bind(Key(e), Row(e))
    BY <1>2, <1>3 DEF InsertInto, WL!Bind
  <2> QED BY <1>1, <2>1 DEF WL!Next
<1>4. CASE ledger[Key(e)] # {}
  BY <1>2, <1>4 DEF InsertInto, WL!vars
<1> QED BY <1>3, <1>4

LEMMA RefinementStep == IInv /\ [Next]_vars => [WL!Next]_(WL!vars)
<1> SUFFICES ASSUME IInv, [Next]_vars PROVE [WL!Next]_(WL!vars)
  OBVIOUS
<1>0. \A d \in Deliveries : EventOf(d) \in Events
  BY EventOfType DEF IInv
<1>1. ASSUME NEW d \in Deliveries, ExecuteInsert(d) PROVE [WL!Next]_(WL!vars)
  BY <1>0, <1>1, InsertBinds DEF ExecuteInsert, IInv
<1>2. ASSUME NEW e \in Events, OrphanInsert(e) PROVE [WL!Next]_(WL!vars)
  BY <1>2, InsertBinds DEF OrphanInsert, IInv
<1>3. ASSUME NEW d \in Deliveries, Respond(d) PROVE [WL!Next]_(WL!vars)
  <2>0. PICK e \in Events : e = EventOf(d)
    BY <1>0
  <2>1. Key(e) \in Identity /\ Row(e) \in RowType
    BY EventColumns
  <2>2. CASE answer[d] \in Accepted
    <3>1. ledger[Key(e)] = {Row(e)}
      BY <1>3, <2>0, <2>2 DEF Respond, IInv, InFlight, Holds
    <3>2. acked' = acked \cup {e} /\ UNCHANGED ledger
      BY <1>3, <2>0, <2>2 DEF Respond
    <3>3. {<<Key(f), Row(f)>> : f \in acked'}
            = {<<Key(f), Row(f)>> : f \in acked} \cup {<<Key(e), Row(e)>>}
      BY <3>2
    <3>4. WL!Ack(Key(e), Row(e))
      BY <3>1, <3>2, <3>3 DEF WL!Ack, Key, Row
    <3> QED BY <2>1, <3>4 DEF WL!Next
  <2>3. CASE answer[d] \notin Accepted
    BY <1>3, <2>3 DEF Respond, WL!vars, Key, Row
  <2> QED BY <2>2, <2>3
<1>4. CASE UNCHANGED <<ledger, acked>>
  BY <1>4 DEF WL!vars, Key, Row
<1> QED
  BY <1>1, <1>2, <1>3, <1>4 DEF Next, Handle, vars, Send, Reject, CertFetchFails, Unavailable,
     SendInsert, Recorded, Classify, DbError, Abandon, Crash

(* The endpoint implements WebhookLedger. *)
THEOREM Refinement == Spec => ImplementsLedger
<1>1. Init => WL!Init
  BY DEF Init, WL!Init
<1>2. IInv /\ [Next]_vars => [WL!Next]_(WL!vars)
  BY RefinementStep
<1> QED BY <1>1, <1>2, Invariance, PTL DEF Spec, ImplementsLedger, WL!Spec

-----------------------------------------------------------------------------
(***************************************************************************)
(* What no step undoes.  The provider's task never changes its event, and  *)
(* an identity that has a row keeps it.                                    *)
(***************************************************************************)
LEMMA PostStays == [Next]_vars => post' = post
BY DEF Next, Handle, vars, Send, Reject, CertFetchFails, Unavailable, SendInsert, ExecuteInsert,
   Recorded, Classify, DbError, OrphanInsert, Respond, Abandon, Crash

(* Only an INSERT writes the table. *)
LEMMA OnlyInserts ==
  ASSUME TypeOK, [Next]_vars
  PROVE  ledger' = ledger \/ \E e \in Events : InsertInto(e)
<1>1. \A d \in Deliveries : EventOf(d) \in Events
  BY EventOfType
<1>2. ASSUME NEW d \in Deliveries, ExecuteInsert(d) PROVE \E e \in Events : InsertInto(e)
  BY <1>1, <1>2 DEF ExecuteInsert
<1>3. ASSUME NEW e \in Events, OrphanInsert(e) PROVE InsertInto(e)
  BY <1>3 DEF OrphanInsert
<1> QED
  BY <1>2, <1>3 DEF Next, Handle, vars, Send, Reject, CertFetchFails, Unavailable, SendInsert,
     Recorded, Classify, DbError, Respond, Abandon, Crash

(***************************************************************************)
(* The row of an identity is never changed or removed: ON CONFLICT DO      *)
(* NOTHING, and no other statement of the service writes the table.        *)
(***************************************************************************)
THEOREM RowsAreForGood ==
  Spec => [][\A i \in Identity : ledger[i] # {} => ledger'[i] = ledger[i]]_vars
<1>1. IInv /\ [Next]_vars => \A i \in Identity : ledger[i] # {} => ledger'[i] = ledger[i]
  BY OnlyInserts, InsertFacts DEF IInv
<1> QED BY <1>1, Invariance, PTL DEF Spec

(* So is the fate of an event: once it is settled it stays so. *)
LEMMA SettledStays ==
  ASSUME NEW d \in Deliveries
  PROVE  IInv /\ Settled(EventOf(d)) /\ [Next]_vars => Settled(EventOf(d))'
<1> SUFFICES ASSUME IInv, Settled(EventOf(d)), [Next]_vars PROVE Settled(EventOf(d))'
  OBVIOUS
<1>1. TypeOK /\ OneRow
  BY DEF IInv
<1>2. PICK e \in Events : e = EventOf(d)
  BY <1>1, EventOfType
<1>3. EventOf(d)' = e
  BY <1>2, PostStays DEF EventOf
<1>4. e \in acked => e \in acked'
  BY DEF Next, Handle, vars, Send, Reject, CertFetchFails, Unavailable, SendInsert, ExecuteInsert,
     Recorded, Classify, DbError, OrphanInsert, Respond, Abandon, Crash
<1>5. ledger[Key(e)] # {} => ledger'[Key(e)] = ledger[Key(e)]
  BY <1>1, OnlyInserts, InsertFacts, EventColumns
<1> QED BY <1>2, <1>3, <1>4, <1>5 DEF Settled, Holds, Row, Key

-----------------------------------------------------------------------------
(***************************************************************************)
(* Liveness.  Handle(d) is enabled when the handler of d's attempt is      *)
(* somewhere, Send(d) when it is nowhere.  tlapm does not reason about     *)
(* ENABLED, so Enabling is a hypothesis where WF is drawn upon.            *)
(***************************************************************************)
Waiting(d) == pc[d] = "idle"

EnablingOf(d) ==
  /\ ~Waiting(d) => ENABLED <<Handle(d)>>_vars
  /\ Waiting(d) => ENABLED <<Send(d)>>_vars

Enabling == \A d \in Deliveries : EnablingOf(d)

(* How far d's attempt has come. *)
Received(d) == pc[d] = "received"

Inserting(d) == pc[d] = "inserting"

Told(d) == pc[d] \in {"inserted", "refused"}

Accepting(d) == pc[d] = "responding" /\ answer[d] \in Accepted

Failing(d) == pc[d] = "responding" /\ answer[d] \notin Accepted

Authentic(d) == Verified(post[d])

Done(d) == Settled(EventOf(d))

Astray(d) == at[d] \notin Pooled

(* Without a fault only d's own steps move d's attempt. *)
LEMMA CalmSteps ==
  ASSUME NEW d \in Deliveries, TypeOK, [Next]_vars, [faults' = faults]_vars
  PROVE  Send(d) \/ Handle(d) \/ (pc'[d] = pc[d] /\ answer'[d] = answer[d])
<1>1. ASSUME NEW c \in Deliveries, c # d, Send(c) \/ Handle(c)
      PROVE  pc'[d] = pc[d] /\ answer'[d] = answer[d]
  BY <1>1 DEF Handle, Send, Reject, Unavailable, SendInsert, ExecuteInsert, Recorded, Classify,
              Respond, Decide, TypeOK
<1>2. faults' = faults
  BY DEF vars
<1>3. faults' # faults + 1
  BY <1>2, ConfigAssumption DEF TypeOK
<1>4. ASSUME NEW e \in Events, OrphanInsert(e) PROVE pc'[d] = pc[d] /\ answer'[d] = answer[d]
  BY <1>4 DEF OrphanInsert
<1>5. CASE UNCHANGED vars
  BY <1>5 DEF vars
<1> QED
  BY <1>1, <1>3, <1>4, <1>5 DEF Next, CertFetchFails, DbError, Abandon, Crash, Fault

(* What the steps of d's attempt lead to, for an authentic event at a replica with its pool. *)
LEMMA AttemptSteps ==
  ASSUME NEW d \in Deliveries, IInv, Authentic(d), ~Astray(d)
  PROVE  /\ Send(d) => Waiting(d) /\ Received(d)'
         /\ Handle(d) /\ Received(d) => Inserting(d)'
         /\ Handle(d) /\ Inserting(d) => Told(d)'
         /\ Handle(d) /\ Told(d) => Accepting(d)' \/ Done(d)
         /\ Handle(d) /\ Accepting(d) => Done(d)'
         /\ Handle(d) /\ Failing(d) => Waiting(d)'
         /\ Handle(d) => ~Waiting(d)
<1>1. TypeOK /\ at[d] \in Pooled
  BY DEF IInv, Astray
<1>2. EventOf(d) \in Events
  BY <1>1, EventOfType
<1>3. Send(d) => Waiting(d) /\ Received(d)'
  BY <1>1 DEF Send, Waiting, Received, TypeOK
<1>4. Handle(d) /\ Received(d) => Inserting(d)'
  BY <1>1 DEF Handle, Reject, Unavailable, SendInsert, ExecuteInsert, Recorded, Classify, Respond,
              Received, Inserting, Authentic, TypeOK
<1>5. Handle(d) /\ Inserting(d) => Told(d)'
  BY <1>1 DEF Handle, Reject, Unavailable, SendInsert, ExecuteInsert, Recorded, Classify, Respond,
              Told, Inserting, TypeOK
<1>6. ASSUME Handle(d), Told(d) PROVE Accepting(d)' \/ Done(d)
  <2>1. CASE Recorded(d)
    BY <1>1, <2>1 DEF Recorded, Decide, Accepting, Accepted, TypeOK
  <2>2. CASE Classify(d)
    <3> DEFINE e == EventOf(d)
    <3>1. Key(e) \in Identity /\ ledger[Key(e)] # {}
      BY <1>2, <2>2, EventColumns DEF Classify, IInv, InFlight
    <3>2. PICK r \in RowType : ledger[Key(e)] = {r}
      BY <3>1 DEF IInv, OneRow
    <3>3. CASE IsExactRedelivery(r, e)
      BY <1>1, <2>2, <3>2, <3>3 DEF Classify, Decide, Accepting, Accepted, TypeOK
    <3>4. CASE ~IsExactRedelivery(r, e)
      BY <1>2, <3>1, <3>2, <3>4, ExactIsOwnRow DEF Done, Settled, Holds
    <3> QED BY <3>3, <3>4
  <2> QED
    BY <1>6, <2>1, <2>2 DEF Handle, Reject, Unavailable, SendInsert, ExecuteInsert, Respond, Told
<1>7. ASSUME Handle(d), Accepting(d) PROVE Done(d)'
  <2>1. Respond(d)
    BY <1>7 DEF Handle, Reject, Unavailable, SendInsert, ExecuteInsert, Recorded, Classify,
                Accepting
  <2> QED BY <1>7, <2>1 DEF Respond, Accepting, Done, Settled, EventOf
<1>8. Handle(d) /\ Failing(d) => Waiting(d)'
  BY <1>1 DEF Handle, Reject, Unavailable, SendInsert, ExecuteInsert, Recorded, Classify, Respond,
              Failing, Waiting, TypeOK
<1>9. Handle(d) => ~Waiting(d)
  BY DEF Handle, Reject, Unavailable, SendInsert, ExecuteInsert, Recorded, Classify, Respond,
         Waiting
<1> QED BY <1>3, <1>4, <1>5, <1>6, <1>7, <1>8, <1>9

(* Fairness to one delivery, with the guards in place of ENABLED. *)
ServedOf(d) ==
  /\ []<>Waiting(d) \/ []<><<Handle(d)>>_vars
  /\ []<>~Waiting(d) \/ []<><<Send(d)>>_vars

LEMMA FairnessServes == FairSpec /\ []Enabling => \A d \in Deliveries : ServedOf(d)
<1>1. ASSUME NEW d \in Deliveries PROVE []Enabling => []EnablingOf(d)
  <2>1. Enabling => EnablingOf(d)
    BY DEF Enabling
  <2> QED BY <2>1, PTL
<1>2. ASSUME NEW d \in Deliveries PROVE FairTo(d) /\ []EnablingOf(d) => ServedOf(d)
  BY PTL DEF FairTo, EnablingOf, ServedOf
<1>3. FairSpec => \A d \in Deliveries : FairTo(d)
  BY DEF FairSpec, Fairness
<1> QED BY <1>1, <1>2, <1>3

(***************************************************************************)
(* From some point on without faults, the attempts of an authentic event   *)
(* go from stage to stage while they reach replicas that have their pool,  *)
(* and the one that is accepted settles it.                                *)
(***************************************************************************)
LEMMA AttemptsSettle ==
  ASSUME NEW d \in Deliveries
  PROVE  Spec /\ ServedOf(d) /\ <>[][faults' = faults]_vars
         => (Authentic(d) ~> Done(d) \/ Astray(d))
<1>1. IInv => \/ Waiting(d) \/ Received(d) \/ Inserting(d)
              \/ Told(d) \/ Accepting(d) \/ Failing(d)
  BY DEF IInv, TypeOK, PCs, Waiting, Received, Inserting, Told, Accepting, Failing
<1>2. Received(d) \/ Inserting(d) \/ Told(d) \/ Accepting(d) \/ Failing(d) => ~Waiting(d)
  BY DEF Waiting, Received, Inserting, Told, Accepting, Failing
<1>3. IInv /\ Authentic(d) /\ [Next]_vars => Authentic(d)'
  BY PostStays DEF Authentic
<1>4. IInv /\ Done(d) /\ [Next]_vars => Done(d)'
  BY SettledStays DEF Done
<1>5. IInv /\ [Next]_vars /\ [faults' = faults]_vars =>
        \/ Send(d) \/ Handle(d)
        \/ /\ Waiting(d) => Waiting(d)'
           /\ Received(d) => Received(d)'
           /\ Inserting(d) => Inserting(d)'
           /\ Told(d) => Told(d)'
           /\ Accepting(d) => Accepting(d)'
           /\ Failing(d) => Failing(d)'
  BY CalmSteps DEF IInv, Waiting, Received, Inserting, Told, Accepting, Failing
<1>6. IInv /\ Authentic(d) /\ ~Astray(d) =>
        /\ Send(d) => Waiting(d) /\ Received(d)'
        /\ Handle(d) /\ Received(d) => Inserting(d)'
        /\ Handle(d) /\ Inserting(d) => Told(d)'
        /\ Handle(d) /\ Told(d) => Accepting(d)' \/ Done(d)
        /\ Handle(d) /\ Accepting(d) => Done(d)'
        /\ Handle(d) /\ Failing(d) => Waiting(d)'
        /\ Handle(d) => ~Waiting(d)
  BY AttemptSteps
<1> QED
  BY <1>1, <1>2, <1>3, <1>4, <1>5, <1>6, Invariance, PTL DEF Spec, ServedOf

(***************************************************************************)
(* At-least-once delivery converges: once faults have stopped, every       *)
(* authentic event is acknowledged, or its identity is bound to other      *)
(* content, or its deliveries go on reaching replicas without a pool.      *)
(* MaxFaults, which bounds the faults of a run, plays no part in it.       *)
(***************************************************************************)
THEOREM Convergence ==
  FairSpec /\ []Enabling /\ <>[][faults' = faults]_vars => DeliveriesSettle
<1>1. ASSUME NEW d \in Deliveries
      PROVE  Spec /\ ServedOf(d) /\ <>[][faults' = faults]_vars
             => (Verified(post[d]) ~> Settled(EventOf(d)) \/ at[d] \notin Pooled)
  BY AttemptsSettle DEF Authentic, Done, Astray
<1> QED BY <1>1, FairnessServes DEF FairSpec, DeliveriesSettle

-----------------------------------------------------------------------------
(***************************************************************************)
(* When a redelivery has been handled.  As long as nothing has failed,     *)
(* every row has a handler that was told of it, or is about to be.         *)
(***************************************************************************)
Mate(c, d) == pc[c] = "inserted" /\ Key(EventOf(c)) = Key(EventOf(d))

Traced ==
  faults = 0 =>
    /\ orphans = {}
    /\ \A i \in Identity : ledger[i] # {} =>
         fresh[i] # 0 \/ \E c \in Deliveries : pc[c] = "inserted" /\ Key(EventOf(c)) = i

LEMMA TracedStep == IInv /\ Traced /\ [Next]_vars => Traced'
<1> SUFFICES ASSUME IInv, Traced, [Next]_vars, faults' = 0
             PROVE  /\ orphans' = {}
                    /\ \A i \in Identity : ledger'[i] # {} =>
                         \/ fresh'[i] # 0
                         \/ \E c \in Deliveries : pc'[c] = "inserted" /\ (Key(EventOf(c)) = i)'
  BY DEF Traced
<1>0. TypeOK /\ OneRow
  BY DEF IInv
<1>1. \A c \in Deliveries : EventOf(c) \in Events /\ Key(EventOf(c)) \in Identity
  BY <1>0, EventOfType, EventColumns
<1>2. \A c \in Deliveries : Key(EventOf(c))' = Key(EventOf(c))
  BY PostStays DEF EventOf, Key
<1>3. faults = 0 /\ faults' # faults + 1
  <2>1. faults' = faults \/ faults' = faults + 1
    BY DEF Next, Handle, vars, Send, Reject, CertFetchFails, Unavailable, SendInsert, ExecuteInsert,
       Recorded, Classify, DbError, OrphanInsert, Respond, Abandon, Crash, Fault
  <2>2. faults \in Nat
    BY <1>0, ConfigAssumption DEF TypeOK
  <2> QED BY <2>1, <2>2
<1>4. orphans = {}
  BY <1>3 DEF Traced
<1>5. ASSUME NEW d \in Deliveries, ExecuteInsert(d)
      PROVE  /\ orphans' = {}
             /\ \A i \in Identity : ledger'[i] # {} =>
                  \/ fresh'[i] # 0
                  \/ \E c \in Deliveries : pc'[c] = "inserted" /\ (Key(EventOf(c)) = i)'
  <2>1. InsertInto(EventOf(d)) /\ UNCHANGED <<fresh, orphans>>
    BY <1>5 DEF ExecuteInsert
  <2>2. /\ pc[d] = "inserting" /\ \A c \in Deliveries : c # d => pc'[c] = pc[c]
        /\ ledger[Key(EventOf(d))] = {} => pc'[d] = "inserted"
    BY <1>0, <1>5 DEF ExecuteInsert, TypeOK
  <2>3. ASSUME NEW i \in Identity, ledger'[i] # {}, ledger[i] = {}
        PROVE  i = Key(EventOf(d))
    BY <1>0, <1>1, <2>1, <2>3, InsertFacts
  <2> QED BY <1>2, <1>3, <1>4, <2>1, <2>2, <2>3 DEF Traced
<1>6. ASSUME NEW d \in Deliveries, Recorded(d)
      PROVE  /\ orphans' = {}
             /\ \A i \in Identity : ledger'[i] # {} =>
                  \/ fresh'[i] # 0
                  \/ \E c \in Deliveries : pc'[c] = "inserted" /\ (Key(EventOf(c)) = i)'
  <2>1. /\ UNCHANGED <<ledger, orphans>>
        /\ \A c \in Deliveries : c # d => pc'[c] = pc[c]
        /\ \A i \in Identity : i # Key(EventOf(d)) => fresh'[i] = fresh[i]
        /\ fresh'[Key(EventOf(d))] = fresh[Key(EventOf(d))] + 1
    BY <1>0, <1>1, <1>6 DEF Recorded, Decide, TypeOK
  <2>2. fresh'[Key(EventOf(d))] # 0
    BY <1>0, <1>1, <2>1 DEF TypeOK
  <2> QED BY <1>2, <1>3, <1>4, <2>1, <2>2 DEF Traced
<1>7. ASSUME NEW d \in Deliveries,
             Send(d) \/ Reject(d) \/ Unavailable(d) \/ SendInsert(d) \/ Classify(d) \/ Respond(d)
      PROVE  /\ orphans' = {}
             /\ \A i \in Identity : ledger'[i] # {} =>
                  \/ fresh'[i] # 0
                  \/ \E c \in Deliveries : pc'[c] = "inserted" /\ (Key(EventOf(c)) = i)'
  <2>1. UNCHANGED <<ledger, orphans, fresh>>
    BY <1>7 DEF Send, Reject, Unavailable, SendInsert, Classify, Respond
  <2>2. \A c \in Deliveries : pc[c] = "inserted" => pc'[c] = "inserted"
    BY <1>0, <1>7 DEF Send, Reject, Unavailable, SendInsert, Classify, Respond, Decide, TypeOK
  <2> QED BY <1>2, <1>3, <1>4, <2>1, <2>2 DEF Traced
<1>8. CASE UNCHANGED vars
  BY <1>2, <1>3, <1>4, <1>8 DEF vars, Traced
<1>9. ASSUME NEW e \in Events PROVE ~OrphanInsert(e)
  BY <1>4 DEF OrphanInsert
<1> QED
  BY <1>3, <1>5, <1>6, <1>7, <1>8, <1>9 DEF Next, Handle, CertFetchFails, DbError, Abandon, Crash, Fault

LEMMA TracedAlways == Spec => []Traced
<1>1. Init => Traced
  BY DEF Init, Traced
<1> QED BY <1>1, TracedStep, Invariance, PTL DEF Spec

(* The handler that was told of a row returns Recorded, if nothing fails. *)
LEMMA MateRecords ==
  ASSUME NEW c \in Deliveries, NEW d \in Deliveries
  PROVE  Spec /\ ServedOf(c) /\ [](faults = 0)
         => [](Mate(c, d) => <>(fresh[Key(EventOf(d))] = 1))
<1>1. IInv /\ Mate(c, d) => ~Waiting(c)
  BY DEF Mate, Waiting
<1>2. ASSUME IInv, Mate(c, d), Handle(c) PROVE (fresh[Key(EventOf(d))] = 1)'
  <2>1. TypeOK /\ fresh[Key(EventOf(c))] = 0
    BY <1>2 DEF IInv, OneRecorder, Mate
  <2>2. Recorded(c)
    BY <1>2 DEF Mate, Handle, Reject, Unavailable, SendInsert, ExecuteInsert, Classify, Respond
  <2>3. Key(EventOf(c)) \in Identity
    BY <2>1, EventOfType, EventColumns
  <2>4. fresh'[Key(EventOf(c))] = 1
    BY <2>1, <2>2, <2>3 DEF Recorded, TypeOK
  <2>5. Key(EventOf(d))' = Key(EventOf(c))
    BY <1>2, <2>2 DEF Recorded, Mate, EventOf, Key
  <2> QED BY <2>4, <2>5
<1>3. IInv /\ Mate(c, d) /\ Send(c) => FALSE
  BY DEF Mate, Send
<1>4. IInv /\ Mate(c, d) /\ [Next]_vars /\ [faults' = faults]_vars
      => Handle(c) \/ Send(c) \/ Mate(c, d)'
  BY CalmSteps, PostStays DEF IInv, Mate, EventOf, Key
<1>5. (faults = 0) /\ (faults = 0)' => [faults' = faults]_vars
  OBVIOUS
<1> QED BY <1>1, <1>2, <1>3, <1>4, <1>5, Invariance, PTL DEF Spec, ServedOf

(***************************************************************************)
(* What entity/billing_webhook_events.rs says of a conflicting INSERT is   *)
(* true as long as no handler, statement or replica has failed: a          *)
(* redelivery that is recognised was, or is about to be, reported as       *)
(* Recorded by another handler.  After a fault it can be wrong.            *)
(***************************************************************************)
THEOREM HandledUnlessFaults ==
  FairSpec /\ []Enabling /\ [](faults = 0) => ConflictMeansAlreadyHandled
<1>1. ASSUME NEW d \in Deliveries
      PROVE  Spec /\ (\A c \in Deliveries : ServedOf(c)) /\ [](faults = 0)
             => ((pc[d] = "responding" /\ answer[d] = "deduped") ~> fresh[Key(EventOf(d))] = 1)
  <2>1. Spec /\ (\A c \in Deliveries : ServedOf(c)) /\ [](faults = 0)
        => [](\A c \in Deliveries : Mate(c, d) => <>(fresh[Key(EventOf(d))] = 1))
    BY MateRecords
  <2>2. (\A c \in Deliveries : Mate(c, d) => <>(fresh[Key(EventOf(d))] = 1))
        => ((\E c \in Deliveries : Mate(c, d)) => <>(fresh[Key(EventOf(d))] = 1))
    OBVIOUS
  <2>3. IInv /\ Traced /\ faults = 0 /\ pc[d] = "responding" /\ answer[d] = "deduped"
        => fresh[Key(EventOf(d))] = 1 \/ \E c \in Deliveries : Mate(c, d)
    <3> SUFFICES ASSUME IInv, Traced, faults = 0, pc[d] = "responding", answer[d] = "deduped",
                        fresh[Key(EventOf(d))] # 1
                 PROVE  \E c \in Deliveries : Mate(c, d)
      OBVIOUS
    <3>1. Key(EventOf(d)) \in Identity /\ fresh[Key(EventOf(d))] \in {0, 1}
      BY EventOfType, EventColumns DEF IInv, TypeOK, OneRecorder
    <3>2. ledger[Key(EventOf(d))] # {}
      BY DEF IInv, InFlight, Accepted, Holds
    <3> QED BY <3>1, <3>2 DEF Traced, Mate
  <2> QED BY <2>1, <2>2, <2>3, Invariance, TracedAlways, PTL
<1> QED BY <1>1, FairnessServes DEF FairSpec, ConflictMeansAlreadyHandled
=============================================================================
