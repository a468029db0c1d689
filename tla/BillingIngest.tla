--------------------------- MODULE BillingIngest ---------------------------
(***************************************************************************)
(* Inbound billing webhooks (src/billing.rs): every delivery is an HTTP    *)
(* POST handled by one replica, which verifies the signature, runs         *)
(* INSERT ... ON CONFLICT DO NOTHING, and on a conflict runs a separate    *)
(* SELECT to tell an exact redelivery from an identity conflict.           *)
(*                                                                         *)
(* Deliveries run concurrently, on several replicas, against one table.    *)
(* A handler can vanish between any two of its awaits (request timeout,    *)
(* client disconnect, replica crash); a statement it has sent may still    *)
(* execute afterwards, and a commit may be reported as an error.  The      *)
(* provider keeps sending until it has seen a 2xx, and may send again      *)
(* after one.                                                              *)
(***************************************************************************)
EXTENDS Naturals

CONSTANTS
  Deliveries,   \* the provider's delivery tasks, each for one event
  Replicas,     \* processes of this service behind the load balancer
  Providers,    \* members of fiducia_payments::Provider (stripe, paypal)
  CertBased,    \* the providers whose verification fetches a certificate (paypal)
  Configured,   \* the providers whose secret is set in the environment
  Pooled,       \* the replicas that hold a database pool (config.pool)
  Events,       \* the events the providers may announce
  Payloads,     \* the exact bytes of a verified body
  Digests,      \* their digests
  Sha256,       \* the digest function
  MaxFaults     \* bound on timeouts, disconnects, crashes and database errors

ASSUME ConfigAssumption ==
  /\ CertBased \subseteq Providers
  /\ Configured \subseteq Providers
  /\ Pooled \subseteq Replicas
  /\ MaxFaults \in Nat

ASSUME EventAssumption ==
  \A e \in Events : e.provider \in Providers /\ e.payload \in Payloads

(* Collision resistance: distinct bodies have distinct digests. *)
ASSUME DigestAssumption ==
  /\ Sha256 \in [Payloads -> Digests]
  /\ \A p, q \in Payloads : Sha256[p] = Sha256[q] => p = q

VARIABLES
  post,      \* post[d]: what the delivery task POSTs: event, path and signature
  pc,        \* pc[d]: where the handler of d's current attempt stands
  at,        \* at[d]: the replica that handles it
  answer,    \* answer[d]: the outcome its handler has decided
  ledger,    \* the table billing_webhook_events, by its unique index: a set of rows
  orphans,   \* INSERTs whose handler is gone and which may still execute
  acked,     \* events a provider has seen a 2xx for
  fresh,     \* fresh[i]: handlers of identity i that got Ingest::Recorded
  faults     \* faults so far

vars == <<post, pc, at, answer, ledger, orphans, acked, fresh, faults>>

(* "partial": the certificate URL is there, another header is missing. *)
Signatures == {"valid", "invalid", "absent", "partial"}

Post == [event: Events, known: BOOLEAN, signature: Signatures]

(* Mutant: a redelivery is not acknowledged. *)
AcceptedFreshOnly == {"recorded"}

(* The outcomes webhook() answers with 200. *)
Accepted == {"recorded", "deduped"}

Refused == {"unknown_provider", "provider_not_configured", "missing_signature_header",
            "cert_fetch_failed", "signature_verification_failed"}

Answers == Accepted \cup Refused
             \cup {"none", "storage_unavailable", "event_identity_conflict", "persist_failed"}

(* The columns of the unique index, and the other columns record() writes. *)
Key(e) == <<e.provider, e.id>>

(* Mutant: the body is stored in place of its digest. *)
RowOfBody(e) == [event_type |-> e.event_type, signature_verified |-> TRUE,
                 payload_sha256 |-> e.payload]

Row(e) == [event_type |-> e.event_type, signature_verified |-> TRUE,
           payload_sha256 |-> Sha256[e.payload]]

Identity == {Key(e) : e \in Events}

EventOf(d) == post[d].event

Holds(e) == ledger[Key(e)] = {Row(e)}

(***************************************************************************)
(* is_exact_redelivery: every compared column agrees.  `stored' is a row   *)
(* under e's own provider and event id, the filter of the SELECT.          *)
(***************************************************************************)
(* Mutants: the digest is not compared, or is compared with the body. *)
SameTypeOnly(stored, e) == stored.signature_verified /\ stored.event_type = e.event_type

DigestAgainstBody(stored, e) == SameTypeOnly(stored, e) /\ stored.payload_sha256 = e.payload

IsExactRedelivery(stored, e) ==
  /\ stored.signature_verified
  /\ stored.event_type = e.event_type
  /\ stored.payload_sha256 = Sha256[e.payload]

Init ==
  /\ post \in [Deliveries -> Post]
  /\ pc = [d \in Deliveries |-> "idle"]
  /\ at \in [Deliveries -> Replicas]
  /\ answer = [d \in Deliveries |-> "none"]
  /\ ledger = [i \in Identity |-> {}]
  /\ orphans = {}
  /\ acked = {}
  /\ fresh = [i \in Identity |-> 0]
  /\ faults = 0

Decide(d, a) ==
  /\ pc' = [pc EXCEPT ![d] = "responding"]
  /\ answer' = [answer EXCEPT ![d] = a]

Fault == faults < MaxFaults /\ faults' = faults + 1

-----------------------------------------------------------------------------
(* The provider POSTs d's event, for the first time or again. *)
Send(d) ==
  /\ pc[d] = "idle"
  /\ pc' = [pc EXCEPT ![d] = "received"]
  /\ answer' = [answer EXCEPT ![d] = "none"]
  /\ \E r \in Replicas : at' = [at EXCEPT ![d] = r]
  /\ UNCHANGED <<post, ledger, orphans, acked, fresh, faults>>

(***************************************************************************)
(* webhook() parses the provider, then verify() reads the secret, the      *)
(* headers and (for a certificate-based provider) the certificate: the     *)
(* first of them that fails decides the answer.                            *)
(***************************************************************************)
RejectionOf(p) ==
  CASE ~p.known -> "unknown_provider"
    [] p.known /\ p.event.provider \notin Configured -> "provider_not_configured"
    [] p.known /\ p.event.provider \in Configured /\ p.signature \in {"absent", "partial"}
         -> "missing_signature_header"
    [] OTHER -> "signature_verification_failed"

Verified(p) == p.known /\ p.event.provider \in Configured /\ p.signature = "valid"

Reject(d) ==
  /\ pc[d] = "received"
  /\ ~Verified(post[d])
  /\ Decide(d, RejectionOf(post[d]))
  /\ UNCHANGED <<post, at, ledger, orphans, acked, fresh, faults>>

CertFetchFails(d) ==
  /\ pc[d] = "received"
  /\ post[d].known
  /\ EventOf(d).provider \in Configured \cap CertBased
  /\ post[d].signature # "absent"
  /\ Fault
  /\ Decide(d, "cert_fetch_failed")
  /\ UNCHANGED <<post, at, ledger, orphans, acked, fresh>>

(* record() without a pool. *)
Unavailable(d) ==
  /\ pc[d] = "received"
  /\ Verified(post[d])
  /\ at[d] \notin Pooled
  /\ Decide(d, "storage_unavailable")
  /\ UNCHANGED <<post, at, ledger, orphans, acked, fresh, faults>>

(* record() awaits its INSERT. *)
SendInsert(d) ==
  /\ pc[d] = "received"
  /\ Verified(post[d])
  /\ at[d] \in Pooled
  /\ pc' = [pc EXCEPT ![d] = "inserting"]
  /\ UNCHANGED <<post, at, answer, ledger, orphans, acked, fresh, faults>>

(***************************************************************************)
(* INSERT ... ON CONFLICT (provider, provider_event_id) DO NOTHING.        *)
(***************************************************************************)
(* Mutant: ON CONFLICT DO UPDATE. *)
UpsertInto(e) == ledger' = [ledger EXCEPT ![Key(e)] = {Row(e)}]

InsertInto(e) ==
  IF ledger[Key(e)] = {}
  THEN ledger' = [ledger EXCEPT ![Key(e)] = {Row(e)}]
  ELSE UNCHANGED ledger

(* Mutant: a statement that inserted nothing is taken for one that did. *)
ExecuteInsertIgnoringRowCount(d) ==
  /\ pc[d] = "inserting"
  /\ InsertInto(EventOf(d))
  /\ pc' = [pc EXCEPT ![d] = "inserted"]
  /\ UNCHANGED <<post, at, answer, orphans, acked, fresh, faults>>

(* The database executes the INSERT; the reply is on its way. *)
ExecuteInsert(d) ==
  /\ pc[d] = "inserting"
  /\ InsertInto(EventOf(d))
  /\ pc' = [pc EXCEPT ![d] = IF ledger[Key(EventOf(d))] = {} THEN "inserted" ELSE "refused"]
  /\ UNCHANGED <<post, at, answer, orphans, acked, fresh, faults>>

(* exec() returned Ok: Ingest::Recorded. *)
Recorded(d) ==
  /\ pc[d] = "inserted"
  /\ fresh' = [fresh EXCEPT ![Key(EventOf(d))] = @ + 1]
  /\ Decide(d, "recorded")
  /\ UNCHANGED <<post, at, ledger, orphans, acked, faults>>

(* RecordNotInserted: the SELECT executes, and its one row is classified. *)
Classify(d) ==
  LET e == EventOf(d) IN
  /\ pc[d] = "refused"
  /\ IF \E stored \in ledger[Key(e)] : IsExactRedelivery(stored, e)
     THEN Decide(d, "deduped")
     ELSE Decide(d, "event_identity_conflict")
  /\ UNCHANGED <<post, at, ledger, orphans, acked, fresh, faults>>

(***************************************************************************)
(* Losing the handler, or its connection, leaves an INSERT that has not    *)
(* executed either cancelled or still running in the database.             *)
(***************************************************************************)
LeaveStatements(ds) ==
  \E left \in SUBSET {d \in ds : pc[d] = "inserting"} :
    orphans' = orphans \cup {EventOf(d) : d \in left}

(* Any other DbErr, of the INSERT or of the SELECT: 500 persist_failed. *)
DbError(d) ==
  /\ pc[d] \in {"inserting", "inserted", "refused"}
  /\ Fault
  /\ LeaveStatements({d})
  /\ Decide(d, "persist_failed")
  /\ UNCHANGED <<post, at, ledger, acked, fresh>>

(* An INSERT that outlived its handler executes, and nobody sees its result. *)
OrphanInsert(e) ==
  /\ e \in orphans
  /\ InsertInto(e)
  /\ orphans' = orphans \ {e}
  /\ UNCHANGED <<post, pc, at, answer, acked, fresh, faults>>

(* The response reaches the provider. *)
Respond(d) ==
  /\ pc[d] = "responding"
  /\ pc' = [pc EXCEPT ![d] = "idle"]
  /\ acked' = IF answer[d] \in Accepted THEN acked \cup {EventOf(d)} ELSE acked
  /\ UNCHANGED <<post, at, answer, ledger, orphans, fresh, faults>>

(* TimeoutLayer or a disconnect drops the handler, or its response is lost. *)
Abandon(d) ==
  /\ pc[d] # "idle"
  /\ Fault
  /\ LeaveStatements({d})
  /\ pc' = [pc EXCEPT ![d] = "idle"]
  /\ UNCHANGED <<post, at, answer, ledger, acked, fresh>>

(* A replica dies with everything it was handling; another takes its place. *)
Crash(r) ==
  LET dying == {d \in Deliveries : at[d] = r /\ pc[d] # "idle"} IN
  /\ dying # {}
  /\ Fault
  /\ LeaveStatements(dying)
  /\ pc' = [d \in Deliveries |-> IF d \in dying THEN "idle" ELSE pc[d]]
  /\ UNCHANGED <<post, at, answer, ledger, acked, fresh>>

Handle(d) ==
  \/ Reject(d) \/ Unavailable(d) \/ SendInsert(d) \/ ExecuteInsert(d)
  \/ Recorded(d) \/ Classify(d) \/ Respond(d)

Next ==
  \/ \E d \in Deliveries : Send(d) \/ Handle(d) \/ CertFetchFails(d) \/ DbError(d) \/ Abandon(d)
  \/ \E e \in Events : OrphanInsert(e)
  \/ \E r \in Replicas : Crash(r)

Spec == Init /\ [][Next]_vars

(***************************************************************************)
(* Fairness: the runtime polls every handler and the database executes     *)
(* what it was sent, so a handler's next step happens; the provider, who   *)
(* delivers at least once, keeps sending.  No fault has to happen, and     *)
(* nothing forces an orphaned statement to run.                            *)
(***************************************************************************)
FairTo(d) == WF_vars(Handle(d)) /\ WF_vars(Send(d))

Fairness == \A d \in Deliveries : FairTo(d)

FairSpec == Spec /\ Fairness

-----------------------------------------------------------------------------
PCs == {"idle", "received", "inserting", "inserted", "refused", "responding"}

RowType == [event_type: {e.event_type : e \in Events}, signature_verified: {TRUE},
            payload_sha256: Digests]

(* Every variable stays in its domain. *)
TypeOK ==
  /\ post \in [Deliveries -> Post]
  /\ pc \in [Deliveries -> PCs]
  /\ at \in [Deliveries -> Replicas]
  /\ answer \in [Deliveries -> Answers]
  /\ ledger \in [Identity -> SUBSET RowType]
  /\ orphans \in SUBSET Events
  /\ acked \in SUBSET Events
  /\ fresh \in [Identity -> Nat]
  /\ faults \in 0..MaxFaults

(***************************************************************************)
(* A provider is told 2xx only about an event that the table holds with    *)
(* exactly the delivered content, whatever was retried, lost or run late:  *)
(* webhook() may never acknowledge an event that was not stored, nor one   *)
(* that reuses a stored identity with other content.                       *)
(***************************************************************************)
AckedIsStored == \A e \in acked : Holds(e)

(***************************************************************************)
(* Ingest::Recorded is returned at most once for an identity, so effects   *)
(* that consume only Recorded are not applied twice.                       *)
(***************************************************************************)
RecordedAtMostOnce == \A i \in Identity : fresh[i] <= 1

(***************************************************************************)
(* A 409 is never given to an exact redelivery: when record() answers      *)
(* IdentityConflict, the table does hold other content for the identity.   *)
(* Otherwise the provider would retry an accepted event for ever.          *)
(***************************************************************************)
ConflictIsGenuine ==
  \A d \in Deliveries :
    pc[d] = "responding" /\ answer[d] = "event_identity_conflict" =>
      ledger[Key(EventOf(d))] # {} /\ ~Holds(EventOf(d))

(***************************************************************************)
(* The endpoint implements the ledger of WebhookLedger: an identity is     *)
(* bound once to the event type and digest of the first INSERT to execute, *)
(* and only events with that content are acknowledged.                     *)
(***************************************************************************)
WL == INSTANCE WebhookLedger WITH
        Identity <- Identity,
        Content <- RowType,
        bound <- ledger,
        acked <- {<<Key(e), Row(e)>> : e \in acked}

ImplementsLedger == WL!Spec

(***************************************************************************)
(* At-least-once delivery converges: an authentic event of a configured    *)
(* provider is eventually acknowledged, unless its identity is taken by    *)
(* other content, or the provider reaches a replica without a pool again   *)
(* and again.                                                              *)
(***************************************************************************)
Settled(e) == e \in acked \/ (ledger[Key(e)] # {} /\ ~Holds(e))

DeliveriesSettle ==
  \A d \in Deliveries : Verified(post[d]) ~> Settled(EventOf(d)) \/ at[d] \notin Pooled

(***************************************************************************)
(* What entity/billing_webhook_events.rs says of the INSERT: a redelivery  *)
(* that conflicts was "already handled", so some handler has returned, or  *)
(* is going to return, Recorded for the identity (the cue for effects).    *)
(***************************************************************************)
ConflictMeansAlreadyHandled ==
  \A d \in Deliveries :
    (pc[d] = "responding" /\ answer[d] = "deduped") ~> fresh[Key(EventOf(d))] = 1

=============================================================================
