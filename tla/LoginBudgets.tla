---------------------------- MODULE LoginBudgets ----------------------------
(***************************************************************************)
(* The login handlers of src/login.rs on top of the limiter (Throttle):    *)
(* which budgets a post is charged to, in which order, and the call to     *)
(* Supabase that comes after them.  Handlers run concurrently, a handler   *)
(* is dropped when its request times out, and a charge is never returned.  *)
(*                                                                         *)
(* A budget counts attempts under the key the handler passes; what follows *)
(* an attempt is a call to a destination, at a later time, under the       *)
(* spelling that normalize_identifier makes of the same input.             *)
(***************************************************************************)
EXTENDS Throttle, Sequences

CONSTANTS
  Handlers,       \* posts that can be under way
  NoPost,         \* a handler that is idle
  Posts,          \* what is posted: operation, identifier and client
  Destinations,   \* mailboxes and telephones
  NoDestination,  \* what normalize_identifier refuses
  Destination,    \* Destination[s]: what a message addressed to s reaches
  Patience        \* REQUEST_TIMEOUT_SECS, in ticks

(* The budget of each operation. *)
BudgetOf ==
  [otp      |-> "OtpDispatchPerIdentifier",
   verify   |-> "OtpVerifyPerIdentifier",
   mfa      |-> "MfaVerifyPerClient",
   password |-> "PasswordPerIdentifier"]

(* Whom it is kept for: a second factor is posted without an identifier. *)
OwnCharge(p) == <<BudgetOf[p.op], IF p.op = "mfa" THEN p.client ELSE p.identifier>>

(* Mutant: a one-time code is charged to its destination only. *)
ChargesOfIdentifier(p) == <<OwnCharge(p)>>

(* The budgets of a post, in the order in which its handler checks them. *)
Charges(p) ==
  IF p.op = "otp"
  THEN <<OwnCharge(p), <<"OtpDispatchPerClient", p.client>> >>
  ELSE <<OwnCharge(p)>>

Operations == {"otp", "verify", "mfa", "password"}

ASSUME PostAssumption ==
  /\ Posts \subseteq [op: Operations, identifier: Spellings, client: Spellings]
  /\ NoPost \notin Posts
  /\ Buckets = {"OtpDispatchPerIdentifier", "OtpDispatchPerClient", "OtpVerifyPerIdentifier",
                "MfaVerifyPerClient", "PasswordPerIdentifier"}
  /\ NoDestination \notin Destinations
  /\ Destination \in [Spellings -> Destinations \cup {NoDestination}]
  /\ Patience \in Nat

VARIABLES
  post,      \* post[h]: what handler h works on
  paid,      \* paid[h]: how many of its charges were admitted
  since,     \* since[h]: when it was charged first
  receipts,  \* history: receipts[h], the admissions it was charged
  calls      \* history: the calls to Supabase, with the time and the receipts

lvars == <<vars, post, paid, since, receipts, calls>>

LInit ==
  /\ Init
  /\ post = [h \in Handlers |-> NoPost]
  /\ paid = [h \in Handlers |-> 0]
  /\ since = [h \in Handlers |-> 0]
  /\ receipts = [h \in Handlers |-> {}]
  /\ calls = {}

-----------------------------------------------------------------------------
(* The handler is over: answered, or dropped. *)
Leave(h) ==
  /\ post' = [post EXCEPT ![h] = NoPost]
  /\ paid' = [paid EXCEPT ![h] = 0]
  /\ since' = [since EXCEPT ![h] = 0]
  /\ receipts' = [receipts EXCEPT ![h] = {}]

Receipt(x) == <<x, [at |-> now, n |-> Cardinality(admitted[x])]>>

(* throttle::check of p's n-th budget; a denial is answered by 429. *)
Charge(h, p, n) ==
  LET b == Charges(p)[n][1]
      s == Charges(p)[n][2]
  IN
  /\ Check(b, s)
  /\ IF decision'.about = "allowed"
     THEN /\ post' = [post EXCEPT ![h] = p]
          /\ paid' = [paid EXCEPT ![h] = n]
          /\ since' = [since EXCEPT ![h] = IF n = 1 THEN now ELSE @]
          /\ receipts' = [receipts EXCEPT ![h] = @ \cup {Receipt(EntryKey(b, s))}]
     ELSE Leave(h)
  /\ UNCHANGED calls

(* A post has passed the checks of its handler and is charged, with no await in between. *)
Arrive(h) ==
  /\ post[h] = NoPost
  /\ \E p \in Posts : Charge(h, p, 1)

(* The handler goes on to the next budget; other handlers may have come in between. *)
ChargeNext(h) ==
  /\ post[h] # NoPost
  /\ paid[h] < Len(Charges(post[h]))
  /\ Charge(h, post[h], paid[h] + 1)

(* send_otp and verify_otp refuse an identifier that normalize_identifier refuses. *)
Addressed(p) == p.op \in {"otp", "verify"} => Destination[p.identifier] # NoDestination

(* The call to Supabase; whatever its answer, the handler ends with it. *)
Call(h) ==
  /\ post[h] # NoPost
  /\ paid[h] = Len(Charges(post[h]))
  /\ calls' = IF Addressed(post[h])
              THEN calls \cup {[post |-> post[h], at |-> now, receipts |-> receipts[h]]}
              ELSE calls
  /\ Leave(h)
  /\ UNCHANGED vars

(***************************************************************************)
(* A time-out, a disconnect, or a password post without a configured       *)
(* Supabase.  A handler awaits nothing between its checks.                 *)
(***************************************************************************)
Drop(h) ==
  /\ post[h] # NoPost
  /\ paid[h] = Len(Charges(post[h]))
  /\ Leave(h)
  /\ UNCHANGED <<vars, calls>>

(* Mutant: no TimeoutLayer. *)
TickRegardless ==
  /\ Tick
  /\ UNCHANGED <<post, paid, since, receipts, calls>>

(* Time passes; TimeoutLayer lets no handler outlive its request. *)
LTick ==
  /\ Tick
  /\ \A h \in Handlers : post[h] # NoPost => now - since[h] < Patience
  /\ UNCHANGED <<post, paid, since, receipts, calls>>

LNext ==
  \/ LTick
  \/ \E h \in Handlers : Arrive(h) \/ ChargeNext(h) \/ Call(h) \/ Drop(h)

LSpec == LInit /\ [][LNext]_lvars

-----------------------------------------------------------------------------
Paid == SUBSET (EntryKeys \X Event)

(* Every variable stays in its domain, and no handler outlives its request. *)
LoginTypeOK ==
  /\ post \in [Handlers -> Posts \cup {NoPost}]
  /\ paid \in [Handlers -> 0..2]
  /\ since \in [Handlers -> Time]
  /\ receipts \in [Handlers -> Paid]
  /\ calls \in SUBSET [post: Posts, at: Time, receipts: Paid]
  /\ \A h \in Handlers : post[h] # NoPost => now - since[h] \in 0..Patience

(***************************************************************************)
(* What the budgets are for ("Codes dispatched by one client",             *)
(* "Redemption attempts against one identifier", Bucket): not the checks   *)
(* but the calls to Supabase that follow them stay within the budget.  A   *)
(* call comes up to Patience after its check, so the guarantee is for      *)
(* stretches shorter than the window by that much.                         *)
(***************************************************************************)
Purposes ==
  {[bucket |-> "OtpDispatchPerIdentifier", op |-> "otp", by |-> "identifier"],
   [bucket |-> "OtpDispatchPerClient", op |-> "otp", by |-> "client"],
   [bucket |-> "OtpVerifyPerIdentifier", op |-> "verify", by |-> "identifier"],
   [bucket |-> "MfaVerifyPerClient", op |-> "mfa", by |-> "client"],
   [bucket |-> "PasswordPerIdentifier", op |-> "password", by |-> "identifier"]}

CallsFrom(b, start) ==
  {c \in calls : start <= c.at /\ c.at + Patience < start + Window[b]}

CallsFor(u, k, start) ==
  {c \in CallsFrom(u.bucket, start) : c.post.op = u.op /\ Normalised[c.post[u.by]] = k}

CallsWithinBudget ==
  \A u \in Purposes, k \in Keys, start \in Time :
    Cardinality(CallsFor(u, k, start)) <= Limit[u.bucket]

(***************************************************************************)
(* What Bucket::budget says of the codes sent to one mailbox or telephone: *)
(* its limit makes "bulk dispatch to one number pointless".  The budget is *)
(* kept by the key of a spelling, which is trimmed and lower-cased, while  *)
(* the number that is dialled has lost all of its white space.             *)
(***************************************************************************)
CodesTo(d, start) ==
  {c \in CallsFrom("OtpDispatchPerIdentifier", start) :
     c.post.op = "otp" /\ Destination[c.post.identifier] = d}

NumberWithinBudget ==
  \A d \in Destinations, start \in Time :
    Cardinality(CodesTo(d, start)) <= Limit["OtpDispatchPerIdentifier"]
=============================================================================
