------------------------- MODULE LoginBudgetsProofs -------------------------
(***************************************************************************)
(* Proofs about LoginBudgets for any handlers, posts, spellings, limits,   *)
(* windows and patience.  Every step of it is a step of the limiter, so    *)
(* what ThrottleProofs shows of the limiter holds here.  What is added is  *)
(* an account of the admissions: each belongs to at most one handler or    *)
(* call (Disjoint), so calls can be counted by the admissions they own.    *)
(***************************************************************************)
EXTENDS LoginBudgets, ThrottleProofs

(* The entry key of p's i-th charge. *)
ChargedKey(p, i) == EntryKey(Charges(p)[i][1], Charges(p)[i][2])

(* The receipts in R are for every one of p's first n charges. *)
PaidFor(R, p, n) == \A i \in 1..n : \E e \in Event : <<ChargedKey(p, i), e>> \in R

(* The receipts in R are admissions. *)
Genuine(R) == \A r \in R : r[2] \in admitted[r[1]]

HandlersPaid ==
  \A h \in Handlers :
    /\ Genuine(receipts[h])
    /\ \A r \in receipts[h] : since[h] <= r[2].at
    /\ post[h] = NoPost => receipts[h] = {}
    /\ post[h] # NoPost => /\ paid[h] \in 1..Len(Charges(post[h]))
                           /\ PaidFor(receipts[h], post[h], paid[h])

CallsPaid ==
  \A c \in calls :
    /\ Genuine(c.receipts)
    /\ \A r \in c.receipts : r[2].at <= c.at /\ c.at <= r[2].at + Patience
    /\ PaidFor(c.receipts, c.post, Len(Charges(c.post)))

(* No admission is spent twice. *)
Disjoint ==
  /\ \A h, g \in Handlers : h # g => receipts[h] \cap receipts[g] = {}
  /\ \A c \in calls, h \in Handlers : c.receipts \cap receipts[h] = {}
  /\ \A c, d \in calls : c # d => c.receipts \cap d.receipts = {}

LInv == LoginTypeOK /\ HandlersPaid /\ CallsPaid /\ Disjoint

-----------------------------------------------------------------------------
(* A post has one charge or two, each of a budget and a key there is. *)
LEMMA ChargesType ==
  ASSUME NEW p \in Posts
  PROVE  /\ Len(Charges(p)) \in 1..2
         /\ \A i \in 1..Len(Charges(p)) :
              /\ Charges(p)[i][1] \in Buckets /\ Charges(p)[i][2] \in Spellings
              /\ ChargedKey(p, i) \in EntryKeys
<1>1. p.op \in Operations /\ p.identifier \in Spellings /\ p.client \in Spellings
  BY PostAssumption
<1>2. /\ Len(Charges(p)) \in 1..2
      /\ \A i \in 1..Len(Charges(p)) :
           Charges(p)[i][1] \in Buckets /\ Charges(p)[i][2] \in Spellings
  <2>1. CASE p.op = "otp"
    BY <1>1, <2>1, PostAssumption DEF Charges, OwnCharge, BudgetOf
  <2>2. CASE p.op = "verify"
    BY <1>1, <2>2, PostAssumption DEF Charges, OwnCharge, BudgetOf
  <2>3. CASE p.op = "mfa"
    BY <1>1, <2>3, PostAssumption DEF Charges, OwnCharge, BudgetOf
  <2>4. CASE p.op = "password"
    BY <1>1, <2>4, PostAssumption DEF Charges, OwnCharge, BudgetOf
  <2> QED BY <1>1, <2>1, <2>2, <2>3, <2>4 DEF Operations
<1> QED BY <1>2, EntryKeyType DEF ChargedKey

(* The budget whose purpose an operation falls under is one of its charges. *)
LEMMA PurposeIsCharged ==
  ASSUME NEW p \in Posts, NEW u \in Purposes, p.op = u.op
  PROVE  /\ u.bucket \in Buckets
         /\ \E i \in 1..Len(Charges(p)) : ChargedKey(p, i) = <<u.bucket, Normalised[p[u.by]]>>
<1>1. \E i \in 1..Len(Charges(p)) : Charges(p)[i] = <<u.bucket, p[u.by]>>
  <2>1. CASE u = [bucket |-> "OtpDispatchPerIdentifier", op |-> "otp", by |-> "identifier"]
    <3>1. Len(Charges(p)) = 2 /\ Charges(p)[1] = <<"OtpDispatchPerIdentifier", p.identifier>>
      BY <2>1 DEF Charges, OwnCharge, BudgetOf
    <3> QED BY <2>1, <3>1
  <2>2. CASE u = [bucket |-> "OtpDispatchPerClient", op |-> "otp", by |-> "client"]
    <3>1. Len(Charges(p)) = 2 /\ Charges(p)[2] = <<"OtpDispatchPerClient", p.client>>
      BY <2>2 DEF Charges, OwnCharge, BudgetOf
    <3> QED BY <2>2, <3>1
  <2>3. CASE u = [bucket |-> "OtpVerifyPerIdentifier", op |-> "verify", by |-> "identifier"]
    <3>1. Len(Charges(p)) = 1 /\ Charges(p)[1] = <<"OtpVerifyPerIdentifier", p.identifier>>
      BY <2>3 DEF Charges, OwnCharge, BudgetOf
    <3> QED BY <2>3, <3>1
  <2>4. CASE u = [bucket |-> "MfaVerifyPerClient", op |-> "mfa", by |-> "client"]
    <3>1. Len(Charges(p)) = 1 /\ Charges(p)[1] = <<"MfaVerifyPerClient", p.client>>
      BY <2>4 DEF Charges, OwnCharge, BudgetOf
    <3> QED BY <2>4, <3>1
  <2>5. CASE u = [bucket |-> "PasswordPerIdentifier", op |-> "password", by |-> "identifier"]
    <3>1. Len(Charges(p)) = 1 /\ Charges(p)[1] = <<"PasswordPerIdentifier", p.identifier>>
      BY <2>5 DEF Charges, OwnCharge, BudgetOf
    <3> QED BY <2>5, <3>1
  <2> QED BY <2>1, <2>2, <2>3, <2>4, <2>5 DEF Purposes
<1>2. u.bucket \in Buckets
  BY PostAssumption DEF Purposes
<1> QED BY <1>1, <1>2 DEF ChargedKey, EntryKey

(* Every step of the handlers is a step of the limiter, or leaves it alone. *)
LEMMA LoginStepIsLimiterStep ==
  ASSUME LoginTypeOK, HandlersPaid, [LNext]_lvars
  PROVE  [Next]_vars
<1>1. CASE LTick
  BY <1>1 DEF LTick, Next
<1>2. ASSUME NEW h \in Handlers, NEW p \in Posts, NEW n \in 1..Len(Charges(p)), Charge(h, p, n)
      PROVE  Next
  <2>1. Charges(p)[n][1] \in Buckets /\ Charges(p)[n][2] \in Spellings
    BY ChargesType
  <2> QED BY <1>2, <2>1 DEF Charge, Next
<1>3. ASSUME NEW h \in Handlers, Arrive(h) PROVE Next
  <2>1. PICK p \in Posts : Charge(h, p, 1)
    BY <1>3 DEF Arrive
  <2>2. 1 \in 1..Len(Charges(p))
    BY ChargesType
  <2> QED BY <1>2, <2>1, <2>2
<1>4. ASSUME NEW h \in Handlers, ChargeNext(h) PROVE Next
  <2>1. post[h] \in Posts /\ paid[h] \in 0..2
    BY <1>4 DEF LoginTypeOK, ChargeNext
  <2>2. paid[h] + 1 \in 1..Len(Charges(post[h]))
    BY <1>4, <2>1, ChargesType DEF ChargeNext
  <2> QED BY <1>2, <1>4, <2>1, <2>2 DEF ChargeNext
<1>5. ASSUME NEW h \in Handlers, Call(h) \/ Drop(h) PROVE UNCHANGED vars
  BY <1>5 DEF Call, Drop
<1>6. CASE UNCHANGED lvars
  BY <1>6 DEF lvars
<1> QED BY <1>1, <1>3, <1>4, <1>5, <1>6 DEF LNext
-----------------------------------------------------------------------------
(* Nothing is owed at first. *)
LEMMA LInitLInv == LInit => LInv
<1> SUFFICES ASSUME LInit PROVE LInv
  OBVIOUS
<1>1. 0 \in Time /\ 0 \in 0..2 /\ 0 - 0 \in 0..Patience
  BY BoundAssumption, PostAssumption DEF Time
<1>2. LoginTypeOK
  BY <1>1, PostAssumption DEF LInit, LoginTypeOK, Paid
<1>3. HandlersPaid /\ CallsPaid /\ Disjoint
  BY DEF LInit, HandlersPaid, CallsPaid, Disjoint, Genuine
<1> QED BY <1>2, <1>3 DEF LInv

(* A check is admitted and adds one fresh event to the history, or adds none. *)
LEMMA CheckFacts ==
  ASSUME IInv, NEW b \in Buckets, NEW s \in Spellings, Check(b, s), NEW x, x = EntryKey(b, s)
  PROVE  /\ now' = now /\ x \in EntryKeys
         /\ \A y \in EntryKeys : admitted[y] \subseteq admitted'[y]
         /\ decision'.about = "allowed" =>
              \E event \in Event : /\ Receipt(x) = <<x, event>> /\ event.at = now
                                   /\ event \notin admitted[x] /\ event \in admitted'[x]
<1> USE DEF IInv
<1>1. x \in EntryKeys
  BY EntryKeyType
<1>2. CASE Admit(b, s)
  <2> DEFINE event == [at |-> now, n |-> Cardinality(admitted[x])]
  <2>1. Cardinality(admitted[x]) \in Nat
    BY <1>1, FS_CardinalityType DEF HistoryOK
  <2>2. event \in Event /\ event.at = now /\ event.n = Cardinality(admitted[x])
    BY <2>1 DEF TypeOK, Event
  <2>3. event \notin admitted[x]
    BY <1>1, <2>1, <2>2 DEF HistoryOK
  <2>4. now' = now /\ admitted' = [admitted EXCEPT ![x] = @ \cup {event}]
    BY <1>2 DEF Admit
  <2>5. Receipt(x) = <<x, event>>
    BY DEF Receipt
  <2> HIDE DEF event
  <2>6. event \in admitted'[x] /\ \A y \in EntryKeys : admitted[y] \subseteq admitted'[y]
    BY <1>1, <2>4 DEF TypeOK
  <2> QED BY <1>1, <2>2, <2>3, <2>4, <2>5, <2>6
<1>3. CASE RefuseNewKey(b, s)
  BY <1>1, <1>3 DEF RefuseNewKey, Deny
<1>4. CASE DenyOverBudget(b, s)
  BY <1>1, <1>4 DEF DenyOverBudget, Deny
<1> QED BY <1>2, <1>3, <1>4 DEF Check

(* An admission stays one. *)
LEMMA GenuineStays ==
  ASSUME \A y \in EntryKeys : admitted[y] \subseteq admitted'[y],
         NEW R \in Paid, Genuine(R)
  PROVE  Genuine(R)'
<1>1. \A r \in R : r[1] \in EntryKeys /\ r[2] \in admitted[r[1]]
  BY DEF Paid, Genuine
<1> QED BY <1>1 DEF Genuine

(* The call that h makes, all of its charges paid. *)
CallOf(h) == [post |-> post[h], at |-> now, receipts |-> receipts[h]]

(* A handler that leaves gives up its receipts, or has spent them on its call. *)
LEMMA LeaveStep ==
  ASSUME LInv, IInv, now' = now, NEW h \in Handlers, Leave(h),
         \/ calls' = calls
         \/ /\ post[h] # NoPost /\ paid[h] = Len(Charges(post[h]))
            /\ calls' = calls \cup {CallOf(h)},
         \A y \in EntryKeys : admitted[y] \subseteq admitted'[y]
  PROVE  LInv'
<1> USE DEF LInv
<1>1. /\ post' \in [Handlers -> Posts \cup {NoPost}] /\ paid' \in [Handlers -> 0..2]
      /\ since' \in [Handlers -> Time] /\ receipts' \in [Handlers -> Paid]
  BY BoundAssumption DEF Leave, LoginTypeOK, Paid, Time
<1>2. /\ post'[h] = NoPost /\ receipts'[h] = {}
      /\ \A g \in Handlers \ {h} : /\ post'[g] = post[g] /\ paid'[g] = paid[g]
                                  /\ since'[g] = since[g] /\ receipts'[g] = receipts[g]
  BY DEF Leave, LoginTypeOK
<1>3. LoginTypeOK'
  <2>1. now \in Time
    BY DEF IInv, TypeOK
  <2>2. post[h] # NoPost => CallOf(h) \in [post: Posts, at: Time, receipts: Paid]
    BY <2>1 DEF CallOf, LoginTypeOK
  <2>3. calls' \in SUBSET [post: Posts, at: Time, receipts: Paid]
    BY <2>2 DEF LoginTypeOK
  <2> QED BY <1>1, <1>2, <2>3 DEF LoginTypeOK, Time, Paid
<1>4. \A g \in Handlers : Genuine(receipts[g])'
  <2>1. \A g \in Handlers : receipts[g] \in Paid /\ Genuine(receipts[g])
    BY DEF LoginTypeOK, HandlersPaid
  <2>2. \A g \in Handlers \ {h} : Genuine(receipts[g])'
    BY <1>2, <2>1, GenuineStays DEF Genuine
  <2> QED BY <1>2, <2>2 DEF Genuine
<1>5. HandlersPaid'
  BY <1>2, <1>4 DEF HandlersPaid, PaidFor
<1>6. CallsPaid'
  <2>1. \A c \in calls : Genuine(c.receipts)'
    <3>1. \A c \in calls : c.receipts \in Paid
      BY DEF LoginTypeOK
    <3> QED BY <3>1, GenuineStays DEF CallsPaid
  <2>2. ASSUME post[h] # NoPost, paid[h] = Len(Charges(post[h]))
        PROVE  /\ \A r \in receipts[h] : r[2] \in admitted'[r[1]]
               /\ \A r \in receipts[h] : r[2].at <= now /\ now <= r[2].at + Patience
               /\ PaidFor(receipts[h], post[h], Len(Charges(post[h])))
    <3>1. receipts[h] \in Paid /\ Genuine(receipts[h])
      BY DEF LoginTypeOK, HandlersPaid
    <3>2. \A q \in receipts[h] : q[2] \in admitted'[q[1]]
      BY <3>1 DEF Genuine, Paid
    <3>3. ASSUME NEW r \in receipts[h]
          PROVE  r[2].at <= now /\ now <= r[2].at + Patience
      <4>1. r[2] \in admitted[r[1]] /\ r[1] \in EntryKeys /\ r[2].at \in Time
        BY <3>1 DEF Genuine, Paid, Event
      <4>2. since[h] \in Time /\ now \in Time /\ since[h] <= r[2].at
            /\ now - since[h] \in 0..Patience
        BY <2>2 DEF LoginTypeOK, HandlersPaid, IInv, TypeOK
      <4> QED BY <4>1, <4>2, PostAssumption, BoundAssumption DEF IInv, HistoryOK, Time
    <3> QED BY <2>2, <3>2, <3>3 DEF HandlersPaid
  <2>3. ASSUME NEW c \in calls'
        PROVE  /\ Genuine(c.receipts)'
               /\ \A r \in c.receipts : r[2].at <= c.at /\ c.at <= r[2].at + Patience
               /\ PaidFor(c.receipts, c.post, Len(Charges(c.post)))
    <3>1. CASE c \in calls
      BY <2>1, <3>1 DEF CallsPaid
    <3>2. CASE c \notin calls
      BY <2>2, <3>2 DEF CallOf, Genuine
    <3> QED BY <3>1, <3>2
  <2> QED BY <2>3 DEF CallsPaid, PaidFor
<1>7. Disjoint'
  <2>1. /\ \A f, g \in Handlers : f # g => receipts'[f] \cap receipts'[g] = {}
        /\ \A c \in calls, g \in Handlers : c.receipts \cap receipts'[g] = {}
    BY <1>2 DEF Disjoint
  <2>2. \A g \in Handlers : CallOf(h).receipts \cap receipts'[g] = {}
    BY <1>2 DEF Disjoint, CallOf
  <2>3. \A c \in calls : c.receipts \cap CallOf(h).receipts = {}
    BY DEF Disjoint, CallOf
  <2> QED BY <2>1, <2>2, <2>3 DEF Disjoint
<1> QED BY <1>3, <1>5, <1>6, <1>7

(* Time passes for handlers that are within their time only. *)
LEMMA LTickStep ==
  ASSUME LInv, IInv, LTick
  PROVE  LInv'
<1> USE DEF LInv
<1>1. /\ now' = now + 1 /\ now' \in Time /\ now \in Time
      /\ UNCHANGED <<post, paid, since, receipts, calls, admitted>>
  BY BoundAssumption DEF LTick, Tick, IInv, TypeOK, Time
<1>2. LoginTypeOK'
  <2>1. ASSUME NEW h \in Handlers, post[h] # NoPost
        PROVE  now' - since[h] \in 0..Patience
    <3>1. since[h] \in Time /\ now - since[h] \in 0..Patience /\ now - since[h] < Patience
      BY <2>1 DEF LoginTypeOK, LTick
    <3> QED BY <1>1, <3>1, PostAssumption, BoundAssumption DEF Time
  <2> QED BY <1>1, <2>1 DEF LoginTypeOK, Time, Paid
<1>3. HandlersPaid' /\ CallsPaid' /\ Disjoint'
  BY <1>1 DEF HandlersPaid, CallsPaid, Disjoint, Genuine, PaidFor
<1> QED BY <1>2, <1>3

(***************************************************************************)
(* A charge: the handler is given a receipt that nobody has, or it is      *)
(* over.  The first charge starts its time; the second leaves it running.  *)
(***************************************************************************)
LEMMA ChargeStep ==
  ASSUME LInv, IInv, NEW h \in Handlers, NEW p \in Posts, NEW n \in 1..Len(Charges(p)),
         Charge(h, p, n),
         n = 1 => post[h] = NoPost,
         n # 1 => post[h] = p /\ paid[h] = n - 1
  PROVE  LInv'
<1> USE DEF LInv
<1>1. PICK x \in EntryKeys : x = ChargedKey(p, n)
  BY ChargesType
<1>2. /\ now' = now /\ now \in Time
      /\ \A y \in EntryKeys : admitted[y] \subseteq admitted'[y]
      /\ decision'.about = "allowed" =>
           \E event \in Event : /\ Receipt(x) = <<x, event>> /\ event.at = now
                                /\ event \notin admitted[x] /\ event \in admitted'[x]
  BY <1>1, ChargesType, CheckFacts DEF Charge, ChargedKey, IInv, TypeOK
<1>3. CASE decision'.about # "allowed"
  BY <1>2, <1>3, LeaveStep DEF Charge
<1>4. CASE decision'.about = "allowed"
  <2>1. PICK event \in Event : /\ Receipt(x) = <<x, event>> /\ event.at = now
                               /\ event \notin admitted[x] /\ event \in admitted'[x]
    BY <1>2, <1>4
  <2> DEFINE r == <<x, event>>
  <2>2. /\ post' = [post EXCEPT ![h] = p]
        /\ paid' = [paid EXCEPT ![h] = n]
        /\ since' = [since EXCEPT ![h] = IF n = 1 THEN now ELSE @]
        /\ receipts' = [receipts EXCEPT ![h] = @ \cup {r}]
        /\ calls' = calls
    BY <1>1, <1>4, <2>1 DEF Charge, ChargedKey
  <2>3. /\ post'[h] = p /\ paid'[h] = n
        /\ since'[h] = IF n = 1 THEN now ELSE since[h]
        /\ receipts'[h] = receipts[h] \cup {r}
        /\ \A g \in Handlers \ {h} : /\ post'[g] = post[g] /\ paid'[g] = paid[g]
                                    /\ since'[g] = since[g] /\ receipts'[g] = receipts[g]
    BY <2>2 DEF LoginTypeOK
  <2>4. r \in EntryKeys \X Event /\ r[1] = x /\ r[2] = event
    OBVIOUS
  <2> HIDE DEF r
  <2>5. p # NoPost /\ n \in 1..2 /\ now \in Nat /\ Patience \in Nat
    BY <1>2, ChargesType, PostAssumption, BoundAssumption DEF Time
  <2>6. since'[h] \in Time /\ now - since'[h] \in 0..Patience
    <3>1. CASE n = 1
      BY <1>2, <2>3, <2>5, <3>1
    <3>2. CASE n # 1
      BY <2>3, <2>5, <3>2 DEF LoginTypeOK
    <3> QED BY <3>1, <3>2
  <2>7. LoginTypeOK'
    <3>1. receipts' \in [Handlers -> Paid]
      BY <2>2, <2>4 DEF LoginTypeOK, Paid
    <3>2. /\ post' \in [Handlers -> Posts \cup {NoPost}] /\ paid' \in [Handlers -> 0..2]
          /\ since' \in [Handlers -> Time]
      BY <1>2, <2>2, <2>5 DEF LoginTypeOK
    <3>3. \A g \in Handlers : post'[g] # NoPost => now - since'[g] \in 0..Patience
      BY <2>3, <2>6 DEF LoginTypeOK
    <3> QED BY <1>2, <2>2, <3>1, <3>2, <3>3 DEF LoginTypeOK, Time, Paid
  <2>8. \A g \in Handlers : Genuine(receipts[g])'
    <3>1. \A g \in Handlers : receipts[g] \in Paid /\ Genuine(receipts[g])
      BY DEF LoginTypeOK, HandlersPaid
    <3>2. \A g \in Handlers : \A q \in receipts[g] : q[2] \in admitted'[q[1]]
      BY <1>2, <3>1 DEF Genuine, Paid
    <3>3. \A g \in Handlers : \A q \in receipts'[g] : q \in receipts[g] \/ q = r
      BY <2>3
    <3> QED BY <2>1, <2>4, <3>2, <3>3 DEF Genuine
  <2>9. \A q \in receipts'[h] : since'[h] <= q[2].at
    <3>1. CASE n = 1
      <4>1. receipts'[h] = {r}
        BY <2>3, <3>1 DEF HandlersPaid
      <4> QED BY <2>1, <2>3, <2>4, <2>5, <3>1, <4>1
    <3>2. CASE n # 1
      <4>1. since'[h] = since[h] /\ since[h] <= now
        BY <2>3, <2>5, <2>6, <3>2 DEF Time
      <4> QED BY <2>1, <2>3, <2>4, <4>1 DEF HandlersPaid
    <3> QED BY <3>1, <3>2
  <2>10. PaidFor(receipts'[h], p, n)
    <3>1. <<ChargedKey(p, n), event>> \in receipts'[h]
      BY <1>1, <2>3 DEF r
    <3>2. ASSUME NEW i \in 1..n, i # n
          PROVE  \E e \in Event : <<ChargedKey(p, i), e>> \in receipts'[h]
      <4>1. post[h] = p /\ paid[h] = n - 1 /\ i \in 1..(n - 1)
        BY <2>5, <3>2
      <4>2. PaidFor(receipts[h], p, n - 1)
        BY <2>5, <4>1 DEF HandlersPaid
      <4> QED BY <2>3, <4>1, <4>2 DEF PaidFor
    <3> QED BY <3>1, <3>2 DEF PaidFor
  <2>11. HandlersPaid'
    <3>1. \A g \in Handlers \ {h} :
            /\ \A q \in receipts'[g] : since'[g] <= q[2].at
            /\ post'[g] = NoPost => receipts'[g] = {}
            /\ post'[g] # NoPost => /\ paid'[g] \in 1..Len(Charges(post'[g]))
                                    /\ PaidFor(receipts'[g], post'[g], paid'[g])
      BY <2>3 DEF HandlersPaid
    <3>2. /\ post'[h] # NoPost /\ paid'[h] \in 1..Len(Charges(post'[h]))
          /\ PaidFor(receipts'[h], post'[h], paid'[h])
      BY <2>3, <2>5, <2>10
    <3> QED BY <2>8, <2>9, <3>1, <3>2 DEF HandlersPaid, PaidFor, ChargedKey, EntryKey, Charges
  <2>12. CallsPaid'
    <3>1. \A c \in calls : c.receipts \in Paid
      BY DEF LoginTypeOK
    <3>2. \A c \in calls : Genuine(c.receipts)'
      BY <1>2, <3>1, GenuineStays DEF CallsPaid
    <3> QED BY <2>2, <3>2 DEF CallsPaid, PaidFor
  <2>13. Disjoint'
    <3>1. /\ \A g \in Handlers : r \notin receipts[g]
          /\ \A c \in calls : r \notin c.receipts
      BY <2>1, <2>4 DEF HandlersPaid, CallsPaid, Genuine
    <3>2. \A g \in Handlers \ {h} : receipts'[h] \cap receipts'[g] = {}
      BY <2>3, <3>1 DEF Disjoint
    <3>3. \A f, g \in Handlers : f # g => receipts'[f] \cap receipts'[g] = {}
      BY <2>3, <3>2 DEF Disjoint
    <3>4. \A c \in calls, g \in Handlers : c.receipts \cap receipts'[g] = {}
      BY <2>3, <3>1 DEF Disjoint
    <3> QED BY <2>2, <3>3, <3>4 DEF Disjoint
  <2> QED BY <2>7, <2>11, <2>12, <2>13
<1> QED BY <1>3, <1>4

(* Every step of a handler keeps the account. *)
LEMMA LoginStep ==
  ASSUME LInv, IInv, [LNext]_lvars
  PROVE  LInv'
<1>1. CASE LTick
  BY <1>1, LTickStep
<1>2. ASSUME NEW h \in Handlers, Arrive(h) PROVE LInv'
  <2>1. PICK p \in Posts : Charge(h, p, 1)
    BY <1>2 DEF Arrive
  <2>2. PICK n \in 1..Len(Charges(p)) : n = 1
    <3>1. PICK len \in 1..2 : len = Len(Charges(p))
      BY ChargesType
    <3>2. 1 \in 1..len
      BY <3>1
    <3> QED BY <3>1, <3>2
  <2>3. Charge(h, p, n) /\ post[h] = NoPost
    BY <1>2, <2>1, <2>2 DEF Arrive
  <2> QED BY <2>2, <2>3, ChargeStep
<1>3. ASSUME NEW h \in Handlers, ChargeNext(h) PROVE LInv'
  <2>1. PICK p \in Posts : p = post[h]
    BY <1>3 DEF ChargeNext, LInv, LoginTypeOK
  <2>2. PICK n \in 1..Len(Charges(p)) : n = paid[h] + 1 /\ n # 1 /\ paid[h] = n - 1
    <3>1. paid[h] \in 1..Len(Charges(p)) /\ paid[h] < Len(Charges(p))
      BY <1>3, <2>1 DEF ChargeNext, LInv, HandlersPaid
    <3> QED BY <3>1, ChargesType
  <2>3. Charge(h, p, n)
    BY <1>3, <2>1, <2>2 DEF ChargeNext
  <2> QED BY <2>1, <2>2, <2>3, ChargeStep
<1>4. ASSUME NEW h \in Handlers, Call(h) \/ Drop(h) PROVE LInv'
  <2>1. UNCHANGED vars /\ Leave(h)
    BY <1>4 DEF Call, Drop
  <2>2. now' = now /\ \A y \in EntryKeys : admitted[y] \subseteq admitted'[y]
    BY <2>1 DEF vars
  <2>3. \/ calls' = calls
        \/ /\ post[h] # NoPost /\ paid[h] = Len(Charges(post[h]))
           /\ calls' = calls \cup {CallOf(h)}
    BY <1>4 DEF Call, Drop, CallOf
  <2> QED BY <2>1, <2>2, <2>3, LeaveStep
<1>5. CASE UNCHANGED lvars
  BY <1>5 DEF lvars, vars, LInv, LoginTypeOK, HandlersPaid, CallsPaid, Disjoint, Genuine, Paid
<1> QED BY <1>1, <1>2, <1>3, <1>4, <1>5 DEF LNext

(* The handlers drive the limiter as its specification says. *)
THEOREM LoginInvariance == LSpec => [](IInv /\ LInv)
<1>1. LInit => IInv /\ LInv
  BY InitIInv, LInitLInv DEF LInit
<1>2. IInv /\ LInv /\ [LNext]_lvars => IInv' /\ LInv'
  <2> SUFFICES ASSUME IInv, LInv, [LNext]_lvars PROVE IInv' /\ LInv'
    OBVIOUS
  <2>1. [Next]_vars
    BY LoginStepIsLimiterStep DEF LInv
  <2> QED BY <2>1, LimiterStep, LoginStep
<1> QED BY <1>1, <1>2, PTL DEF LSpec

(* Whatever the login handlers do, the limiter underneath behaves as specified. *)
LEMMA LoginRunsLimiter == LSpec => Spec
<1>1. LInit => Init
  BY DEF LInit
<1>2. LInv /\ [LNext]_lvars => [Next]_vars
  BY LoginStepIsLimiterStep DEF LInv
<1> QED BY <1>1, <1>2, LoginInvariance, PTL DEF LSpec, Spec

(* The limiter as the login handlers use it decides as the ideal one does. *)
THEOREM LoginIsLimited == LSpec => ImplementsSlidingWindow
BY LoginRunsLimiter, Refinement

(* No handler outlives its request, and the account of its charges is well formed. *)
THEOREM LoginTypeCorrect == LSpec => []LoginTypeOK
BY LoginInvariance, PTL DEF LInv

-----------------------------------------------------------------------------
(***************************************************************************)
(* Each call owns an admission of the budget that it falls under, at most  *)
(* Patience older than itself, and no two calls own the same one: calls    *)
(* are as few as the admissions of a stretch one window long.              *)
(***************************************************************************)
LEMMA CallsOwnAdmissions ==
  ASSUME IInv, LInv, NEW u \in Purposes, NEW k \in Keys, NEW start \in Time
  PROVE  /\ IsFiniteSet(CallsFor(u, k, start))
         /\ Cardinality(CallsFor(u, k, start)) <= Limit[u.bucket]
<1> DEFINE x == <<u.bucket, k>>
           C == CallsFor(u, k, start)
           from == IF start < Patience THEN 0 ELSE start - Patience
           owned == [c \in C |-> CHOOSE e \in Event : <<x, e>> \in c.receipts]
<1>1. /\ u.bucket \in Buckets /\ x \in EntryKeys /\ from \in Time
      /\ Patience \in Nat /\ Window[u.bucket] \in Nat \ {0} /\ Limit[u.bucket] \in Nat
  <2>1. u.bucket \in Buckets
    BY PostAssumption DEF Purposes
  <2> QED BY <2>1, PostAssumption, BudgetAssumption, BoundAssumption DEF EntryKeys, Time
<1>2. \A c \in C : owned[c] \in Event /\ <<x, owned[c]>> \in c.receipts
  <2> SUFFICES ASSUME NEW c \in C
               PROVE  \E e \in Event : <<x, e>> \in c.receipts
    OBVIOUS
  <2>1. c \in calls /\ c.post \in Posts /\ c.post.op = u.op /\ Normalised[c.post[u.by]] = k
    BY DEF CallsFor, CallsFrom, LInv, LoginTypeOK
  <2>2. PICK i \in 1..Len(Charges(c.post)) : ChargedKey(c.post, i) = x
    BY <2>1, PurposeIsCharged
  <2> QED BY <2>1, <2>2 DEF LInv, CallsPaid, PaidFor
<1> HIDE DEF x
<1>3. ASSUME NEW c \in C PROVE owned[c] \in InStretch(x, from)
  <2>1. /\ c \in calls /\ c.at \in Time
        /\ start <= c.at /\ c.at + Patience < start + Window[u.bucket]
    BY DEF CallsFor, CallsFrom, LInv, LoginTypeOK
  <2>2. PICK e \in Event : e = owned[c]
    BY <1>2
  <2>3. e \in admitted[x] /\ e.at <= c.at /\ c.at <= e.at + Patience
    BY <1>2, <2>1, <2>2 DEF LInv, CallsPaid, Genuine
  <2>4. from <= e.at /\ e.at < from + Window[u.bucket]
    <3>1. e.at \in Nat /\ c.at \in Nat /\ start \in Nat
      BY <2>1, BoundAssumption DEF Event, Time
    <3> QED BY <1>1, <2>1, <2>3, <3>1
  <2> QED BY <2>2, <2>3, <2>4 DEF InStretch, x
<1>4. \A c, d \in C : owned[c] = owned[d] => c = d
  BY <1>2 DEF LInv, Disjoint, CallsFor, CallsFrom
<1>5. IsFiniteSet(InStretch(x, from))
  BY <1>1, FS_Subset DEF IInv, HistoryOK, InStretch, x
<1>6. owned \in Injection(C, InStretch(x, from))
  BY <1>3, <1>4 DEF Injection, IsInjective
<1> HIDE DEF owned, C, from
<1>7. IsFiniteSet(C) /\ Cardinality(C) <= Cardinality(InStretch(x, from))
  BY <1>5, <1>6, FS_Injection
<1>8. Cardinality(InStretch(x, from)) <= Limit[u.bucket]
  BY <1>1 DEF IInv, BudgetHonoured, x
<1> QED BY <1>1, <1>5, <1>7, <1>8, FS_CardinalityType DEF C

(* The calls that Supabase is sent stay within their budgets, time-outs included. *)
THEOREM CallsAreWithinBudget == LSpec => []CallsWithinBudget
<1>1. IInv /\ LInv => CallsWithinBudget
  BY CallsOwnAdmissions DEF CallsWithinBudget
<1> QED BY <1>1, LoginInvariance, PTL
=============================================================================
