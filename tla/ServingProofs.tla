--------------------------- MODULE ServingProofs ----------------------------
(***************************************************************************)
(* Proofs about Serving for any number of requests.  The metrics count     *)
(* three sets of requests (Executing, Abandoned, Recorded) of which a step *)
(* changes one or two, by one member; each action says by which.           *)
(***************************************************************************)
EXTENDS Serving, FiniteSetTheorems, TLAPS

(* What the stage of a request says of it. *)
Stands(r) ==
  /\ at[r] = "recording" => Counted(r)
  /\ at[r] \in {"recording", "sending", "streaming", "done", "cut"} => answer[r] # "none"
  /\ at[r] \in {"dropped", "closed"} => r \in gone
  /\ at[r] = "streaming" => Stream(r)
  /\ at[r] = "cut" => kind[r] = "socket"
  /\ server = "stopped" => at[r] \in {"idle", "done", "dropped", "closed", "cut"}

IInv ==
  /\ TypeOK
  /\ MetricsExplained
  /\ NoDoubleCount
  /\ \A r \in Requests : Stands(r)

(* The step is not of request q. *)
Aside(q) == at'[q] = at[q] /\ answer'[q] = answer[q]

-----------------------------------------------------------------------------
(* The size of a union of disjoint sets. *)
LEMMA DisjointUnion ==
  ASSUME NEW S, NEW T, IsFiniteSet(S), IsFiniteSet(T), S \cap T = {}
  PROVE  /\ IsFiniteSet(S \cup T)
         /\ Cardinality(S \cup T) = Cardinality(S) + Cardinality(T)
<1>1. Cardinality(S \cap T) = 0
  BY FS_EmptySet
<1>2. Cardinality(S) \in Nat /\ Cardinality(T) \in Nat
  BY FS_CardinalityType
<1>3. /\ IsFiniteSet(S \cup T)
      /\ Cardinality(S \cup T) = Cardinality(S) + Cardinality(T) - Cardinality(S \cap T)
  BY FS_Union
<1> QED BY <1>1, <1>2, <1>3

(* The three sets are finite, and disjoint parts of what arrived. *)
LEMMA Counts ==
  ASSUME TypeOK
  PROVE  /\ IsFiniteSet(Executing) /\ IsFiniteSet(Abandoned) /\ IsFiniteSet(Recorded)
         /\ Cardinality(Executing) \in Nat /\ Cardinality(Abandoned) \in Nat
         /\ Cardinality(Recorded) \in Nat /\ Cardinality(Arrived) \in Nat
         /\ Cardinality(Executing) + Cardinality(Abandoned) + Cardinality(Recorded)
              <= Cardinality(Arrived)
<1>1. /\ Executing \in SUBSET Requests /\ Abandoned \in SUBSET Requests
      /\ Recorded \in SUBSET Requests /\ Arrived \in SUBSET Requests
  BY DEF Executing, Abandoned, Recorded, Arrived
<1>2. /\ IsFiniteSet(Executing) /\ IsFiniteSet(Abandoned) /\ IsFiniteSet(Recorded)
      /\ IsFiniteSet(Arrived)
  BY <1>1, ServingAssumption, FS_Subset
<1>3. /\ Cardinality(Executing) \in Nat /\ Cardinality(Abandoned) \in Nat
      /\ Cardinality(Recorded) \in Nat /\ Cardinality(Arrived) \in Nat
  BY <1>2, FS_CardinalityType
<1> DEFINE Ended == Abandoned \cup Recorded
<1>4. Abandoned \cap Recorded = {} /\ Executing \cap Ended = {}
  BY DEF Executing, Abandoned, Recorded
<1>5. IsFiniteSet(Ended) /\ Cardinality(Ended) = Cardinality(Abandoned) + Cardinality(Recorded)
  BY <1>2, <1>4, DisjointUnion
<1>6. /\ IsFiniteSet(Executing \cup Ended)
      /\ Cardinality(Executing \cup Ended) = Cardinality(Executing) + Cardinality(Ended)
  <2> HIDE DEF Ended
  <2> QED BY <1>2, <1>4, <1>5, DisjointUnion
<1>7. Executing \cup Ended \in SUBSET Arrived
  BY DEF Executing, Abandoned, Recorded, Arrived
<1>8. Cardinality(Executing \cup Ended) <= Cardinality(Arrived)
  BY <1>2, <1>7, FS_Subset
<1> QED BY <1>2, <1>3, <1>5, <1>6, <1>8

(* A step that moves no request into or out of the sets. *)
LEMMA SameSets ==
  ASSUME IInv, active' = active, total' = total,
         Executing' = Executing, Abandoned' = Abandoned, Recorded' = Recorded
  PROVE  MetricsExplained'
BY DEF IInv, MetricsExplained

(* A step that leaves the scrapes alone. *)
LEMMA SameScrapes ==
  ASSUME IInv, scraped' = scraped
  PROVE  NoDoubleCount'
BY DEF IInv, NoDoubleCount

(* Which requests are counted is decided by their kind. *)
LEMMA CountedStays ==
  ASSUME kind' = kind
  PROVE  \A r \in Requests : Counted(r)' <=> Counted(r)
BY DEF Counted

(* The other requests of a step. *)
LEMMA StandsStays ==
  ASSUME IInv, NEW q \in Requests, Aside(q), kind' = kind, gone \subseteq gone',
         server' = "stopped" => server = "stopped"
  PROVE  Stands(q)'
<1>1. Stands(q)
  BY DEF IInv
<1> QED BY <1>1, CountedStays DEF Stands, Aside, Stream

(* The initial states satisfy the invariant. *)
LEMMA InitIInv == Init => IInv
<1> SUFFICES ASSUME Init PROVE IInv
  OBVIOUS
<1>1. TypeOK
  BY ServingAssumption DEF Init, TypeOK, Stages
<1>2. Executing = {} /\ Abandoned = {} /\ Recorded = {}
  BY DEF Init, Executing, Abandoned, Recorded
<1>3. MetricsExplained
  BY <1>2, FS_EmptySet DEF Init, MetricsExplained
<1>4. NoDoubleCount
  BY DEF Init, NoDoubleCount
<1>5. \A r \in Requests : Stands(r)
  BY DEF Init, Stands
<1> QED BY <1>1, <1>3, <1>4, <1>5 DEF IInv

(* A request's head is complete: if it is counted, it executes and the gauge says so. *)
LEMMA ArriveStep ==
  ASSUME IInv, NEW r \in Requests, Arrive(r)
  PROVE  IInv'
<1>0. TypeOK /\ MetricsExplained
  BY DEF IInv
<1>1. /\ at[r] = "connected" /\ UNCHANGED <<server, kind, gone, total, scraped>>
      /\ \A q \in Requests \ {r} : Aside(q)
  BY <1>0 DEF Arrive, TypeOK, Aside
<1>2. TypeOK'
  <2>1. \E s \in Stages : at' = [at EXCEPT ![r] = s]
    BY DEF Arrive, Stages
  <2>2. at' \in [Requests -> Stages]
    BY <1>0, <2>1 DEF TypeOK
  <2>3. answer' = [answer EXCEPT ![r] = "ok"] \/ answer' = answer
    BY DEF Arrive
  <2>4. answer' \in [Requests -> {"none", "ok", "refused", "timeout", "panic"}]
    BY <1>0, <2>3 DEF TypeOK
  <2>5. active' \in Nat
    BY <1>0 DEF Arrive, TypeOK
  <2> QED BY <1>0, <1>1, <2>2, <2>4, <2>5 DEF TypeOK
<1>3. MetricsExplained'
  <2>1. CASE Counted(r)
    <3>1. at' = [at EXCEPT ![r] = "gate"] /\ active' = active + 1
      BY <2>1 DEF Arrive, Counted
    <3>2. /\ Executing' = Executing \cup {r} /\ r \notin Executing
          /\ Abandoned' = Abandoned /\ Recorded' = Recorded
      BY <1>0, <1>1, <2>1, <3>1, CountedStays DEF Executing, Abandoned, Recorded, TypeOK
    <3>3. Cardinality(Executing') = Cardinality(Executing) + 1
      BY <1>0, <3>2, Counts, FS_AddElement
    <3> QED BY <1>0, <1>1, <3>1, <3>2, <3>3, Counts DEF MetricsExplained
  <2>2. CASE ~Counted(r)
    <3>1. active' = active
      BY <2>2 DEF Arrive
    <3>2. Executing' = Executing /\ Abandoned' = Abandoned /\ Recorded' = Recorded
      BY <1>0, <1>1, <2>2, CountedStays DEF Executing, Abandoned, Recorded, Aside
    <3> QED BY <1>1, <3>1, <3>2, SameSets
  <2> QED BY <2>1, <2>2
<1>4. Stands(r)'
  <2>1. Stands(r) /\ server # "stopped"
    BY <1>1 DEF IInv, Stands
  <2>2. at'[r] = "gate" \/ (at'[r] = "sending" /\ answer'[r] = "ok")
    BY <1>0 DEF Arrive, TypeOK
  <2> QED BY <1>1, <2>1, <2>2 DEF Stands
<1>5. \A q \in Requests : Stands(q)'
  BY <1>1, <1>4, StandsStays
<1> QED BY <1>1, <1>2, <1>3, <1>5, SameScrapes DEF IInv

(* A response of any layer inside record_http takes the request off the gauge. *)
LEMMA LeaveFacts ==
  ASSUME IInv, NEW r \in Requests, NEW a \in {"ok", "refused", "timeout", "panic"},
         Leave(r, a), at[r] \in {"gate", "handler"}, UNCHANGED <<server, kind, gone>>
  PROVE  /\ MetricsExplained'
         /\ \A q \in Requests : Stands(q)'
         /\ active' \in Nat /\ total' \in Nat /\ at' \in [Requests -> Stages]
         /\ answer' \in [Requests -> {"none", "ok", "refused", "timeout", "panic"}]
<1>0. TypeOK /\ MetricsExplained /\ Stands(r)
  BY DEF IInv
<1>1. \A q \in Requests \ {r} : Aside(q)
  BY <1>0 DEF Leave, TypeOK, Aside
<1>2. /\ at'[r] = IF Counted(r) THEN "recording" ELSE "sending"
      /\ answer'[r] = a /\ total' = total
      /\ at' \in [Requests -> Stages]
      /\ answer' \in [Requests -> {"none", "ok", "refused", "timeout", "panic"}]
  BY <1>0 DEF Leave, TypeOK, Stages
<1>3. Abandoned' = Abandoned /\ Recorded' = Recorded
      /\ Executing' = IF Counted(r) THEN Executing \ {r} ELSE Executing
  BY <1>1, <1>2, CountedStays DEF Executing, Abandoned, Recorded, Aside
<1>4. Counted(r) => r \in Executing
  BY DEF Executing
<1>5. Cardinality(Executing') = IF Counted(r) THEN Cardinality(Executing) - 1
                                ELSE Cardinality(Executing)
  BY <1>0, <1>3, <1>4, Counts, FS_RemoveElement
<1>6. active' = IF Counted(r) THEN active - 1 ELSE active
  BY DEF Leave
<1>7. MetricsExplained'
  BY <1>0, <1>2, <1>3, <1>5, <1>6, Counts DEF MetricsExplained
<1>8. active' \in Nat
  <2>1. Counted(r) => Cardinality(Executing) > 0
    BY <1>0, <1>4, Counts, FS_EmptySet
  <2> QED BY <1>0, <1>6, <2>1, Counts DEF MetricsExplained
<1>9. Stands(r)'
  BY <1>0, <1>2, CountedStays DEF Stands
<1> QED BY <1>0, <1>1, <1>2, <1>7, <1>8, <1>9, StandsStays DEF TypeOK

(* A request ends in a response of some layer. *)
LEMMA ResponseSteps ==
  ASSUME IInv, NEW r \in Requests, Refuse(r) \/ TimeOut(r) \/ Panic(r)
  PROVE  IInv'
<1>0. TypeOK
  BY DEF IInv
<1>1. /\ at[r] \in {"gate", "handler"} /\ UNCHANGED <<server, kind, gone, scraped>>
      /\ \E a \in {"ok", "refused", "timeout", "panic"} : Leave(r, a)
  BY DEF Refuse, TimeOut, Panic
<1>2. /\ MetricsExplained' /\ \A q \in Requests : Stands(q)'
      /\ active' \in Nat /\ total' \in Nat /\ at' \in [Requests -> Stages]
      /\ answer' \in [Requests -> {"none", "ok", "refused", "timeout", "panic"}]
  BY <1>1, LeaveFacts
<1>3. TypeOK'
  BY <1>0, <1>1, <1>2 DEF TypeOK
<1> QED BY <1>1, <1>2, <1>3, SameScrapes DEF IInv

(* The handler responds; what a scrape is told adds up to less than arrived. *)
LEMMA RespondStep ==
  ASSUME IInv, NEW r \in Requests, Respond(r)
  PROVE  IInv'
<1>0. TypeOK /\ MetricsExplained /\ NoDoubleCount
  BY DEF IInv
<1>1. at[r] = "handler" /\ UNCHANGED <<server, kind, gone>> /\ Leave(r, "ok")
  BY DEF Respond
<1>2. /\ MetricsExplained' /\ \A q \in Requests : Stands(q)'
      /\ active' \in Nat /\ total' \in Nat /\ at' \in [Requests -> Stages]
      /\ answer' \in [Requests -> {"none", "ok", "refused", "timeout", "panic"}]
  BY <1>1, LeaveFacts
<1> DEFINE told == [active |-> active, total |-> total, arrived |-> Cardinality(Arrived)]
<1>3. told \in [active: Nat, total: Nat, arrived: Nat] /\ told.active + told.total <= told.arrived
  BY <1>0, Counts DEF TypeOK, MetricsExplained
<1>4. scraped' = scraped \/ scraped' = [scraped EXCEPT ![r] = told]
  BY DEF Respond
<1> HIDE DEF told
<1>5. scraped' \in [Requests -> [active: Nat, total: Nat, arrived: Nat]] /\ NoDoubleCount'
  BY <1>0, <1>3, <1>4 DEF TypeOK, NoDoubleCount
<1>6. TypeOK'
  BY <1>0, <1>1, <1>2, <1>5 DEF TypeOK
<1> QED BY <1>2, <1>5, <1>6 DEF IInv

(* record() counts the response. *)
LEMMA RecordStep ==
  ASSUME IInv, NEW r \in Requests, Record(r)
  PROVE  IInv'
<1>0. TypeOK /\ MetricsExplained /\ Stands(r)
  BY DEF IInv
<1>1. /\ at[r] = "recording" /\ UNCHANGED <<server, kind, answer, gone, active, scraped>>
      /\ total' = total + 1 /\ at'[r] \in {"streaming", "sending"}
      /\ at'[r] = "streaming" => Stream(r)
      /\ \A q \in Requests \ {r} : Aside(q)
  BY <1>0 DEF Record, TypeOK, Aside
<1>2. TypeOK'
  BY <1>0 DEF Record, TypeOK, Stages
<1>3. Counted(r) /\ server # "stopped"
  BY <1>0, <1>1 DEF Stands
<1>4. /\ Executing' = Executing /\ Abandoned' = Abandoned
      /\ Recorded' = Recorded \cup {r} /\ r \notin Recorded
  BY <1>1, <1>3, CountedStays DEF Executing, Abandoned, Recorded, Aside
<1>5. Cardinality(Recorded') = Cardinality(Recorded) + 1
  BY <1>0, <1>4, Counts, FS_AddElement
<1>6. MetricsExplained'
  BY <1>0, <1>1, <1>4, <1>5, Counts DEF MetricsExplained
<1>7. Stands(r)'
  BY <1>0, <1>1, <1>3 DEF Stands, Stream
<1>8. \A q \in Requests : Stands(q)'
  BY <1>1, <1>7, StandsStays
<1> QED BY <1>1, <1>2, <1>6, <1>8, SameScrapes DEF IInv

(* Steps that move no request into or out of what the metrics count. *)
LEMMA QuietSteps ==
  ASSUME IInv, NEW r \in Requests,
         \/ Connect(r) \/ Pass(r) \/ Vanish(r) \/ HangUp(r) \/ Sent(r) \/ Close(r) \/ Heartbeat(r)
  PROVE  IInv'
<1>0. TypeOK /\ Stands(r)
  BY DEF IInv
<1>1. /\ UNCHANGED <<server, kind, answer, active, total, scraped>> /\ gone \subseteq gone'
      /\ \A q \in Requests \ {r} : Aside(q)
      /\ \/ at' = at
         \/ at[r] = "idle" /\ at'[r] = "connected" /\ server = "serving"
         \/ at[r] = "connected" /\ at'[r] = "closed" /\ r \in gone
         \/ at[r] = "gate" /\ at'[r] = "handler"
         \/ at[r] \in {"sending", "streaming"} /\ at'[r] = "done"
  BY <1>0 DEF Connect, Pass, Vanish, HangUp, Sent, Close, Heartbeat, TypeOK, Aside
<1>2. TypeOK'
  BY <1>0 DEF Connect, Pass, Vanish, HangUp, Sent, Close, Heartbeat, TypeOK, Stages
<1>3. Executing' = Executing /\ Abandoned' = Abandoned /\ Recorded' = Recorded
  BY <1>1, CountedStays DEF Executing, Abandoned, Recorded, Aside
<1>4. Stands(r)'
  BY <1>0, <1>1, CountedStays DEF Stands, Stream
<1>5. \A q \in Requests : Stands(q)'
  BY <1>1, <1>4, StandsStays
<1> QED BY <1>1, <1>2, <1>3, <1>5, SameSets, SameScrapes DEF IInv

(* A dropped request leaves the executing ones and stays on the gauge. *)
LEMMA DropStep ==
  ASSUME IInv, NEW r \in Requests, DropFuture(r)
  PROVE  IInv'
<1>0. TypeOK /\ MetricsExplained /\ Stands(r)
  BY DEF IInv
<1>1. /\ at[r] \in {"gate", "handler"} /\ at'[r] = "dropped" /\ r \in gone
      /\ UNCHANGED <<server, kind, answer, gone, active, total, scraped>>
      /\ \A q \in Requests \ {r} : Aside(q)
  BY <1>0 DEF DropFuture, TypeOK, Aside
<1>2. TypeOK'
  BY <1>0 DEF DropFuture, TypeOK, Stages
<1>3. MetricsExplained'
  <2>1. CASE Counted(r)
    <3>1. /\ Executing' = Executing \ {r} /\ r \in Executing
          /\ Abandoned' = Abandoned \cup {r} /\ r \notin Abandoned
          /\ Recorded' = Recorded
      BY <1>1, <2>1, CountedStays DEF Executing, Abandoned, Recorded, Aside
    <3>2. /\ Cardinality(Executing') = Cardinality(Executing) - 1
          /\ Cardinality(Abandoned') = Cardinality(Abandoned) + 1
      BY <1>0, <3>1, Counts, FS_AddElement, FS_RemoveElement
    <3> QED BY <1>0, <1>1, <3>1, <3>2, Counts DEF MetricsExplained
  <2>2. CASE ~Counted(r)
    <3>1. Executing' = Executing /\ Abandoned' = Abandoned /\ Recorded' = Recorded
      BY <1>1, <2>2, CountedStays DEF Executing, Abandoned, Recorded, Aside
    <3> QED BY <1>1, <3>1, SameSets
  <2> QED BY <2>1, <2>2
<1>4. Stands(r)'
  BY <1>0, <1>1 DEF Stands
<1>5. \A q \in Requests : Stands(q)'
  BY <1>1, <1>4, StandsStays
<1> QED BY <1>1, <1>2, <1>3, <1>5, SameScrapes DEF IInv

(* The signal, and the end of the drain: nothing is executing any more. *)
LEMMA ShutdownSteps ==
  ASSUME IInv, Signal \/ Stop
  PROVE  IInv'
<1>0. TypeOK /\ \A r \in Requests : Stands(r)
  BY DEF IInv
<1>1. UNCHANGED <<kind, answer, gone, active, total, scraped>>
  BY DEF Signal, Stop
<1>2. TypeOK'
  BY <1>0 DEF Signal, Stop, TypeOK, Stages
<1>3. ASSUME NEW r \in Requests
      PROVE  \/ at'[r] = at[r]
             \/ at[r] = "streaming" /\ at'[r] = "cut" /\ kind[r] # "events"
  BY <1>0 DEF Signal, Stop, Holding, TypeOK
<1>4. Executing' = Executing /\ Abandoned' = Abandoned /\ Recorded' = Recorded
  BY <1>1, <1>3, CountedStays DEF Executing, Abandoned, Recorded
<1>5. ASSUME NEW r \in Requests PROVE Stands(r)'
  <2>1. server' = "stopped" => at'[r] \in {"idle", "done", "dropped", "closed", "cut"}
    BY <1>0 DEF Signal, Stop, Holding, TypeOK, Stages
  <2> QED BY <1>0, <1>1, <1>3, <2>1, CountedStays DEF Stands, Stream
<1> QED BY <1>1, <1>2, <1>4, <1>5, SameSets, SameScrapes DEF IInv

(* The invariant is inductive. *)
LEMMA NextIInv == IInv /\ [Next]_vars => IInv'
<1> SUFFICES ASSUME IInv, [Next]_vars PROVE IInv'
  OBVIOUS
<1>1. CASE UNCHANGED vars
  <2>1. TypeOK' /\ Executing' = Executing /\ Abandoned' = Abandoned /\ Recorded' = Recorded
    BY <1>1 DEF vars, IInv, TypeOK, Executing, Abandoned, Recorded, Counted
  <2>2. \A r \in Requests : Stands(r)'
    BY <1>1 DEF vars, IInv, Stands, Counted, Stream
  <2> QED BY <1>1, <2>1, <2>2, SameSets, SameScrapes DEF IInv, vars
<1> QED BY <1>1, ArriveStep, ResponseSteps, RespondStep, RecordStep, QuietSteps, DropStep,
        ShutdownSteps DEF Next

-----------------------------------------------------------------------------
(* The inductive invariant holds in every reachable state. *)
THEOREM Invariance == Spec => []IInv
<1> QED BY InitIInv, NextIInv, PTL DEF Spec

(* Every variable stays in its domain, and the gauge is never negative. *)
THEOREM TypeCorrect == Spec => []TypeOK
<1>1. IInv => TypeOK
  BY DEF IInv
<1> QED BY <1>1, Invariance, PTL

(* The gauge counts what executes and what was dropped; the totals count every response once. *)
THEOREM MetricsAreExplained == Spec => []MetricsExplained
<1>1. IInv => MetricsExplained
  BY DEF IInv
<1> QED BY <1>1, Invariance, PTL

(* No scrape sees a request as executing and as completed. *)
THEOREM ScrapesAddUp == Spec => []NoDoubleCount
<1>1. IInv => NoDoubleCount
  BY DEF IInv
<1> QED BY <1>1, Invariance, PTL

(* A server that has stopped has cut only WebSockets off: all else is answered, and sent. *)
THEOREM DrainAnswers == Spec => []NobodyCutOff
<1>1. IInv => NobodyCutOff
  BY DEF IInv, TypeOK, Stands, NobodyCutOff
<1> QED BY <1>1, Invariance, PTL

-----------------------------------------------------------------------------
(***************************************************************************)
(* Liveness.  Each action that Fairness names has a guard that says when   *)
(* it is enabled, for it always changes something then.  tlapm does not    *)
(* reason about ENABLED: Enabling, which says this, is a hypothesis where  *)
(* a conclusion is drawn from WF.                                          *)
(***************************************************************************)
Executes(r) == at[r] \in {"gate", "handler"}

Recording(r) == at[r] = "recording"

Unread(r) == at[r] = "sending" /\ r \in gone

Reclaimable(r) == at[r] = "streaming" /\ r \in gone

Over(r) == at[r] \in {"done", "cut"}

Drained == server = "draining" /\ Holding = {}

EnablingOf(r) ==
  /\ Executes(r) => ENABLED <<TimeOut(r)>>_vars
  /\ Recording(r) => ENABLED <<Record(r)>>_vars
  /\ Unread(r) => ENABLED <<Close(r)>>_vars
  /\ Reclaimable(r) => ENABLED <<Heartbeat(r)>>_vars

Enabling ==
  /\ \A r \in Requests : EnablingOf(r)
  /\ Drained => ENABLED <<Stop>>_vars

(* The timers of one request, with the guards in place of ENABLED. *)
TimersOf(r) ==
  /\ []<>~Executes(r) \/ []<><<TimeOut(r)>>_vars
  /\ []<>~Recording(r) \/ []<><<Record(r)>>_vars
  /\ []<>~Unread(r) \/ []<><<Close(r)>>_vars
  /\ []<>~Reclaimable(r) \/ []<><<Heartbeat(r)>>_vars

StopsDrained == []<>~Drained \/ []<><<Stop>>_vars

(* Weak fairness, once the guards say when the actions are enabled. *)
LEMMA FairnessIsTimers ==
  FairSpec /\ []Enabling => (\A r \in Requests : TimersOf(r)) /\ StopsDrained
<1>1. ASSUME NEW r \in Requests PROVE []Enabling => []EnablingOf(r)
  <2>1. Enabling => EnablingOf(r)
    BY DEF Enabling
  <2> QED BY <2>1, PTL
<1>2. ASSUME NEW r \in Requests PROVE FairTo(r) /\ []EnablingOf(r) => TimersOf(r)
  BY PTL DEF FairTo, EnablingOf, TimersOf
<1>3. FairSpec /\ []Enabling => StopsDrained
  <2>1. Enabling => (Drained => ENABLED <<Stop>>_vars)
    BY DEF Enabling
  <2> QED BY <2>1, PTL DEF FairSpec, Fairness, StopsDrained
<1>4. FairSpec => \A r \in Requests : FairTo(r)
  BY PTL DEF FairSpec, Fairness
<1> QED BY <1>1, <1>2, <1>3, <1>4

(* A request that executes ends. *)
LEMMA ExecutesEnds ==
  ASSUME NEW r \in Requests
  PROVE  Spec /\ TimersOf(r) => (Executes(r) ~> ~Executes(r))
<1>1. IInv /\ <<TimeOut(r)>>_vars => ~Executes(r)'
  BY DEF TimeOut, Leave, Executes, IInv, TypeOK
<1> QED BY <1>1, Invariance, PTL DEF Spec, TimersOf

(* A response or a stream whose client is gone stays what it is until it is over. *)
LEMMA AbandonedSteps ==
  ASSUME NEW r \in Requests
  PROVE  /\ IInv /\ Unread(r) /\ [Next]_vars => Unread(r)' \/ Over(r)'
         /\ IInv /\ Reclaimable(r) /\ [Next]_vars => Reclaimable(r)' \/ Over(r)'
<1> SUFFICES ASSUME IInv, [Next]_vars
             PROVE  /\ Unread(r) => Unread(r)' \/ Over(r)'
                    /\ Reclaimable(r) => Reclaimable(r)' \/ Over(r)'
  OBVIOUS
<1>1. TypeOK
  BY DEF IInv
<1>2. ASSUME NEW q \in Requests,
             \/ Connect(q) \/ Arrive(q) \/ Pass(q) \/ Refuse(q) \/ Respond(q) \/ TimeOut(q)
             \/ Panic(q) \/ Record(q)
      PROVE  gone' = gone /\ (at[r] \in {"sending", "streaming"} => at'[r] = at[r])
  BY <1>1, <1>2 DEF Connect, Arrive, Pass, Refuse, Respond, TimeOut, Panic, Record, Leave, TypeOK
<1>3. ASSUME NEW q \in Requests,
             Sent(q) \/ Vanish(q) \/ HangUp(q) \/ DropFuture(q) \/ Close(q) \/ Heartbeat(q)
      PROVE  /\ gone \subseteq gone'
             /\ at[r] \in {"sending", "streaming"} => at'[r] = at[r] \/ at'[r] = "done"
  BY <1>1, <1>3 DEF Sent, Vanish, HangUp, DropFuture, Close, Heartbeat, TypeOK
<1>4. ASSUME Signal \/ Stop \/ UNCHANGED vars
      PROVE  /\ gone' = gone /\ (at[r] = "sending" => at'[r] = at[r])
             /\ at[r] = "streaming" => at'[r] = at[r] \/ at'[r] = "cut"
  BY <1>1, <1>4 DEF Signal, Stop, vars, TypeOK
<1>5. /\ gone \subseteq gone'
      /\ at[r] = "sending" => at'[r] \in {"sending", "done"}
      /\ at[r] = "streaming" => at'[r] \in {"streaming", "done", "cut"}
  <2>1. CASE \E q \in Requests :
               \/ Connect(q) \/ Arrive(q) \/ Pass(q) \/ Refuse(q) \/ Respond(q) \/ TimeOut(q)
               \/ Panic(q) \/ Record(q)
    BY <1>2, <2>1
  <2>2. CASE \E q \in Requests :
               Sent(q) \/ Vanish(q) \/ HangUp(q) \/ DropFuture(q) \/ Close(q) \/ Heartbeat(q)
    BY <1>3, <2>2
  <2> QED BY <1>4, <2>1, <2>2 DEF Next
<1> QED BY <1>5 DEF Unread, Reclaimable, Over

(* A response whose client is gone ends. *)
LEMMA UnreadEnds ==
  ASSUME NEW r \in Requests
  PROVE  Spec /\ TimersOf(r) => (Unread(r) ~> Over(r))
<1>1. IInv /\ <<Close(r)>>_vars => Over(r)'
  BY DEF Close, IInv, TypeOK, Over
<1> QED BY <1>1, AbandonedSteps, Invariance, PTL DEF Spec, TimersOf

(* A stream whose client is gone ends. *)
LEMMA ReclaimableEnds ==
  ASSUME NEW r \in Requests
  PROVE  Spec /\ TimersOf(r) => (Reclaimable(r) ~> Over(r))
<1>1. IInv /\ <<Heartbeat(r)>>_vars => Over(r)'
  BY DEF Heartbeat, IInv, TypeOK, Over
<1> QED BY <1>1, AbandonedSteps, Invariance, PTL DEF Spec, TimersOf

(***************************************************************************)
(* REQUEST_TIMEOUT_SECS bounds every stage a request can hang in: whatever *)
(* a gate or a handler waits for, its request ends.                        *)
(***************************************************************************)
THEOREM HangingRequestsEnd == FairSpec /\ []Enabling => RequestsEnd
<1>1. ASSUME NEW r \in Requests
      PROVE  Spec /\ TimersOf(r)
             => (at[r] \in {"gate", "handler"} ~> at[r] \notin {"gate", "handler"})
  <2>1. /\ Executes(r) <=> at[r] \in {"gate", "handler"}
        /\ ~Executes(r) <=> at[r] \notin {"gate", "handler"}
    BY DEF Executes
  <2> QED BY <2>1, ExecutesEnds, PTL
<1> QED BY <1>1, FairnessIsTimers DEF FairSpec, RequestsEnd

(* The next heartbeat ends a stream whose client is gone. *)
THEOREM StreamsEnd == FairSpec /\ []Enabling => StreamsReclaimed
<1>1. ASSUME NEW r \in Requests
      PROVE  Spec /\ TimersOf(r)
             => ((at[r] = "streaming" /\ r \in gone) ~> (at[r] # "streaming"))
  <2>1. /\ Reclaimable(r) <=> at[r] = "streaming" /\ r \in gone
        /\ Over(r) => at[r] # "streaming"
    BY DEF Reclaimable, Over
  <2> QED BY <2>1, ReclaimableEnds, PTL
<1> QED BY <1>1, FairnessIsTimers DEF FairSpec, StreamsReclaimed

-----------------------------------------------------------------------------
(* The end of the drain. *)
Draining == server = "draining"

Held(r) == r \in Holding

(* Once no client holds it, a request of a drain goes only forward. *)
LEMMA DrainSteps ==
  ASSUME NEW r \in Requests
  PROVE  IInv /\ Draining /\ ~ClientHeld(r) /\ [Next]_vars =>
           \/ ~Draining'
           \/ /\ ~Executes(r) => ~Executes(r)'
              /\ ~Executes(r) /\ ~Recording(r) => (~Executes(r) /\ ~Recording(r))'
              /\ ~Held(r) => ~Held(r)'
<1> SUFFICES ASSUME IInv, Draining, ~ClientHeld(r), [Next]_vars, Draining'
             PROVE  /\ ~Executes(r) => ~Executes(r)'
                    /\ ~Executes(r) /\ ~Recording(r) => (~Executes(r) /\ ~Recording(r))'
                    /\ ~Held(r) => ~Held(r)'
  OBVIOUS
<1>1. TypeOK /\ at[r] # "connected"
  BY DEF IInv, ClientHeld
<1> DEFINE Forward == /\ kind' = kind
                      /\ \/ at'[r] = at[r]
                         \/ at[r] \in {"gate", "handler"}
                         \/ at[r] = "recording" /\ at'[r] \in {"sending", "streaming"}
                         \/ at[r] \in {"sending", "streaming"} /\ at'[r] = "done"
<1>2. Forward
  <2>1. ASSUME NEW q \in Requests, Connect(q) PROVE FALSE
    BY <2>1 DEF Connect, Draining
  <2>2. ASSUME NEW q \in Requests,
               \/ Arrive(q) \/ Pass(q) \/ Refuse(q) \/ Respond(q) \/ TimeOut(q) \/ Panic(q)
        PROVE  Forward
    BY <1>1, <2>2 DEF Arrive, Pass, Refuse, Respond, TimeOut, Panic, Leave, TypeOK
  <2>3. ASSUME NEW q \in Requests,
               \/ Record(q) \/ Sent(q) \/ Vanish(q) \/ HangUp(q) \/ DropFuture(q) \/ Close(q)
               \/ Heartbeat(q)
        PROVE  Forward
    BY <1>1, <2>3 DEF Record, Sent, Vanish, HangUp, DropFuture, Close, Heartbeat, TypeOK
  <2>4. ~Signal /\ ~Stop
    BY DEF Signal, Stop, Draining
  <2>5. CASE UNCHANGED vars
    BY <2>5 DEF vars
  <2> HIDE DEF Forward
  <2>6. CASE Next
    <3>1. CASE \E q \in Requests :
                 \/ Arrive(q) \/ Pass(q) \/ Refuse(q) \/ Respond(q) \/ TimeOut(q) \/ Panic(q)
      BY <2>2, <3>1
    <3>2. CASE \E q \in Requests :
                 \/ Record(q) \/ Sent(q) \/ Vanish(q) \/ HangUp(q) \/ DropFuture(q) \/ Close(q)
                 \/ Heartbeat(q)
      BY <2>3, <3>2
    <3> QED BY <2>1, <2>4, <2>6, <3>1, <3>2 DEF Next
  <2> QED BY <2>5, <2>6
<1> QED BY <1>2 DEF Executes, Recording, Held, Holding

(* A drain in which no client holds r comes to a point where r holds the server no more. *)
LEMMA Releases ==
  ASSUME NEW r \in Requests
  PROVE  Spec /\ TimersOf(r) => (<>[](Draining /\ ~ClientHeld(r)) => <>[]~Held(r))
<1>1. IInv /\ <<Record(r)>>_vars => (~Executes(r) /\ ~Recording(r))'
  BY DEF Record, IInv, TypeOK, Executes, Recording
<1>2. Held(r) /\ ~ClientHeld(r) => Executes(r) \/ Recording(r) \/ Unread(r) \/ Reclaimable(r)
  BY DEF Held, Holding, ClientHeld, Executes, Recording, Unread, Reclaimable
<1>3. Over(r) => ~Held(r)
  BY DEF Held, Holding, Over
<1> QED
  BY <1>1, <1>2, <1>3, ExecutesEnds, UnreadEnds, ReclaimableEnds, DrainSteps, Invariance, PTL
  DEF Spec, TimersOf

(***************************************************************************)
(* A drain waits for no request for ever: it is released, whatever it      *)
(* waits for itself, unless its client holds it (ClientHeld).              *)
(***************************************************************************)
THEOREM DrainReleases ==
  FairSpec /\ []Enabling =>
    \A r \in Requests : <>[](Draining /\ ~ClientHeld(r)) => <>[]~Held(r)
BY FairnessIsTimers, Releases DEF FairSpec

(***************************************************************************)
(* The drain completes, or again and again some client holds it.  The      *)
(* hypothesis on Requests says that what comes to be true for good of each *)
(* of finitely many requests comes to be true of them all, which takes an  *)
(* induction over the set.                                                 *)
(***************************************************************************)
THEOREM DrainEnds ==
  /\ FairSpec /\ []Enabling
  /\ (\A r \in Requests : <>[]~Held(r)) => <>[](Holding = {})
  => DrainCompletes
<1> DEFINE Free == ~\E r \in Requests : ClientHeld(r)
<1>1. ASSUME NEW r \in Requests
      PROVE  <>[](Draining /\ Free) => <>[](Draining /\ ~ClientHeld(r))
  <2>1. Free => ~ClientHeld(r)
    OBVIOUS
  <2> HIDE DEF Free
  <2> QED BY <2>1, PTL
<1>2. <>[](Draining /\ Free) => \A r \in Requests : <>[](Draining /\ ~ClientHeld(r))
  BY <1>1
<1>3. FairSpec /\ []Enabling /\ <>[](Draining /\ Free) => \A r \in Requests : <>[]~Held(r)
  BY <1>2, DrainReleases
<1>4. <<Stop>>_vars => ~Draining'
  BY DEF Stop, Draining
<1>5. Draining /\ Holding = {} => Drained
  BY DEF Draining, Drained
<1>6. (server # "draining") <=> ~Draining
  BY DEF Draining
<1> QED BY <1>3, <1>4, <1>5, <1>6, FairnessIsTimers, PTL DEF StopsDrained, DrainCompletes
=============================================================================
