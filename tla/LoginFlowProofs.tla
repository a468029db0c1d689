-------------------------- MODULE LoginFlowProofs --------------------------
(***************************************************************************)
(* Proofs about LoginFlow for any number of tabs, tokens and factors.  The *)
(* inductive invariant adds to the safety invariants where every token in  *)
(* a cookie, a request or a reply comes from, and what a handler that is   *)
(* still under way has already seen of the account's factors.              *)
(***************************************************************************)
EXTENDS LoginFlow, TLAPS

(* What a handler needs for its next call. *)
Working ==
  \A t \in Tabs :
    /\ step[t] \in {"assuring", "admitted", "removing"} =>
         request[t] # None /\ request[t].credential \in Tokens
    /\ step[t] \in {"granted", "challenging", "finalizing"} => token[t] \in Tokens

(* The browser only has tokens that some response gave it, each as what it is used for. *)
Provenance ==
  /\ cookies.session \in issued \cup {None}
  /\ cookies.mfa_pending \in pended \cup {None}
  /\ \A t \in Tabs :
       /\ request[t] # None => request[t].credential \in issued \cup pended \cup {None}
       /\ reply[t].session \in issued \cup {None, Keep}
       /\ reply[t].mfa_pending \in pended \cup {None, Keep}

(* A token is with one handler or handed out for one use, once it is minted. *)
Held ==
  /\ \A a \in pended \cup issued : minted[a] # "unminted"
  /\ \A t \in Tabs : token[t] \in Tokens =>
       minted[token[t]] # "unminted" /\ token[t] \notin pended \cup issued
  /\ \A t, u \in Tabs : token[t] \in Tokens /\ token[t] = token[u] => t = u
  /\ \A a \in Tokens : ~(a \in pended /\ a \in issued)

(* What a request under way has seen of the account. *)
Sight ==
  \A t \in Tabs :
    /\ step[t] # "idle" => Policy \in seen[t]
    /\ step[t] = "challenging" => "two_factors" \in seen[t]
    /\ step[t] = "finalizing" /\ minted[token[t]] = "aal1" => "one_factor" \in seen[t]

IInv ==
  /\ TypeOK
  /\ Working
  /\ Provenance
  /\ Held
  /\ Sight
  /\ SingleFactorOnlyWithoutMfa
  /\ NoNeedlessStepUp

-----------------------------------------------------------------------------
(* The policy is one of the two that a request can see, and says whether a factor is verified. *)
LEMMA PolicyFacts ==
  /\ Policy \in {"one_factor", "two_factors"}
  /\ RequiredFactors # {} <=> Policy = "two_factors"
BY DEF Policy, RequiredFactors

(* A change of a factor is seen by every request under way, and hides nothing seen before. *)
LEMMA SetFactorFacts ==
  ASSUME TypeOK, NEW f \in Factors, NEW state \in FactorStates, SetFactor(f, state)
  PROVE  /\ factor' \in [Factors -> FactorStates]
         /\ seen' \in [Tabs -> SUBSET {"one_factor", "two_factors"}]
         /\ \A t \in Tabs : seen[t] \subseteq seen'[t]
         /\ \A t \in Tabs : step[t] # "idle" => Policy' \in seen'[t]
<1>1. Policy' \in {"one_factor", "two_factors"}
  BY DEF Policy
<1>2. factor' \in [Factors -> FactorStates]
  BY DEF TypeOK, SetFactor
<1> QED
  BY <1>1, <1>2 DEF TypeOK, SetFactor

(* Nothing has happened initially. *)
LEMMA InitIInv == Init => IInv
<1> SUFFICES ASSUME Init PROVE IInv
  OBVIOUS
<1>1. TypeOK
  BY ValueAssumption DEF Init, TypeOK, NoPage, Page, NoReply, Reply, MaybeToken, MaybeTab,
     Pages, Replies, Steps, TokenStates, FactorStates
<1>2. Working /\ Provenance /\ Held
  BY ValueAssumption DEF Init, Working, Provenance, Held, NoReply, Reply
<1>3. Sight /\ SingleFactorOnlyWithoutMfa /\ NoNeedlessStepUp
  BY DEF Init, Sight, SingleFactorOnlyWithoutMfa, SingleFactor, NoNeedlessStepUp
<1> QED
  BY <1>1, <1>2, <1>3 DEF IInv

(* A request that ends without a trace keeps the invariant. *)
LEMMA ForgetStep ==
  ASSUME IInv, NEW t \in Tabs, Forget(t)
  PROVE  IInv'
<1> USE DEF IInv, Forget, Finish, supabase
<1>1. TypeOK'
  BY DEF TypeOK, NoReply, Reply, MaybeToken, MaybeTab, Replies, Steps
<1>2. Working'
  BY DEF TypeOK, Working
<1>3. Provenance'
  BY ValueAssumption DEF TypeOK, Provenance, NoReply, Reply
<1>4. Held'
  BY ValueAssumption DEF TypeOK, Held
<1>5. Policy' = Policy
  BY DEF Policy
<1>6. Sight' /\ SingleFactorOnlyWithoutMfa' /\ NoNeedlessStepUp'
  BY <1>5 DEF TypeOK, Sight, SingleFactorOnlyWithoutMfa, SingleFactor, NoNeedlessStepUp
<1> QED
  BY <1>1, <1>2, <1>3, <1>4, <1>6

(* A handler that goes on to its next call, with the token it has, keeps the invariant. *)
LEMMA ProceedStep ==
  ASSUME IInv, NEW t \in Tabs, step[t] # "idle",
         NEW next \in {"challenging", "finalizing", "assuring", "admitted", "removing"},
         NEW a \in {None, token[t]},
         Proceed(t, next, a),
         UNCHANGED <<browser, supabase, seen>>,
         next \in {"assuring", "admitted", "removing"} =>
           request[t] # None /\ request[t].credential \in Tokens,
         next \in {"challenging", "finalizing"} => a \in Tokens,
         next = "challenging" => "two_factors" \in seen[t],
         next = "finalizing" /\ minted[a] = "aal1" => "one_factor" \in seen[t],
         next = "admitted" /\ minted[request[t].credential] = "aal1" => "one_factor" \in seen[t]
  PROVE  IInv'
<1> USE DEF IInv, Proceed, browser, supabase
<1>1. TypeOK'
  BY DEF TypeOK, MaybeToken, Steps
<1>2. Working'
  BY DEF TypeOK, Working
<1>3. Provenance'
  BY DEF TypeOK, Provenance
<1>4. Held'
  BY ValueAssumption DEF TypeOK, Held
<1>5. Policy' = Policy
  BY DEF Policy
<1>6. Sight' /\ SingleFactorOnlyWithoutMfa' /\ NoNeedlessStepUp'
  BY <1>5 DEF TypeOK, Sight, SingleFactorOnlyWithoutMfa, SingleFactor, NoNeedlessStepUp
<1> QED
  BY <1>1, <1>2, <1>3, <1>4, <1>6

(* A handler that gets a new token keeps the invariant: nobody else has the token. *)
LEMMA MintStep ==
  ASSUME IInv, NEW t \in Tabs, step[t] # "idle",
         NEW next \in {"granted", "finalizing"},
         NEW a \in Tokens, NEW aal \in {"aal1", "aal2"},
         next = "finalizing" => aal = "aal2",
         Mint(a, aal),
         Proceed(t, next, a),
         UNCHANGED <<browser, factor, seen>>
  PROVE  IInv'
<1> USE DEF IInv, Proceed, Mint, browser
<1>1. TypeOK'
  BY DEF TypeOK, MaybeToken, Steps, TokenStates
<1>2. Working'
  BY DEF TypeOK, Working
<1>3. Provenance'
  BY DEF TypeOK, Provenance
<1>4. Held'
  BY ValueAssumption DEF TypeOK, Held
<1>5. Policy' = Policy
  BY DEF Policy
<1>6. \A b \in Tokens : minted[b] # "unminted" => minted'[b] = minted[b]
  BY DEF TypeOK
<1>7. Sight'
  <2>1. \A u \in Tabs : u # t /\ step[u] = "finalizing" =>
          token[u] \in Tokens /\ token'[u] = token[u] /\ minted'[token[u]] = minted[token[u]]
    BY <1>6 DEF TypeOK, Working, Held
  <2>2. minted'[token'[t]] = aal /\ step'[t] = next
    BY DEF TypeOK
  <2> QED
    BY <1>5, <2>1, <2>2 DEF TypeOK, Sight
<1>8. SingleFactorOnlyWithoutMfa'
  <2>1. \A u \in Tabs : step'[u] = "admitted" =>
          step[u] = "admitted" /\ minted'[request[u].credential] = minted[request[u].credential]
    <3> SUFFICES ASSUME NEW u \in Tabs, step'[u] = "admitted"
                 PROVE  /\ step[u] = "admitted"
                        /\ minted'[request[u].credential] = minted[request[u].credential]
      OBVIOUS
    <3>1. step[u] = "admitted"
      BY DEF TypeOK
    <3>2. request[u].credential \in issued \cup pended
      BY <3>1, ValueAssumption DEF TypeOK, Working, Provenance
    <3> QED
      BY <1>6, <3>1, <3>2 DEF TypeOK, Held
  <2>2. \A u \in Tabs : step'[u] = "responding" /\ reply'[u].session \in Tokens =>
          step[u] = "responding" /\ minted'[reply[u].session] = minted[reply[u].session]
    BY <1>6, ValueAssumption DEF TypeOK, Provenance, Held
  <2> QED
    BY <2>1, <2>2 DEF SingleFactorOnlyWithoutMfa, SingleFactor
<1>9. NoNeedlessStepUp'
  BY DEF TypeOK, NoNeedlessStepUp
<1> QED
  BY <1>1, <1>2, <1>3, <1>4, <1>7, <1>8, <1>9

(***************************************************************************)
(* A response keeps the invariant if a token that it hands out is in no    *)
(* other use, and its request saw what entitles the browser to it.  Other  *)
(* conjuncts say what a response may do at Supabase: mint the token, and   *)
(* change a factor in view of every request under way.                     *)
(***************************************************************************)
LEMMA RespondStep ==
  ASSUME IInv, NEW t \in Tabs, step[t] # "idle",
         NEW r \in Replies,
         Respond(t, r),
         UNCHANGED browser,
         minted' \in [Tokens -> TokenStates],
         \A a \in Tokens : minted[a] # "unminted" => minted'[a] = minted[a],
         factor' \in [Factors -> FactorStates],
         seen' \in [Tabs -> SUBSET {"one_factor", "two_factors"}],
         \A u \in Tabs : seen[u] \subseteq seen'[u],
         \A u \in Tabs : step[u] # "idle" => Policy' \in seen'[u],
         r.session \in Tokens =>
           /\ minted'[r.session] # "unminted"
           /\ r.session \notin pended
           /\ \A u \in Tabs : token[u] = r.session => u = t
           /\ minted'[r.session] = "aal1" => "one_factor" \in seen[t]
           /\ r.mfa_pending \notin Tokens,
         r.mfa_pending \in Tokens =>
           /\ minted'[r.mfa_pending] # "unminted"
           /\ r.mfa_pending \notin issued
           /\ \A u \in Tabs : token[u] = r.mfa_pending => u = t
           /\ "two_factors" \in seen[t]
  PROVE  IInv'
<1> USE DEF IInv, Respond, browser
<1>1. TypeOK'
  BY DEF TypeOK, MaybeToken, Steps
<1>2. Working'
  BY DEF TypeOK, Working
<1>3. Provenance'
  <2>1. issued \subseteq issued' /\ pended \subseteq pended'
    OBVIOUS
  <2>2. r.session \in issued' \cup {None, Keep} /\ r.mfa_pending \in pended' \cup {None, Keep}
    BY DEF Replies, MaybeToken
  <2> QED
    BY <2>1, <2>2 DEF TypeOK, Provenance
<1>4. Held'
  BY ValueAssumption DEF TypeOK, Held
<1>5. \A u \in Tabs : u # t /\ step'[u] = "finalizing" =>
        /\ step[u] = "finalizing"
        /\ token'[u] = token[u]
        /\ minted'[token[u]] = minted[token[u]]
  BY DEF TypeOK, Working, Held
<1>6. \A u \in Tabs : u # t /\ step'[u] = "admitted" =>
        step[u] = "admitted" /\ minted'[request[u].credential] = minted[request[u].credential]
  BY ValueAssumption DEF TypeOK, Working, Provenance, Held
<1>7. \A u \in Tabs : u # t /\ step'[u] = "responding" /\ reply'[u].session \in Tokens =>
        /\ step[u] = "responding"
        /\ reply'[u] = reply[u]
        /\ minted'[reply[u].session] = minted[reply[u].session]
  BY ValueAssumption DEF TypeOK, Provenance, Held
<1>8. step'[t] = "responding" /\ reply'[t] = r
  BY DEF TypeOK
<1>9. Sight'
  BY <1>5, <1>8 DEF TypeOK, Sight
<1>10. SingleFactorOnlyWithoutMfa'
  BY <1>6, <1>7, <1>8 DEF TypeOK, SingleFactorOnlyWithoutMfa, SingleFactor
<1>11. NoNeedlessStepUp'
  BY <1>8 DEF TypeOK, NoNeedlessStepUp
<1> QED
  BY <1>1, <1>2, <1>3, <1>4, <1>9, <1>10, <1>11

(* A response that hands out no token and reads nothing new keeps the invariant. *)
LEMMA PlainResponse ==
  ASSUME IInv, NEW t \in Tabs, step[t] # "idle",
         NEW r \in Replies,
         Respond(t, r),
         UNCHANGED <<browser, supabase, seen>>,
         r.session \notin Tokens, r.mfa_pending \notin Tokens
  PROVE  IInv'
<1>1. Policy' = Policy
  BY DEF Policy, supabase
<1> QED
  BY <1>1, RespondStep DEF IInv, TypeOK, Sight, supabase

(* The same, for a response that comes with a change of a factor. *)
LEMMA FactorResponse ==
  ASSUME IInv, NEW t \in Tabs, step[t] # "idle",
         NEW r \in Replies,
         Respond(t, r),
         UNCHANGED <<browser, minted>>,
         NEW f \in Factors, NEW state \in FactorStates, SetFactor(f, state),
         r.session \notin Tokens, r.mfa_pending \notin Tokens
  PROVE  IInv'
<1>1. TypeOK /\ minted' \in [Tokens -> TokenStates]
  BY DEF IInv, TypeOK
<1>2. /\ factor' \in [Factors -> FactorStates]
      /\ seen' \in [Tabs -> SUBSET {"one_factor", "two_factors"}]
      /\ \A u \in Tabs : seen[u] \subseteq seen'[u]
      /\ \A u \in Tabs : step[u] # "idle" => Policy' \in seen'[u]
  BY <1>1, SetFactorFacts
<1> QED
  BY <1>1, <1>2, RespondStep

(* The two markers are not tokens. *)
LEMMA NoTokens == None \notin Tokens /\ Keep \notin Tokens
BY ValueAssumption

(* The replies that the handlers give are well formed. *)
LEMMA ReplyType ==
  ASSUME NEW session \in MaybeToken \cup {Keep}, NEW login_csrf \in MaybeTab \cup {Keep},
         NEW mfa_pending \in MaybeToken \cup {Keep}, NEW shows \in Pages \cup {Keep}
  PROVE  /\ Reply(session, login_csrf, mfa_pending, shows) \in Replies
         /\ Reply(session, login_csrf, mfa_pending, shows).session = session
         /\ Reply(session, login_csrf, mfa_pending, shows).mfa_pending = mfa_pending
BY DEF Reply, Replies

(* So is a reply that changes neither the session nor the pending token. *)
LEMMA PlainReplyType ==
  ASSUME NEW login_csrf \in MaybeTab \cup {Keep}, NEW shows \in Pages \cup {Keep}
  PROVE  LET r == Reply(Keep, login_csrf, Keep, shows)
         IN  r \in Replies /\ r.session \notin Tokens /\ r.mfa_pending \notin Tokens
<1>1. Keep \in MaybeToken \cup {Keep} /\ Keep \notin Tokens
  BY ValueAssumption
<1> QED
  BY <1>1 DEF Reply, Replies

(* The pages that the handlers show are well formed. *)
LEMMA PageType ==
  /\ NoPage \in Pages
  /\ Page("login", None) \in Pages
  /\ Page("step_up", None) \in Pages
  /\ \A a \in Tokens : Page("app", a) \in Pages
BY DEF NoPage, Page, Pages

(* Every step of a handler keeps the invariant. *)
LEMMA HandleStep ==
  ASSUME IInv, NEW t \in Tabs, Handle(t)
  PROVE  IInv'
<1> USE ValueAssumption
<1>1. CASE Refuse(t) \/ Fail(t)
  BY <1>1, ForgetStep DEF Refuse, Fail
<1>2. CASE ShowLogin(t)
  <2> DEFINE r == Reply(Keep, t, Keep, Page("login", None))
  <2>1. r \in Replies /\ r.session \notin Tokens /\ r.mfa_pending \notin Tokens
    BY PlainReplyType, PageType DEF MaybeTab
  <2>2. step[t] # "idle" /\ Respond(t, r) /\ UNCHANGED <<browser, supabase, seen>>
    BY <1>2 DEF ShowLogin, At, LoginFlowPage
  <2> QED
    BY <2>1, <2>2, PlainResponse
<1>3. CASE Grant(t)
  <2>1. step[t] # "idle" /\ UNCHANGED <<browser, factor, seen>>
    BY <1>3 DEF Grant, At
  <2>2. PICK a \in Tokens : Mint(a, "aal1") /\ Proceed(t, "granted", a)
    BY <1>3 DEF Grant
  <2> QED
    BY <2>1, <2>2, MintStep
<1>4. CASE Lookup(t)
  <2>1. step[t] = "granted" /\ token[t] \in Tokens /\ Policy \in seen[t]
    BY <1>4 DEF Lookup, IInv, Working, Sight
  <2>2. UNCHANGED <<browser, supabase, seen>>
    BY <1>4 DEF Lookup
  <2>3. CASE RequiredFactors # {}
    <3>1. Proceed(t, "challenging", token[t])
      BY <1>4, <2>3 DEF Lookup
    <3> QED
      BY <2>1, <2>2, <2>3, <3>1, ProceedStep, PolicyFacts
  <2>4. CASE RequiredFactors = {}
    <3>1. Proceed(t, "finalizing", token[t])
      BY <1>4, <2>4 DEF Lookup
    <3> QED
      BY <2>1, <2>2, <2>4, <3>1, ProceedStep, PolicyFacts
  <2> QED
    BY <2>3, <2>4
<1>5. CASE Challenge(t)
  <2> DEFINE r == Reply(Keep, t, token[t], Page("step_up", None))
  <2>1. /\ step[t] = "challenging" /\ token[t] \in Tokens
        /\ Respond(t, r) /\ UNCHANGED <<browser, supabase, seen>>
    BY <1>5 DEF Challenge, LoginFlowPage, IInv, Working
  <2>2. r \in Replies /\ r.session \notin Tokens /\ r.mfa_pending = token[t]
    BY <2>1, NoTokens, ReplyType, PageType DEF MaybeTab, MaybeToken
  <2>3. "two_factors" \in seen[t]
    BY <2>1 DEF IInv, Sight
  <2>4. Policy' = Policy
    BY <2>1 DEF Policy, supabase
  <2> HIDE DEF r
  <2> QED
    BY <2>1, <2>2, <2>3, <2>4, RespondStep DEF IInv, TypeOK, Sight, Held, supabase
<1>6. CASE ShowStepUp(t)
  <2> DEFINE r == Reply(Keep, t, Keep, Page("step_up", None))
  <2>1. r \in Replies /\ r.session \notin Tokens /\ r.mfa_pending \notin Tokens
    BY PlainReplyType, PageType DEF MaybeTab
  <2>2. step[t] # "idle" /\ Respond(t, r) /\ UNCHANGED <<browser, supabase, seen>>
    BY <1>6 DEF ShowStepUp, At, LoginFlowPage
  <2> QED
    BY <2>1, <2>2, PlainResponse
<1>7. CASE StepUp(t)
  <2>1. step[t] # "idle" /\ UNCHANGED <<browser, factor, seen>>
    BY <1>7 DEF StepUp, At
  <2>2. PICK a \in Tokens : Mint(a, "aal2") /\ Proceed(t, "finalizing", a)
    BY <1>7 DEF StepUp
  <2> QED
    BY <2>1, <2>2, MintStep
<1>8. CASE Finalize(t)
  <2> DEFINE r == Reply(token[t], None, None, NoPage)
  <2>1. /\ step[t] = "finalizing" /\ token[t] \in Tokens
        /\ Respond(t, r) /\ UNCHANGED <<browser, supabase, seen>>
    BY <1>8 DEF Finalize, IInv, Working
  <2>2. r \in Replies /\ r.session = token[t] /\ r.mfa_pending \notin Tokens
    BY <2>1, NoTokens, ReplyType, PageType DEF MaybeTab, MaybeToken
  <2>3. minted[token[t]] = "aal1" => "one_factor" \in seen[t]
    BY <2>1 DEF IInv, Sight
  <2>4. Policy' = Policy
    BY <2>1 DEF Policy, supabase
  <2> HIDE DEF r
  <2> QED
    BY <2>1, <2>2, <2>3, <2>4, RespondStep DEF IInv, TypeOK, Sight, Held, supabase
<1>9. CASE Gate(t)
  <2>1. step[t] # "idle" /\ request[t] # None
    BY <1>9 DEF Gate, At
  <2>2. CASE Live(request[t].credential)
    <3>1. request[t].credential \in Tokens
      BY <2>1, <2>2 DEF Live, IInv, TypeOK, Requests, MaybeToken
    <3>2. UNCHANGED <<browser, supabase, seen>>
      BY <1>9, <2>2 DEF Gate
    <3>3. \/ minted[request[t].credential] = "aal2" /\ Proceed(t, "admitted", None)
          \/ Proceed(t, "assuring", None)
      BY <1>9, <2>2 DEF Gate
    <3> QED
      BY <2>1, <3>1, <3>2, <3>3, ProceedStep
  <2>3. CASE ~Live(request[t].credential)
    BY <1>9, <2>3, ForgetStep DEF Gate
  <2> QED
    BY <2>2, <2>3
<1>10. CASE GateLookup(t)
  <2>1. /\ step[t] = "assuring" /\ request[t] # None /\ request[t].credential \in Tokens
        /\ Policy \in seen[t]
    BY <1>10 DEF GateLookup, IInv, Working, Sight
  <2>2. CASE RequiredFactors = {}
    <3>1. Proceed(t, "admitted", None) /\ UNCHANGED <<browser, supabase, seen>>
      BY <1>10, <2>2 DEF GateLookup
    <3> QED
      BY <2>1, <2>2, <3>1, ProceedStep, PolicyFacts
  <2>3. CASE RequiredFactors # {}
    BY <1>10, <2>3, ForgetStep DEF GateLookup
  <2> QED
    BY <2>2, <2>3
<1>11. ASSUME NEW op \in Gated, Handling(t, op)
       PROVE  step[t] = "admitted" /\ request[t] # None /\ request[t].credential \in Tokens
  BY <1>11 DEF Handling, At, IInv, Working
<1>12. CASE View(t)
  <2> DEFINE r == Reply(Keep, Keep, Keep, Page("app", request[t].credential))
  <2>1. step[t] # "idle" /\ request[t].credential \in Tokens
    BY <1>11, <1>12 DEF View, Gated
  <2>2. r \in Replies /\ r.session \notin Tokens /\ r.mfa_pending \notin Tokens
    BY <2>1, PlainReplyType, PageType
  <2>3. Respond(t, r) /\ UNCHANGED <<browser, supabase, seen>>
    BY <1>12 DEF View
  <2> QED
    BY <2>1, <2>2, <2>3, PlainResponse
<1>13. CASE Enroll(t)
  <2> DEFINE r == Reply(Keep, Keep, Keep, Page("app", request[t].credential))
  <2>1. step[t] # "idle" /\ request[t].credential \in Tokens
    BY <1>11, <1>13 DEF Enroll, Gated, MfaPosts
  <2>2. r \in Replies /\ r.session \notin Tokens /\ r.mfa_pending \notin Tokens
    BY <2>1, PlainReplyType, PageType
  <2>3. Respond(t, r) /\ UNCHANGED <<browser, minted>>
    BY <1>13 DEF Enroll
  <2>4. PICK f \in Factors : SetFactor(f, "unverified")
    BY <1>13 DEF Enroll
  <2> QED
    BY <2>1, <2>2, <2>3, <2>4, FactorResponse DEF FactorStates
<1>14. CASE Activate(t)
  <2>1. step[t] # "idle"
    BY <1>11, <1>14 DEF Activate, Gated, MfaPosts
  <2>2. PICK f \in Factors : SetFactor(f, "verified")
    BY <1>14 DEF Activate
  <2>3. PICK a \in Tokens : Mint(a, "aal2") /\ Respond(t, Reply(a, Keep, Keep, NoPage))
    BY <1>14 DEF Activate
  <2> DEFINE r == Reply(a, Keep, Keep, NoPage)
  <2>4. r \in Replies /\ r.session = a /\ r.mfa_pending \notin Tokens
    BY NoTokens, ReplyType, PageType DEF MaybeToken
  <2>5. /\ factor' \in [Factors -> FactorStates]
        /\ seen' \in [Tabs -> SUBSET {"one_factor", "two_factors"}]
        /\ \A u \in Tabs : seen[u] \subseteq seen'[u]
        /\ \A u \in Tabs : step[u] # "idle" => Policy' \in seen'[u]
    BY <2>2, SetFactorFacts DEF IInv, FactorStates
  <2>6. /\ minted' \in [Tokens -> TokenStates]
        /\ \A b \in Tokens : minted[b] # "unminted" => minted'[b] = minted[b]
        /\ minted[a] = "unminted" /\ minted'[a] = "aal2"
    BY <2>3 DEF IInv, TypeOK, Mint, TokenStates
  <2>7. a \notin pended /\ \A u \in Tabs : token[u] # a
    BY <2>6 DEF IInv, Held
  <2>8. UNCHANGED browser
    BY <1>14 DEF Activate
  <2>9. Respond(t, r)
    BY <2>3
  <2> HIDE DEF r
  <2> QED
    BY <2>1, <2>4, <2>5, <2>6, <2>7, <2>8, <2>9, RespondStep
<1>15. CASE ReChallenge(t)
  <2>1. step[t] # "idle" /\ request[t] # None /\ request[t].credential \in Tokens
    BY <1>11, <1>15 DEF ReChallenge, Gated, MfaPosts
  <2>2. Proceed(t, "removing", None) /\ UNCHANGED <<browser, supabase, seen>>
    BY <1>15 DEF ReChallenge
  <2> QED
    BY <2>1, <2>2, ProceedStep
<1>16. CASE Unenroll(t)
  <2> DEFINE r == Reply(Keep, Keep, Keep, NoPage)
  <2>1. step[t] # "idle" /\ Respond(t, r) /\ UNCHANGED <<browser, minted>>
    BY <1>16 DEF Unenroll
  <2>2. r \in Replies /\ r.session \notin Tokens /\ r.mfa_pending \notin Tokens
    BY PlainReplyType, PageType
  <2>3. PICK f \in Factors : SetFactor(f, "removed")
    BY <1>16 DEF Unenroll, RequiredFactors
  <2> QED
    BY <2>1, <2>2, <2>3, FactorResponse DEF FactorStates
<1>17. CASE Logout(t)
  <2> DEFINE r == Reply(None, None, None, NoPage)
  <2>1. r \in Replies /\ r.session \notin Tokens /\ r.mfa_pending \notin Tokens
    BY NoTokens, ReplyType, PageType DEF MaybeTab, MaybeToken
  <2>2. step[t] # "idle" /\ Respond(t, r) /\ UNCHANGED <<browser, supabase, seen>>
    BY <1>17 DEF Logout, At
  <2> QED
    BY <2>1, <2>2, PlainResponse
<1> QED
  BY <1>1, <1>2, <1>3, <1>4, <1>5, <1>6, <1>7, <1>8, <1>9, <1>10, <1>12, <1>13, <1>14,
     <1>15, <1>16, <1>17 DEF Handle

(* A tab that sends a request keeps the invariant: it has seen the policy of that moment. *)
LEMMA SendStep ==
  ASSUME IInv, NEW t \in Tabs, NEW op \in Operations, Send(t, op)
  PROVE  IInv'
<1> USE DEF IInv, Send, supabase
<1>1. Credential(op) \in issued \cup pended \cup {None}
  BY DEF Provenance, Credential
<1>2. Trusted(t, op) \in BOOLEAN
  BY DEF Trusted
<1>3. TypeOK'
  <2>1. request' \in [Tabs -> Requests \cup {None}]
    BY <1>1, <1>2 DEF TypeOK, Requests, MaybeToken
  <2>2. page' \in [Tabs -> Pages]
    BY PageType DEF TypeOK
  <2>3. seen' \in [Tabs -> SUBSET {"one_factor", "two_factors"}]
    BY PolicyFacts DEF TypeOK
  <2> QED
    BY <2>1, <2>2, <2>3 DEF TypeOK, Steps
<1>4. Working'
  BY DEF TypeOK, Working
<1>5. Provenance'
  BY <1>1 DEF TypeOK, Provenance
<1>6. Held'
  BY DEF Held
<1>7. Policy' = Policy
  BY DEF Policy
<1>8. Sight' /\ SingleFactorOnlyWithoutMfa' /\ NoNeedlessStepUp'
  BY <1>7 DEF TypeOK, Sight, SingleFactorOnlyWithoutMfa, SingleFactor, NoNeedlessStepUp
<1> QED
  BY <1>3, <1>4, <1>5, <1>6, <1>8

(* A response that arrives keeps the invariant: it brings cookies that were handed out. *)
LEMMA DeliverStep ==
  ASSUME IInv, NEW t \in Tabs, Deliver(t)
  PROVE  IInv'
<1> USE DEF IInv, Deliver, Finish, supabase
<1>1. TypeOK'
  <2>1. reply[t] \in Replies
    BY DEF TypeOK
  <2>2. cookies' \in [session: MaybeToken, login_csrf: MaybeTab, mfa_pending: MaybeToken]
    BY <2>1 DEF TypeOK, Replies, SetCookie
  <2>3. page' \in [Tabs -> Pages]
    BY <2>1 DEF TypeOK, Replies, SetCookie
  <2> QED
    BY <2>2, <2>3 DEF TypeOK, NoReply, Reply, MaybeToken, MaybeTab, Replies, Steps
<1>2. Working'
  BY DEF TypeOK, Working
<1>3. Provenance'
  BY ValueAssumption DEF TypeOK, Provenance, NoReply, Reply, SetCookie
<1>4. Held'
  BY ValueAssumption DEF TypeOK, Held
<1>5. Policy' = Policy
  BY DEF Policy
<1>6. Sight' /\ SingleFactorOnlyWithoutMfa' /\ NoNeedlessStepUp'
  BY <1>5 DEF TypeOK, Sight, SingleFactorOnlyWithoutMfa, SingleFactor, NoNeedlessStepUp
<1> QED
  BY <1>1, <1>2, <1>3, <1>4, <1>6

(* Time and the customer's other devices keep the invariant. *)
LEMMA CookieExpiresStep ==
  ASSUME IInv, NEW c \in {"session", "login_csrf", "mfa_pending"}, CookieExpires(c)
  PROVE  IInv'
<1> USE DEF IInv, CookieExpires, supabase, history
<1>1. TypeOK'
  BY DEF TypeOK, MaybeToken, MaybeTab
<1>2. Provenance'
  BY DEF TypeOK, Provenance
<1>3. Policy' = Policy
  BY DEF Policy
<1> QED
  BY <1>1, <1>2, <1>3
     DEF Working, Held, Sight, SingleFactorOnlyWithoutMfa, SingleFactor, NoNeedlessStepUp

(* An expiring token only loses its assurance level. *)
LEMMA TokenExpiresStep ==
  ASSUME IInv, NEW a \in Tokens, TokenExpires(a)
  PROVE  IInv'
<1> USE DEF IInv, TokenExpires, browser, history
<1>1. TypeOK'
  BY DEF TypeOK, TokenStates
<1>2. Working' /\ Provenance' /\ NoNeedlessStepUp'
  BY DEF Working, Provenance, NoNeedlessStepUp
<1>3. Held'
  BY DEF TypeOK, Held
<1>4. \A b \in Tokens : minted'[b] = "aal1" => minted[b] = "aal1"
  BY DEF TypeOK
<1>5. Policy' = Policy
  BY DEF Policy
<1>6. Sight'
  BY <1>4, <1>5 DEF Sight, Working
<1>7. SingleFactorOnlyWithoutMfa'
  BY <1>4 DEF SingleFactorOnlyWithoutMfa, SingleFactor, Working
<1> QED
  BY <1>1, <1>2, <1>3, <1>6, <1>7

(* A factor that another device changes is seen by every request under way. *)
LEMMA OtherDeviceStep ==
  ASSUME IInv, NEW f \in Factors, OtherDevice(f)
  PROVE  IInv'
<1> USE DEF IInv, OtherDevice, browser
<1>1. PICK state \in FactorStates : SetFactor(f, state)
  BY DEF FactorStates
<1>2. /\ factor' \in [Factors -> FactorStates]
      /\ seen' \in [Tabs -> SUBSET {"one_factor", "two_factors"}]
      /\ \A u \in Tabs : seen[u] \subseteq seen'[u]
      /\ \A u \in Tabs : step[u] # "idle" => Policy' \in seen'[u]
  BY <1>1, SetFactorFacts
<1>3. TypeOK'
  BY <1>2 DEF TypeOK
<1>4. Working' /\ Provenance' /\ Held'
  BY DEF Working, Provenance, Held
<1>5. Sight' /\ SingleFactorOnlyWithoutMfa' /\ NoNeedlessStepUp'
  BY <1>2 DEF Sight, SingleFactorOnlyWithoutMfa, SingleFactor, NoNeedlessStepUp
<1> QED
  BY <1>3, <1>4, <1>5

-----------------------------------------------------------------------------
(* The invariant holds of every reachable state. *)
THEOREM Invariance == Spec => []IInv
<1>1. IInv /\ [Next]_vars => IInv'
  <2> SUFFICES ASSUME IInv, [Next]_vars PROVE IInv'
    OBVIOUS
  <2>1. CASE UNCHANGED vars
    <3>1. Policy' = Policy
      BY <2>1 DEF Policy, vars, supabase
    <3> QED
      BY <2>1, <3>1 DEF IInv, vars, supabase, history, TypeOK, Working, Provenance, Held, Sight,
         SingleFactorOnlyWithoutMfa, SingleFactor, NoNeedlessStepUp
  <2>2. CASE \E t \in Tabs : Handle(t)
    BY <2>2, HandleStep
  <2>3. CASE \E t \in Tabs : Deliver(t)
    BY <2>3, DeliverStep
  <2>4. CASE \E t \in Tabs, op \in Operations : Send(t, op)
    BY <2>4, SendStep
  <2>5. CASE \E c \in {"session", "login_csrf", "mfa_pending"} : CookieExpires(c)
    BY <2>5, CookieExpiresStep
  <2>6. CASE \E a \in Tokens : TokenExpires(a)
    BY <2>6, TokenExpiresStep
  <2>7. CASE \E f \in Factors : OtherDevice(f)
    BY <2>7, OtherDeviceStep
  <2> QED
    BY <2>1, <2>2, <2>3, <2>4, <2>5, <2>6, <2>7 DEF Next
<1> QED
  BY <1>1, InitIInv, PTL DEF Spec

(* Every variable of the login flow stays in its domain. *)
THEOREM TypeCorrect == Spec => []TypeOK
BY Invariance, PTL DEF IInv

(***************************************************************************)
(* The gate and the login handlers accept a single-factor token only in a  *)
(* request during which the account had no verified factor, however many   *)
(* tabs, devices and factors there are.                                    *)
(***************************************************************************)
THEOREM SingleFactorNeedsNoMfa == Spec => []SingleFactorOnlyWithoutMfa
BY Invariance, PTL DEF IInv

(* No token that begin_mfa_step_up parks is ever issued as a session. *)
THEOREM PendingStaysPending == Spec => []PendingNeverIssued
<1>1. IInv => PendingNeverIssued
  BY DEF IInv, TypeOK, Held, PendingNeverIssued
<1> QED
  BY <1>1, Invariance, PTL

(* A login asks for a code only if the account had a verified factor meanwhile. *)
THEOREM StepUpsAreNeeded == Spec => []NoNeedlessStepUp
BY Invariance, PTL DEF IInv

-----------------------------------------------------------------------------
(***************************************************************************)
(* The refinement of TokenCustody.  A request carries the token of the     *)
(* cookie that its operation reads, a login works with an aal1 token until *)
(* it has turned to step-up, and no response sets both cookies.            *)
(***************************************************************************)
Weak(a) == minted[a] \in {"aal1", "expired"}

Role(t) ==
  /\ request[t] # None /\ request[t].op = "step_up" =>
       request[t].credential \in pended \cup {None}
  /\ request[t] # None /\ request[t].op \in Gated \cup {"logout"} =>
       request[t].credential \in issued \cup {None}
  /\ step[t] \in {"granted", "challenging"} => Weak(token[t])
  /\ reply[t].session \in Tokens => reply[t].mfa_pending \notin Tokens

Roles == \A t \in Tabs : Role(t)

(* A step of tab t that only adds to what was handed out keeps the roles of the other tabs. *)
LEMMA RolesKept ==
  ASSUME IInv, Roles, NEW t \in Tabs,
         pended \subseteq pended', issued \subseteq issued',
         \A a \in Tokens : minted[a] \in {"aal1", "expired"} => minted'[a] \in {"aal1", "expired"},
         \A u \in Tabs \ {t} :
           request'[u] = request[u] /\ step'[u] = step[u] /\ token'[u] = token[u]
             /\ reply'[u] = reply[u],
         Role(t)'
  PROVE  Roles'
<1> SUFFICES ASSUME NEW u \in Tabs, u # t PROVE Role(u)'
  BY DEF Roles
<1>1. step[u] \in {"granted", "challenging"} => token[u] \in Tokens
  BY DEF IInv, Working
<1> QED BY <1>1 DEF Roles, Role, Weak

custody == <<minted, pended, issued, cookies.session, cookies.mfa_pending>>

(* A request that ends without a trace leaves the tokens alone. *)
LEMMA ForgetCustody ==
  ASSUME IInv, Roles, NEW t \in Tabs, Forget(t)
  PROVE  Roles' /\ UNCHANGED custody
<1>1. UNCHANGED custody
  BY DEF Forget, Finish, supabase, custody
<1>2. Role(t)'
  BY ValueAssumption DEF Forget, Finish, supabase, Role, NoReply, Reply, IInv, TypeOK
<1> QED
  BY <1>1, <1>2, RolesKept DEF Forget, Finish, supabase, custody, IInv, TypeOK

(* So does a handler that goes on to its next call. *)
LEMMA ProceedCustody ==
  ASSUME IInv, Roles, NEW t \in Tabs, NEW next, NEW a, Proceed(t, next, a),
         UNCHANGED <<browser, minted>>,
         next \in {"granted", "challenging"} => Weak(a)
  PROVE  Roles' /\ UNCHANGED custody
<1>1. UNCHANGED custody
  BY DEF Proceed, browser, custody
<1>2. Role(t)'
  BY DEF Proceed, browser, Role, Roles, Weak, IInv, TypeOK
<1> QED
  BY <1>1, <1>2, RolesKept DEF Proceed, browser, custody, IInv, TypeOK

(* A response gives each tab at most one token. *)
LEMMA RespondCustody ==
  ASSUME IInv, Roles, NEW t \in Tabs, NEW r \in Replies, Respond(t, r), UNCHANGED browser,
         r.session \in Tokens => r.mfa_pending \notin Tokens,
         \A a \in Tokens : minted[a] \in {"aal1", "expired"} => minted'[a] \in {"aal1", "expired"}
  PROVE  Roles' /\ UNCHANGED cookies
<1>1. UNCHANGED cookies
  BY DEF browser
<1>2. pended \subseteq pended' /\ issued \subseteq issued'
  BY DEF Respond
<1>3. Role(t)'
  BY <1>2 DEF Respond, browser, Role, Roles, IInv, TypeOK
<1> QED
  BY <1>1, <1>2, <1>3, RolesKept DEF Respond, browser, IInv, TypeOK

LEMMA PlainCustody ==
  ASSUME IInv, Roles, NEW t \in Tabs, NEW r \in Replies, Respond(t, r),
         UNCHANGED <<browser, minted>>,
         r.session \notin Tokens, r.mfa_pending \notin Tokens
  PROVE  Roles' /\ UNCHANGED custody
<1>1. pended' = pended /\ issued' = issued
  BY DEF Respond
<1>2. Roles' /\ UNCHANGED cookies
  BY RespondCustody
<1> QED BY <1>1, <1>2 DEF custody

LEMMA HandleCustody ==
  ASSUME IInv, Roles, NEW t \in Tabs, Handle(t)
  PROVE  Roles' /\ (Custody!Next \/ UNCHANGED custody)
<1>0. TypeOK
  BY DEF IInv
<1>1. CASE Refuse(t) \/ Fail(t)
  BY <1>1, ForgetCustody DEF Refuse, Fail
<1>2. CASE ShowLogin(t)
  <2>1. PICK r : r = Reply(Keep, t, Keep, Page("login", None))
    OBVIOUS
  <2>2. r \in Replies /\ r.session \notin Tokens /\ r.mfa_pending \notin Tokens
    BY <2>1, PlainReplyType, PageType DEF MaybeTab
  <2> QED BY <1>2, <2>1, <2>2, PlainCustody DEF ShowLogin, LoginFlowPage, supabase
<1>3. CASE Grant(t)
  <2>1. PICK a \in Tokens : Mint(a, "aal1") /\ Proceed(t, "granted", a)
    BY <1>3 DEF Grant
  <2>2. UNCHANGED browser
    BY <1>3 DEF Grant
  <2>3. Custody!Grant(a)
    BY <2>1, <2>2 DEF Mint, Proceed, browser, Custody!Grant, Custody!Mint
  <2>4. Role(t)'
    BY <1>0, <2>1, <2>2 DEF Mint, Proceed, browser, Role, Roles, Weak, TypeOK
  <2>5. Roles'
    BY <1>0, <2>1, <2>2, <2>4, RolesKept DEF Mint, Proceed, browser, TypeOK
  <2> QED BY <2>3, <2>5 DEF Custody!Next
<1>4. CASE Lookup(t)
  BY <1>4, ProceedCustody DEF Lookup, Roles, Role, supabase
<1>5. CASE Challenge(t)
  <2>1. PICK r : r = Reply(Keep, t, token[t], Page("step_up", None))
    OBVIOUS
  <2>2. /\ step[t] = "challenging" /\ token[t] \in Tokens /\ Live(token[t])
        /\ Respond(t, r) /\ UNCHANGED <<browser, minted>>
    BY <1>5, <2>1 DEF Challenge, LoginFlowPage, IInv, Working, supabase
  <2>3. r \in Replies /\ r.session \notin Tokens /\ r.mfa_pending = token[t]
    BY <2>1, <2>2, NoTokens, ReplyType, PageType DEF MaybeTab, MaybeToken
  <2>4. minted[token[t]] = "aal1" /\ token[t] \notin issued
    BY <2>2 DEF Roles, Role, Weak, Live, IInv, Held
  <2>5. Roles' /\ UNCHANGED cookies
    BY <2>2, <2>3, RespondCustody
  <2>6. Custody!Park(token[t])
    BY <2>2, <2>3, <2>4, <2>5 DEF Respond, Custody!Park
  <2> QED BY <2>2, <2>5, <2>6 DEF Custody!Next
<1>6. CASE ShowStepUp(t)
  <2>1. PICK r : r = Reply(Keep, t, Keep, Page("step_up", None))
    OBVIOUS
  <2>2. r \in Replies /\ r.session \notin Tokens /\ r.mfa_pending \notin Tokens
    BY <2>1, PlainReplyType, PageType DEF MaybeTab
  <2> QED BY <1>6, <2>1, <2>2, PlainCustody DEF ShowStepUp, LoginFlowPage, supabase
<1>7. CASE StepUp(t)
  <2>1. PICK a \in Tokens : Mint(a, "aal2") /\ Proceed(t, "finalizing", a)
    BY <1>7 DEF StepUp
  <2>2. UNCHANGED browser
    BY <1>7 DEF StepUp
  <2>3. request[t].credential \in pended /\ minted[request[t].credential] \in {"aal1", "aal2"}
    BY <1>7 DEF StepUp, At, Live, Roles, Role
  <2>4. Custody!StepUp(a)
    BY <2>1, <2>2, <2>3
    DEF Mint, Proceed, browser, Custody!StepUp, Custody!Mint, Custody!Live
  <2>5. Role(t)'
    BY <1>0, <2>1, <2>2 DEF Mint, Proceed, browser, Role, Roles, Weak, TypeOK
  <2>6. Roles'
    BY <1>0, <2>1, <2>2, <2>5, RolesKept DEF Mint, Proceed, browser, TypeOK
  <2> QED BY <2>4, <2>6 DEF Custody!Next
<1>8. CASE Finalize(t)
  <2>1. PICK r : r = Reply(token[t], None, None, NoPage)
    OBVIOUS
  <2>2. /\ step[t] = "finalizing" /\ token[t] \in Tokens /\ Live(token[t])
        /\ Respond(t, r) /\ UNCHANGED <<browser, minted>>
    BY <1>8, <2>1 DEF Finalize, IInv, Working, supabase
  <2>3. r \in Replies /\ r.session = token[t] /\ r.mfa_pending \notin Tokens
    BY <2>1, <2>2, NoTokens, PageType DEF Reply, Replies, MaybeTab, MaybeToken
  <2>4. token[t] \notin pended
    BY <2>2 DEF IInv, Held
  <2>5. Roles' /\ UNCHANGED cookies
    BY <2>2, <2>3, RespondCustody
  <2>6. Custody!Issue(token[t])
    BY <2>2, <2>3, <2>4, <2>5 DEF Respond, Live, Custody!Issue, Custody!Live
  <2> QED BY <2>2, <2>5, <2>6 DEF Custody!Next
<1>9. CASE Gate(t)
  <2>1. CASE Live(request[t].credential)
    BY <1>9, <2>1, ProceedCustody DEF Gate, supabase
  <2>2. CASE ~Live(request[t].credential)
    BY <1>9, <2>2, ForgetCustody DEF Gate
  <2> QED BY <2>1, <2>2
<1>10. CASE GateLookup(t)
  <2>1. CASE RequiredFactors = {}
    BY <1>10, <2>1, ProceedCustody DEF GateLookup, supabase
  <2>2. CASE RequiredFactors # {}
    BY <1>10, <2>2, ForgetCustody DEF GateLookup
  <2> QED BY <2>1, <2>2
<1>11. ASSUME NEW op \in Gated, Handling(t, op)
       PROVE  /\ step[t] = "admitted" /\ request[t] # None
              /\ request[t].credential \in issued /\ request[t].credential \in Tokens
              /\ minted[request[t].credential] \in {"aal1", "aal2"}
  BY <1>0, <1>11 DEF Handling, At, Live, Roles, Role, TypeOK
<1>12. CASE View(t) \/ Enroll(t)
  <2>1. PICK r : r = Reply(Keep, Keep, Keep, Page("app", request[t].credential))
    OBVIOUS
  <2>2. request[t].credential \in Tokens
    BY <1>11, <1>12 DEF View, Enroll, Gated, MfaPosts
  <2>3. r \in Replies /\ r.session \notin Tokens /\ r.mfa_pending \notin Tokens
    BY <2>1, <2>2, PlainReplyType, PageType
  <2> QED BY <1>12, <2>1, <2>3, PlainCustody DEF View, Enroll, supabase
<1>13. CASE Activate(t)
  <2>1. PICK a \in Tokens : Mint(a, "aal2") /\ Respond(t, Reply(a, Keep, Keep, NoPage))
    BY <1>13 DEF Activate
  <2>2. PICK r : r = Reply(a, Keep, Keep, NoPage)
    OBVIOUS
  <2>3. r \in Replies /\ r.session = a /\ r.mfa_pending \notin Tokens
    BY <2>2, NoTokens, PageType DEF Reply, Replies, MaybeTab, MaybeToken
  <2>4. UNCHANGED browser
    BY <1>13 DEF Activate
  <2>5. Roles' /\ UNCHANGED cookies
    BY <1>0, <2>1, <2>2, <2>3, <2>4, RespondCustody DEF Mint, TypeOK
  <2>6. \E b \in issued : minted[b] \in {"aal1", "aal2"}
    BY <1>11, <1>13 DEF Activate, Gated, MfaPosts
  <2>7. Custody!Upgrade(a)
    BY <2>1, <2>2, <2>3, <2>5, <2>6
    DEF Mint, Respond, Custody!Upgrade, Custody!Mint, Custody!Live
  <2> QED BY <2>5, <2>7 DEF Custody!Next
<1>14. CASE ReChallenge(t)
  BY <1>14, ProceedCustody DEF ReChallenge, supabase
<1>15. CASE Unenroll(t)
  <2>1. PICK r : r = Reply(Keep, Keep, Keep, NoPage)
    OBVIOUS
  <2>2. r \in Replies /\ r.session \notin Tokens /\ r.mfa_pending \notin Tokens
    BY <2>1, PlainReplyType, PageType
  <2> QED BY <1>15, <2>1, <2>2, PlainCustody DEF Unenroll
<1>16. CASE Logout(t)
  <2>1. PICK r : r = Reply(None, None, None, NoPage)
    OBVIOUS
  <2>2. r \in Replies /\ r.session \notin Tokens /\ r.mfa_pending \notin Tokens
    BY <2>1, NoTokens, PageType DEF Reply, Replies, MaybeTab, MaybeToken
  <2> QED BY <1>16, <2>1, <2>2, PlainCustody DEF Logout, supabase
<1> QED
  BY <1>1, <1>2, <1>3, <1>4, <1>5, <1>6, <1>7, <1>8, <1>9, <1>10, <1>12, <1>13, <1>14, <1>15,
     <1>16 DEF Handle

(* A request takes along the cookie that its operation reads. *)
LEMMA SendCustody ==
  ASSUME IInv, Roles, NEW t \in Tabs, NEW op \in Operations, Send(t, op)
  PROVE  Roles' /\ UNCHANGED custody
<1>0. TypeOK
  BY DEF IInv
<1>1. UNCHANGED custody
  BY DEF Send, supabase, custody
<1>2. request'[t] = [op |-> op, credential |-> Credential(op), trusted |-> Trusted(t, op)]
  BY <1>0 DEF Send, TypeOK
<1>3. /\ op = "step_up" => Credential(op) \in pended \cup {None}
      /\ op \in Gated \cup {"logout"} => Credential(op) \in issued \cup {None}
  BY DEF Credential, Gated, MfaPosts, IInv, Provenance
<1>4. Role(t)'
  BY <1>0, <1>2, <1>3 DEF Send, supabase, Role, Roles, TypeOK
<1> QED
  BY <1>0, <1>1, <1>4, RolesKept DEF Send, supabase, custody, TypeOK

(* A response that arrives brings tokens that were handed out for the cookies they go to. *)
LEMMA DeliverCustody ==
  ASSUME IInv, Roles, NEW t \in Tabs, Deliver(t)
  PROVE  Roles' /\ Custody!Store
<1>0. TypeOK
  BY DEF IInv
<1>1. UNCHANGED <<minted, pended, issued>>
  BY DEF Deliver, Finish, supabase
<1>2. Role(t)'
  BY <1>0, ValueAssumption DEF Deliver, Finish, Role, NoReply, Reply, TypeOK
<1>3. Roles'
  BY <1>0, <1>1, <1>2, RolesKept DEF Deliver, Finish, TypeOK
<1>4. /\ reply[t].session \in issued \cup {None, Keep}
      /\ reply[t].mfa_pending \in pended \cup {None, Keep}
      /\ reply[t].session \in {None, Keep} \/ reply[t].mfa_pending \in {None, Keep}
  BY <1>0 DEF Roles, Role, IInv, Provenance, TypeOK
<1>5. /\ cookies'.session = SetCookie(cookies.session, reply[t].session)
      /\ cookies'.mfa_pending = SetCookie(cookies.mfa_pending, reply[t].mfa_pending)
  BY DEF Deliver
<1>6. Custody!Store
  BY <1>1, <1>4, <1>5 DEF SetCookie, Custody!Store
<1> QED BY <1>3, <1>6

LEMMA CustodyStep ==
  ASSUME IInv, Roles, [Next]_vars
  PROVE  Roles' /\ [Custody!Next]_(Custody!vars)
<1>0. TypeOK
  BY DEF IInv
<1>1. UNCHANGED custody => UNCHANGED Custody!vars
  BY DEF custody, Custody!vars
<1>2. CASE UNCHANGED vars
  BY <1>2, <1>1 DEF vars, supabase, history, custody, Roles, Role, Weak
<1>3. CASE \E t \in Tabs : Handle(t)
  BY <1>1, <1>3, HandleCustody
<1>4. CASE \E t \in Tabs : Deliver(t)
  BY <1>4, DeliverCustody DEF Custody!Next
<1>5. CASE \E t \in Tabs, op \in Operations : Send(t, op)
  BY <1>1, <1>5, SendCustody
<1>6. ASSUME NEW c \in {"session", "login_csrf", "mfa_pending"}, CookieExpires(c)
      PROVE  Roles' /\ Custody!Store
  <2>1. Roles'
    BY <1>6 DEF CookieExpires, supabase, history, Roles, Role, Weak
  <2>2. /\ cookies'.session \in {None, cookies.session}
        /\ cookies'.mfa_pending \in {None, cookies.mfa_pending}
        /\ UNCHANGED <<minted, pended, issued>>
    BY <1>0, <1>6 DEF CookieExpires, supabase, history, TypeOK
  <2> QED BY <2>1, <2>2 DEF Custody!Store
<1>7. ASSUME NEW a \in Tokens, TokenExpires(a)
      PROVE  Roles' /\ Custody!Expire(a)
  <2>1. \A b \in Tokens : Weak(b) => minted'[b] \in {"aal1", "expired"}
    BY <1>0, <1>7 DEF TokenExpires, Weak, TypeOK
  <2>2. \A t \in Tabs : step[t] \in {"granted", "challenging"} => token[t] \in Tokens
    BY DEF IInv, Working
  <2>3. Roles'
    BY <1>7, <2>1, <2>2 DEF TokenExpires, browser, history, Roles, Role, Weak
  <2> QED
    BY <1>7, <2>3 DEF TokenExpires, browser, history, Custody!Expire, Custody!Live
<1>8. CASE \E f \in Factors : OtherDevice(f)
  BY <1>1, <1>8 DEF OtherDevice, browser, custody, Roles, Role, Weak
<1> QED
  BY <1>2, <1>3, <1>4, <1>5, <1>6, <1>7, <1>8 DEF Next, Custody!Next

(***************************************************************************)
(* However tabs race and responses are reordered or lost, a token is       *)
(* handed out for one use, a second factor is only ever proved with a live *)
(* token that was handed out, and cookies hold what was meant for them.    *)
(***************************************************************************)
THEOREM Refinement == Spec => ImplementsCustody
<1>1. Init => Roles /\ Custody!Init
  BY ValueAssumption DEF Init, Roles, Role, NoReply, Reply, Custody!Init
<1> QED
  BY <1>1, CustodyStep, Invariance, PTL DEF Spec, ImplementsCustody, Custody!Spec
=============================================================================
