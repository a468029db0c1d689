----------------------- MODULE PortalMutationsProofs -----------------------
(***************************************************************************)
(* Proofs about PortalMutations for any number of forms, attempts,         *)
(* sessions, organisations and faults.  Three facts carry the argument: a  *)
(* form keeps the session it was rendered for; whatever was accepted, or   *)
(* left behind, was accepted for the account of that session, and for a    *)
(* form of a page for that very session; and the record the service keeps  *)
(* of a key never changes once it is there.                                *)
(***************************************************************************)
EXTENDS PortalMutations, TLAPS

(* Session s may act with form f: it is the form's, or one of its account for an API client. *)
Entitles(s, f) ==
  /\ s \in Sessions
  /\ AccountOf[s] = AccountOf[owner[f]]
  /\ ~Api(f) => s = owner[f]

(* A call the portal has accepted: under its form's key, with a session entitled to the form. *)
Entitled(c) ==
  /\ c.key = c.form
  /\ owner[c.form] # NoSession
  /\ Entitles(c.session, c.form)
  /\ c.member

(* An API client changes its credential only when the first one is gone. *)
Loyal(h) ==
  Api(formOf[h]) =>
    /\ Entitles(attempt[h].session, formOf[h])
    /\ owner[formOf[h]] \in live => attempt[h].session = owner[formOf[h]]

(* Where an attempt stands, and what its answer so far is worth. *)
Standing(h) ==
  /\ pc[h] # "idle" => owner[formOf[h]] # NoSession /\ Loyal(h)
  /\ pc[h] \in {"call", "reply", "list"} => Entitles(attempt[h].session, formOf[h])
  /\ pc[h] = "call" => attempt[h].member
  /\ pc[h] = "list" => answer[h] = "ok"
  /\ pc[h] \in {"reply", "list", "answered"} /\ answer[h] = "ok" =>
       Stored(formOf[h]) = {<<formOf[h], Request(h)>>}

(* The service's record of a form, and whose it is. *)
Recorded(f) ==
  /\ made[f] \in {0, 1}
  /\ made[f] = 0 <=> Stored(f) = {}
  /\ made[f] = 0 => authors[f] = {}
  /\ \A a \in authors[f] : Entitles(a[1], f) /\ a[2]
  /\ made[f] # 0 => owner[f] # NoSession

(* A rendered form whose secret was not shown is in the page or displaced. *)
Kept(f) ==
  /\ present[f] => owner[f] # NoSession
  /\ Secret(f) /\ owner[f] # NoSession /\ f \notin revealed => present[f] \/ f \in displaced

IInv ==
  /\ TypeOK
  /\ \A c \in late : Entitled(c)
  /\ \A h \in Handlers : Standing(h)
  /\ \A f \in Forms : Recorded(f) /\ Kept(f)

(* Owners and records stay, once they are there, and no session comes back. *)
Stay ==
  /\ formOf' = formOf /\ kind' = kind /\ org' = org
  /\ live' \subseteq live
  /\ \A f \in Forms : owner[f] # NoSession => owner'[f] = owner[f]
  /\ \A f \in Forms : Stored(f) # {} => Stored(f)' = Stored(f)

(* The step is not of attempt h. *)
Aside(h) == pc'[h] = pc[h] /\ attempt'[h] = attempt[h] /\ answer'[h] = answer[h]

-----------------------------------------------------------------------------
(* The values an attempt starts from. *)
LEMMA NoAttemptType == NoAttempt \in AttemptType
<1>1. \E c \in Contents : TRUE
  BY MutationAssumption
<1>2. \E t \in Stamps : TRUE
  BY MutationAssumption
<1> QED BY <1>1, <1>2 DEF NoAttempt, AttemptType

(* What a session is entitled to does not change once the form is rendered. *)
LEMMA EntitlesStays ==
  ASSUME NEW f \in Forms, NEW s, owner[f] # NoSession, Entitles(s, f), Stay
  PROVE  Entitles(s, f)'
<1>1. owner'[f] = owner[f] /\ Api(f)' = Api(f)
  BY DEF Stay, Api
<1> QED BY <1>1 DEF Entitles

(* Where another attempt stands does not change. *)
LEMMA Frame ==
  ASSUME TypeOK, NEW h \in Handlers, Standing(h), Stay, Aside(h)
  PROVE  Standing(h)'
<1>1. formOf[h] \in Forms /\ formOf'[h] = formOf[h]
  BY DEF TypeOK, Stay
<1>2. Request(h)' = Request(h)
  BY DEF Request, Stay, Aside
<1>3. CASE pc[h] = "idle"
  BY <1>3 DEF Standing, Aside
<1>4. CASE pc[h] # "idle"
  <2>1. owner[formOf[h]] # NoSession /\ Loyal(h)
    BY <1>4 DEF Standing
  <2>2. owner'[formOf[h]] = owner[formOf[h]] /\ live' \subseteq live
    BY <1>1, <2>1 DEF Stay
  <2>3. Api(formOf[h])' = Api(formOf[h])
    BY <1>1 DEF Stay, Api
  <2>4. Loyal(h)'
    BY <1>1, <2>1, <2>2, <2>3 DEF Loyal, Entitles, Aside
  <2>5. pc[h] \in {"call", "reply", "list"} => Entitles(attempt[h].session, formOf[h])'
    BY <1>1, <2>2, <2>3 DEF Standing, Entitles, Aside
  <2>6. pc[h] \in {"reply", "list", "answered"} /\ answer[h] = "ok" =>
          (Stored(formOf[h]) = {<<formOf[h], Request(h)>>})'
    BY <1>1, <1>2 DEF Standing, Stored, Stay
  <2> QED BY <1>1, <2>1, <2>2, <2>4, <2>5, <2>6 DEF Standing, Stay, Aside
<1> QED BY <1>3, <1>4

(* What an attempt that awaits its call sends. *)
LEMMA CallFacts ==
  ASSUME IInv, NEW h \in Handlers, pc[h] = "call"
  PROVE  Call(h) \in CallType /\ Entitled(Call(h)) /\ Call(h).key = formOf[h]
         /\ Call(h).request = Request(h)
<1>1. TypeOK /\ Standing(h)
  BY DEF IInv
<1>2. formOf[h] \in Forms /\ attempt[h] \in AttemptType
  BY <1>1 DEF TypeOK
<1>3. Request(h) \in RequestType
  BY <1>1, <1>2 DEF TypeOK, Request, RequestType, AttemptType
<1>4. attempt[h].session \in Sessions /\ attempt[h].member \in BOOLEAN
  BY <1>1, <1>2 DEF TypeOK, AttemptType, Standing, Entitles
<1> QED BY <1>1, <1>2, <1>3, <1>4 DEF Call, CallType, KeyOf, Entitled, Standing

(* Running an accepted call: at most one record, in its owner's name. *)
LEMMA ExecuteFacts ==
  ASSUME IInv, NEW c \in CallType, Entitled(c), NEW admitted, Execute(c, admitted),
         UNCHANGED <<kind, formOf, owner, org, live>>
  PROVE  /\ Stay
         /\ stored' \in SUBSET (Forms \X RequestType)
         /\ made' \in [Forms -> Nat]
         /\ authors' \in [Forms -> SUBSET (Sessions \X BOOLEAN)]
         /\ \A f \in Forms : Recorded(f)'
         /\ Result(c, admitted) = "ok" => Stored(c.key)' = {<<c.key, c.request>>}
<1>0. TypeOK /\ \A f \in Forms : Recorded(f)
  BY DEF IInv
<1>1. /\ c.key \in Forms /\ c.form = c.key /\ c.session \in Sessions /\ c.member = TRUE
      /\ c.request \in RequestType /\ Entitles(c.session, c.key) /\ owner[c.key] # NoSession
  BY DEF CallType, Entitled
<1>2. CASE admitted /\ Stored(c.key) = {}
  <2>1. /\ stored' = stored \cup {<<c.key, c.request>>}
        /\ made' = [made EXCEPT ![c.key] = @ + 1]
        /\ authors' = [authors EXCEPT ![c.key] = @ \cup {<<c.session, TRUE>>}]
    BY <1>1, <1>2 DEF Execute
  <2>2. \A f \in Forms : Stored(f)' = IF f = c.key THEN {<<c.key, c.request>>} ELSE Stored(f)
    BY <1>2, <2>1 DEF Stored
  <2>3. made[c.key] = 0
    BY <1>0, <1>1, <1>2 DEF Recorded
  <2>4. Stay
    BY <1>2, <2>2 DEF Stay
  <2>5. ASSUME NEW f \in Forms PROVE Recorded(f)'
    <3>1. CASE f = c.key
      <4>1. made'[f] = 1 /\ owner' = owner
        BY <1>0, <2>1, <2>3, <3>1 DEF TypeOK
      <4>2. authors'[f] = {<<c.session, TRUE>>}
        BY <1>0, <2>1, <2>3, <3>1 DEF TypeOK, Recorded
      <4>3. Stored(f)' # {}
        BY <2>2, <3>1
      <4>4. owner'[f] # NoSession /\ Entitles(c.session, f)'
        BY <1>1, <2>4, <3>1, <4>1, EntitlesStays
      <4>5. \A a \in authors'[f] : Entitles(a[1], f)' /\ a[2]
        <5>1. ASSUME NEW a \in authors'[f] PROVE a = <<c.session, TRUE>>
          BY <4>2
        <5>2. <<c.session, TRUE>>[1] = c.session /\ <<c.session, TRUE>>[2]
          OBVIOUS
        <5> QED BY <4>4, <5>1, <5>2
      <4> QED BY <4>1, <4>3, <4>4, <4>5 DEF Recorded
    <3>2. CASE f # c.key
      <4>1. made'[f] = made[f] /\ authors'[f] = authors[f] /\ owner' = owner
        BY <1>0, <2>1, <3>2 DEF TypeOK
      <4>2. Stored(f)' = Stored(f) /\ Api(f)' = Api(f)
        BY <2>2, <3>2 DEF Api
      <4> QED BY <1>0, <4>1, <4>2 DEF Recorded, Entitles
    <3> QED BY <3>1, <3>2
  <2>6. Stored(c.key)' = {<<c.key, c.request>>}
    BY <1>1, <2>2
  <2>7. stored' \in SUBSET (Forms \X RequestType)
    BY <1>0, <1>1, <2>1 DEF TypeOK
  <2>8. made' \in [Forms -> Nat]
    BY <1>0, <1>1, <2>1 DEF TypeOK
  <2>9. authors' \in [Forms -> SUBSET (Sessions \X BOOLEAN)]
    <3>1. <<c.session, TRUE>> \in Sessions \X BOOLEAN
      BY <1>1
    <3> QED BY <1>0, <2>1, <3>1 DEF TypeOK
  <2> QED BY <2>4, <2>5, <2>6, <2>7, <2>8, <2>9
<1>3. CASE ~(admitted /\ Stored(c.key) = {})
  <2>1. UNCHANGED <<stored, made, authors>>
    BY <1>3 DEF Execute, upstream
  <2>2. \A f : Stored(f)' = Stored(f)
    BY <2>1 DEF Stored
  <2>3. Result(c, admitted) = "ok" => Stored(c.key) = {<<c.key, c.request>>}
    BY <1>3 DEF Result
  <2>4. Stay
    BY <2>2 DEF Stay
  <2>5. \A f \in Forms : Recorded(f)'
    BY <1>0, <2>1, <2>2 DEF Recorded, Entitles, Api
  <2>6. Result(c, admitted) = "ok" => Stored(c.key)' = {<<c.key, c.request>>}
    BY <2>2, <2>3
  <2> QED BY <1>0, <2>1, <2>4, <2>5, <2>6 DEF TypeOK
<1> QED BY <1>2, <1>3

(* A call that was accepted stays accepted. *)
LEMMA EntitledStays ==
  ASSUME TypeOK, NEW c \in CallType, Entitled(c), Stay
  PROVE  Entitled(c)'
<1>1. c.form \in Forms /\ owner[c.form] # NoSession /\ Entitles(c.session, c.form)
  BY DEF CallType, Entitled
<1>2. Entitles(c.session, c.form)' /\ owner'[c.form] = owner[c.form]
  BY <1>1, EntitlesStays DEF Stay
<1> QED BY <1>1, <1>2 DEF Entitled

(* A step that leaves the service alone, and every owner there is. *)
LEMMA NoCall ==
  ASSUME IInv, UNCHANGED <<upstream, formOf, kind, org>>, live' \subseteq live,
         \A f \in Forms : owner[f] # NoSession => owner'[f] = owner[f]
  PROVE  Stay /\ \A f \in Forms : Recorded(f)'
<1>0. TypeOK /\ \A f \in Forms : Recorded(f)
  BY DEF IInv
<1>1. stored' = stored /\ made' = made /\ authors' = authors
  BY DEF upstream
<1>2. \A f : Stored(f)' = Stored(f)
  BY <1>1 DEF Stored
<1>3. Stay
  BY <1>2 DEF Stay
<1>4. ASSUME NEW f \in Forms PROVE Recorded(f)'
  <2>1. CASE owner[f] = NoSession
    <3>1. made[f] = 0
      BY <1>0, <2>1 DEF Recorded
    <3> QED BY <1>0, <1>1, <1>2, <3>1 DEF Recorded
  <2>2. CASE owner[f] # NoSession
    <3>1. owner'[f] = owner[f] /\ Api(f)' = Api(f)
      BY <2>2 DEF Api
    <3> QED BY <1>0, <1>1, <1>2, <3>1 DEF Recorded, Entitles
  <2> QED BY <2>1, <2>2
<1> QED BY <1>3, <1>4

(* A step of attempt h in which the page and the service stay as they are. *)
LEMMA AttemptStep ==
  ASSUME IInv, NEW h \in Handlers, UNCHANGED <<formVars, live, upstream, late, revealed>>,
         TypeOK', Standing(h)', \A g \in Handlers \ {h} : Aside(g)
  PROVE  IInv'
<1>0. TypeOK
  BY DEF IInv
<1>1. Stay /\ \A f \in Forms : Recorded(f)'
  BY NoCall DEF formVars
<1>2. \A f \in Forms : Kept(f)'
  BY DEF IInv, Kept, formVars, Secret
<1>3. ASSUME NEW g \in Handlers PROVE Standing(g)'
  BY <1>0, <1>1, <1>3, Frame DEF IInv
<1>4. ASSUME NEW c \in late' PROVE Entitled(c)'
  BY <1>0, <1>1, <1>4, EntitledStays DEF IInv, TypeOK
<1> QED BY <1>1, <1>2, <1>3, <1>4 DEF IInv

(* The initial states satisfy the invariant. *)
LEMMA InitIInv == Init => IInv
<1> SUFFICES ASSUME Init PROVE IInv
  OBVIOUS
<1>1. TypeOK
  BY NoAttemptType, MutationAssumption DEF Init, TypeOK, Outcomes
<1>2. \A h \in Handlers : Standing(h)
  BY DEF Init, Standing
<1>3. ASSUME NEW f \in Forms PROVE Recorded(f) /\ Kept(f)
  BY DEF Init, Recorded, Kept, Stored
<1> QED BY <1>1, <1>2, <1>3 DEF Init, IInv

(* A form is rendered: it has an owner and is in the page. *)
LEMMA RenderStep ==
  ASSUME IInv, NEW f \in Forms, Render(f)
  PROVE  IInv'
<1>0. TypeOK
  BY DEF IInv
<1>1. TypeOK'
  BY <1>0 DEF Render, TypeOK, client, upstream
<1>2. Stay /\ \A g \in Forms : Recorded(g)'
  <2>1. UNCHANGED <<upstream, formOf, kind, org, live>>
    BY DEF Render, client
  <2>2. \A g \in Forms : owner[g] # NoSession => owner'[g] = owner[g]
    BY <1>0 DEF Render, TypeOK
  <2> QED BY <2>1, <2>2, NoCall
<1>3. ASSUME NEW h \in Handlers PROVE Standing(h)'
  BY <1>0, <1>2, <1>3, Frame DEF IInv, Render, Aside
<1>4. ASSUME NEW g \in Forms PROVE Kept(g)'
  <2>1. Kept(g) /\ Secret(g)' = Secret(g) /\ revealed' = revealed /\ displaced' = displaced
    BY DEF IInv, Render, Secret
  <2>2. CASE g = f
    <3>1. owner'[f] \in Sessions /\ present'[f]
      BY <1>0 DEF Render, TypeOK
    <3> QED BY <2>2, <3>1, MutationAssumption DEF Kept
  <2>3. CASE g # f
    <3>1. owner'[g] = owner[g] /\ present'[g] = present[g]
      BY <1>0, <2>3 DEF Render, TypeOK
    <3> QED BY <2>1, <3>1 DEF Kept
  <2> QED BY <2>2, <2>3
<1>5. ASSUME NEW c \in late' PROVE Entitled(c)'
  BY <1>0, <1>2, <1>5, EntitledStays DEF IInv, TypeOK, Render
<1> QED BY <1>1, <1>2, <1>3, <1>4, <1>5 DEF IInv

(* The browser's session changes, or one ends, or a membership. *)
LEMMA MoveStep ==
  ASSUME IInv, Switch \/ Expire \/ Leave
  PROVE  IInv'
<1>0. TypeOK
  BY DEF IInv
<1>1. /\ UNCHANGED <<formVars, pc, attempt, answer, upstream, late, revealed, sent, faults>>
      /\ live' \subseteq live
  BY DEF Switch, Expire, Leave
<1>2. TypeOK'
  <2>1. moves' \in 0..MaxMoves
    BY <1>0, MutationAssumption DEF Switch, Expire, Leave, Move, TypeOK
  <2>2. cookie' \in Sessions \cup {NoSession} /\ live' \in SUBSET Sessions
    BY <1>0, <1>1 DEF Switch, Expire, Leave, TypeOK
  <2>3. orgs' \in [Accounts -> SUBSET Orgs]
    BY <1>0 DEF Switch, Expire, Leave, TypeOK
  <2> QED BY <1>0, <1>1, <2>1, <2>2, <2>3 DEF TypeOK, formVars, upstream
<1>3. Stay /\ \A g \in Forms : Recorded(g)'
  BY <1>1, NoCall DEF formVars
<1>4. ASSUME NEW h \in Handlers PROVE Standing(h)'
  BY <1>0, <1>1, <1>3, Frame DEF IInv, Aside
<1>5. ASSUME NEW g \in Forms PROVE Kept(g)'
  BY <1>1 DEF IInv, Kept, formVars, Secret
<1>6. ASSUME NEW c \in late' PROVE Entitled(c)'
  BY <1>0, <1>1, <1>3, <1>6, EntitledStays DEF IInv, TypeOK
<1> QED BY <1>2, <1>3, <1>4, <1>5, <1>6 DEF IInv

(* The browser leaves: the forms of the page are displaced. *)
LEMMA NavigateStep ==
  ASSUME IInv, Navigate
  PROVE  IInv'
<1>0. TypeOK
  BY DEF IInv
<1>1. UNCHANGED <<kind, formOf, owner, org, live, pc, attempt, answer, upstream, late, revealed>>
  BY DEF Navigate
<1>2. TypeOK'
  BY <1>0, MutationAssumption DEF Navigate, Move, TypeOK, upstream
<1>3. Stay /\ \A g \in Forms : Recorded(g)'
  BY <1>1, NoCall
<1>4. ASSUME NEW h \in Handlers PROVE Standing(h)'
  BY <1>0, <1>1, <1>3, Frame DEF IInv, Aside
<1>5. ASSUME NEW g \in Forms PROVE Kept(g)'
  <2>1. /\ present'[g] => present[g]
        /\ present[g] => present'[g] \/ g \in displaced'
        /\ g \in displaced => g \in displaced'
    BY DEF Navigate
  <2> QED BY <1>1, <2>1 DEF IInv, Kept, Secret
<1>6. ASSUME NEW c \in late' PROVE Entitled(c)'
  BY <1>0, <1>1, <1>3, <1>6, EntitledStays DEF IInv, TypeOK
<1> QED BY <1>2, <1>3, <1>4, <1>5, <1>6 DEF IInv

(* What is submitted: fields, with one of the credentials there are for the form. *)
LEMMA SubmittedFacts ==
  ASSUME NEW h \in Handlers, Submit(h)
  PROVE  \E c \in Contents : \E s \in Credentials(formOf[h]) :
           /\ attempt' = [attempt EXCEPT ![h] = [NoAttempt EXCEPT !.session = s, !.content = c]]
           /\ sent' = [sent EXCEPT ![formOf[h]] = @ \cup {c}]
<1>1. (CHOOSE c \in ValidContents : TRUE) \in Contents
  BY MutationAssumption
<1> QED BY <1>1 DEF Submit

(* A form is submitted; only a rendered one is in the page. *)
LEMMA SubmitStep ==
  ASSUME IInv, NEW h \in Handlers, Submit(h)
  PROVE  IInv'
<1>0. TypeOK /\ formOf[h] \in Forms /\ Kept(formOf[h])
  BY DEF IInv, TypeOK
<1>1. TypeOK'
  <2>1. PICK c \in Contents, s \in Credentials(formOf[h]) :
          /\ attempt' = [attempt EXCEPT ![h] = [NoAttempt EXCEPT !.session = s, !.content = c]]
          /\ sent' = [sent EXCEPT ![formOf[h]] = @ \cup {c}]
    BY SubmittedFacts
  <2>2. s \in Sessions \cup {NoSession}
    BY <1>0 DEF Credentials, TypeOK
  <2>3. [NoAttempt EXCEPT !.session = s, !.content = c] \in AttemptType
    BY <2>2, NoAttemptType DEF AttemptType
  <2>4. attempt' \in [Handlers -> AttemptType] /\ sent' \in [Forms -> SUBSET Contents]
    BY <1>0, <2>1, <2>3 DEF TypeOK
  <2> QED BY <1>0, <2>4 DEF Submit, TypeOK, formVars, client, upstream
<1>2. Standing(h)'
  <2>1. owner[formOf[h]] # NoSession /\ owner[formOf[h]] \in Sessions
    BY <1>0 DEF Submit, Kept, TypeOK
  <2>2. PICK c \in Contents, s \in Credentials(formOf[h]) :
          attempt' = [attempt EXCEPT ![h] = [NoAttempt EXCEPT !.session = s, !.content = c]]
    BY SubmittedFacts
  <2>3. attempt'[h].session = s
    BY <1>0, <2>2, NoAttemptType DEF TypeOK, AttemptType
  <2>4. UNCHANGED <<kind, formOf, owner, live>> /\ pc'[h] = "verify"
    BY <1>0 DEF Submit, TypeOK, formVars, client
  <2>5. Loyal(h)'
    BY <2>1, <2>3, <2>4 DEF Loyal, Entitles, Credentials, Api
  <2> QED BY <2>1, <2>4, <2>5 DEF Standing
<1>3. \A g \in Handlers \ {h} : Aside(g)
  <2>1. PICK c \in Contents, s \in Credentials(formOf[h]) :
          attempt' = [attempt EXCEPT ![h] = [NoAttempt EXCEPT !.session = s, !.content = c]]
    BY SubmittedFacts
  <2> QED BY <1>0, <2>1 DEF Submit, TypeOK, Aside
<1> QED BY <1>1, <1>2, <1>3, AttemptStep DEF Submit, client

(* What is accepted comes with a session entitled to the form, of a member. *)
LEMMA VerifyStep ==
  ASSUME IInv, NEW h \in Handlers, Verify(h)
  PROVE  IInv'
<1>0. TypeOK /\ Standing(h) /\ attempt[h] \in AttemptType /\ formOf[h] \in Forms
  BY DEF IInv, TypeOK
<1>1. NoAttempt.stamp \in Stamps
  BY NoAttemptType DEF AttemptType
<1>2. CASE Accepted(h)
  <2>1. PICK t \in Stamps :
          attempt' = [attempt EXCEPT ![h].stamp = t, ![h].member =
                        org[formOf[h]] \in orgs[AccountOf[attempt[h].session]]]
    BY <1>1, <1>2 DEF Verify
  <2> DEFINE member == org[formOf[h]] \in orgs[AccountOf[attempt[h].session]]
             next == [attempt[h] EXCEPT !.stamp = t, !.member = member]
  <2>2. member = TRUE
    BY <1>2 DEF Accepted, Member
  <2> HIDE DEF member
  <2>3. next \in AttemptType /\ next.session = attempt[h].session /\ next.member
    BY <1>0, <2>2 DEF AttemptType
  <2>4. attempt' = [attempt EXCEPT ![h] = next]
    BY <1>0, <2>1 DEF TypeOK, AttemptType, member
  <2> HIDE DEF next
  <2>5. attempt'[h] = next /\ attempt' \in [Handlers -> AttemptType]
    BY <1>0, <2>3, <2>4 DEF TypeOK
  <2>6. pc' = [pc EXCEPT ![h] = "call"] /\ answer' = answer
    BY <1>2 DEF Verify
  <2>7. TypeOK'
    BY <1>0, <2>5, <2>6 DEF Verify, TypeOK, formVars, client, upstream
  <2>8. Standing(h)'
    <3>1. UNCHANGED <<kind, formOf, owner, live>> /\ pc'[h] = "call" /\ pc[h] # "idle"
      BY <1>0, <2>6 DEF Verify, formVars, client, TypeOK
    <3>2. attempt'[h].session = attempt[h].session /\ attempt'[h].member
      BY <2>3, <2>5
    <3>3. owner[formOf[h]] # NoSession /\ Loyal(h)
      BY <1>0, <3>1 DEF Standing
    <3>4. Entitles(attempt[h].session, formOf[h])
      BY <1>0, <1>2, <3>3 DEF Accepted, Authentic, Loyal, Entitles, TypeOK
    <3>5. Entitles(attempt[h].session, formOf[h])' /\ Loyal(h)'
      BY <3>1, <3>2, <3>3, <3>4 DEF Entitles, Loyal, Api
    <3> QED BY <3>1, <3>2, <3>3, <3>5 DEF Standing
  <2>9. \A g \in Handlers \ {h} : Aside(g)
    BY <1>0, <2>4, <2>6 DEF TypeOK, Aside
  <2> QED BY <2>7, <2>8, <2>9, AttemptStep DEF Verify, client
<1>3. CASE ~Accepted(h)
  <2>1. TypeOK'
    BY <1>0, <1>3 DEF Verify, Finish, TypeOK, formVars, client, upstream, Outcomes
  <2>2. Standing(h)'
    BY <1>0, <1>3
       DEF Verify, Finish, Standing, Loyal, Entitles, Api, TypeOK, formVars, client
  <2>3. \A g \in Handlers \ {h} : Aside(g)
    BY <1>0, <1>3 DEF Verify, Finish, TypeOK, Aside
  <2> QED BY <2>1, <2>2, <2>3, AttemptStep DEF Verify, client
<1> QED BY <1>2, <1>3

(* The request of an attempt, and so the worth of its answer, do not change after Verify. *)
LEMMA AnswerStands ==
  ASSUME TypeOK, NEW h \in Handlers, Standing(h), UNCHANGED <<formVars, upstream>>,
         attempt'[h] = attempt[h], pc[h] \in {"reply", "list", "answered"}, answer[h] = "ok"
  PROVE  (Stored(formOf[h]) = {<<formOf[h], Request(h)>>})'
<1>1. Stored(formOf[h]) = {<<formOf[h], Request(h)>>}
  BY DEF Standing
<1> QED BY <1>1 DEF Stored, Request, formVars, upstream

(* The reply is looked at, and a 2xx goes on to the fragment. *)
LEMMA ReplySteps ==
  ASSUME IInv, NEW h \in Handlers, Receive(h) \/ List(h) \/ ListFails(h) \/ BadReply(h)
  PROVE  IInv'
<1>0. TypeOK /\ Standing(h)
  BY DEF IInv
<1>1. /\ UNCHANGED <<formVars, client, attempt, upstream, late, revealed, sent>>
      /\ faults' \in 0..MaxFaults
      /\ pc[h] \in {"reply", "list"}
      /\ \E p \in {"list", "answered"} : pc' = [pc EXCEPT ![h] = p]
      /\ \E a \in Outcomes : answer' = [answer EXCEPT ![h] = a]
      /\ pc'[h] = "list" => answer'[h] = "ok"
      /\ answer'[h] = "ok" => answer[h] = "ok"
  <2>1. answer[h] \in Outcomes /\ faults \in 0..MaxFaults
        /\ pc \in [Handlers -> {"idle", "verify", "call", "reply", "list", "answered"}]
        /\ answer \in [Handlers -> Outcomes]
    BY <1>0 DEF TypeOK
  <2>2. CASE Receive(h)
    BY <2>1, <2>2 DEF Receive, Finish
  <2>3. CASE List(h)
    BY <1>0, <2>1, <2>3 DEF List, Finish, Standing, Outcomes
  <2>4. CASE ListFails(h)
    <3>1. faults' \in 0..MaxFaults
      BY <2>1, <2>4, MutationAssumption DEF ListFails, Fault
    <3>2. PICK a \in {"ok", "list_failed"} : Finish(h, a)
      BY <2>4 DEF ListFails
    <3> QED BY <1>0, <2>1, <2>4, <3>1, <3>2 DEF ListFails, Finish, Standing, Outcomes
  <2>5. CASE BadReply(h)
    BY <2>1, <2>5, MutationAssumption DEF BadReply, Fault, Finish, Outcomes
  <2> QED BY <2>2, <2>3, <2>4, <2>5
<1>2. TypeOK'
  BY <1>0, <1>1 DEF TypeOK, formVars, client, upstream
<1>3. Standing(h)'
  <2>1. UNCHANGED <<kind, formOf, owner, live, attempt>> /\ pc'[h] \in {"list", "answered"}
    BY <1>0, <1>1 DEF TypeOK, formVars, client
  <2>2. (Entitles(attempt[h].session, formOf[h]) /\ Loyal(h))'
    BY <1>0, <1>1, <2>1 DEF Standing, Entitles, Loyal, Api
  <2>3. answer'[h] = "ok" => (Stored(formOf[h]) = {<<formOf[h], Request(h)>>})'
    BY <1>0, <1>1, AnswerStands
  <2> QED BY <1>0, <1>1, <2>1, <2>2, <2>3 DEF Standing
<1>4. \A g \in Handlers \ {h} : Aside(g)
  BY <1>0, <1>1 DEF TypeOK, Aside
<1> QED BY <1>1, <1>2, <1>3, <1>4, AttemptStep DEF client

(* A response nobody sees. *)
LEMMA IgnoreStep ==
  ASSUME IInv, NEW h \in Handlers, Ignore(h)
  PROVE  IInv'
<1>0. TypeOK /\ Standing(h)
  BY DEF IInv
<1>1. TypeOK'
  BY <1>0, NoAttemptType DEF Ignore, Free, TypeOK, formVars, client, upstream, Outcomes
<1>2. Standing(h)'
  BY <1>0 DEF Ignore, Free, Standing, TypeOK
<1>3. \A g \in Handlers \ {h} : Aside(g)
  BY <1>0 DEF Ignore, Free, TypeOK, Aside
<1> QED BY <1>1, <1>2, <1>3, AttemptStep DEF Ignore, client

(* A response arrives: a success replaces rows, and shows its secret. *)
LEMMA DeliverStep ==
  ASSUME IInv, NEW h \in Handlers, Deliver(h)
  PROVE  IInv'
<1>0. TypeOK /\ Standing(h) /\ formOf[h] \in Forms /\ answer[h] \in Outcomes
  BY DEF IInv, TypeOK
<1>1. UNCHANGED <<kind, formOf, owner, org, client, upstream, late, sent, faults>> /\ Free(h)
  BY DEF Deliver
<1>2. /\ present' \in [Forms -> BOOLEAN] /\ displaced' \subseteq Forms /\ revealed' \subseteq Forms
      /\ \A g \in Forms : present'[g] => present[g]
      /\ displaced \subseteq displaced' /\ revealed \subseteq revealed'
      /\ \A g \in Forms \ {formOf[h]} : present[g] => present'[g] \/ g \in displaced'
      /\ Secret(formOf[h]) /\ present[formOf[h]] =>
           present'[formOf[h]] \/ formOf[h] \in revealed'
  <2>1. CASE Success(h)
    <3>1. answer[h] = "ok"
      BY <1>0, <2>1 DEF Success, Outcomes
    <3>2. Replaced(formOf[h]) \subseteq Forms
      BY DEF Replaced
    <3>3. /\ present' = [g \in Forms |-> present[g] /\ g \notin Replaced(formOf[h])]
          /\ displaced' = displaced \cup (Replaced(formOf[h]) \ {formOf[h]})
          /\ revealed' = IF Secret(formOf[h]) THEN revealed \cup {formOf[h]} ELSE revealed
      BY <2>1, <3>1 DEF Deliver
    <3>4. present' \in [Forms -> BOOLEAN] /\ displaced' \subseteq Forms /\ revealed' \subseteq Forms
      BY <1>0, <3>2, <3>3 DEF TypeOK
    <3> QED BY <1>0, <3>3, <3>4
  <2>2. CASE ~Success(h)
    BY <1>0, <2>2 DEF Deliver, TypeOK
  <2> QED BY <2>1, <2>2
<1>3. TypeOK'
  BY <1>0, <1>1, <1>2, NoAttemptType DEF Free, TypeOK, client, upstream, Outcomes
<1>4. Stay /\ \A g \in Forms : Recorded(g)'
  BY <1>1, NoCall DEF client
<1>5. ASSUME NEW g \in Forms PROVE Kept(g)'
  <2>1. Kept(g) /\ Secret(g)' = Secret(g) /\ owner' = owner
    BY <1>1 DEF IInv, Secret
  <2> QED BY <1>2, <2>1 DEF Kept
<1>6. ASSUME NEW g \in Handlers PROVE Standing(g)'
  <2>1. CASE g = h
    BY <1>0, <1>1, <2>1 DEF Free, Standing, TypeOK
  <2>2. CASE g # h
    BY <1>0, <1>1, <1>4, <2>2, Frame DEF IInv, Free, Aside, TypeOK
  <2> QED BY <2>1, <2>2
<1>7. ASSUME NEW c \in late' PROVE Entitled(c)'
  BY <1>0, <1>1, <1>4, <1>7, EntitledStays DEF IInv, TypeOK
<1> QED BY <1>3, <1>4, <1>5, <1>6, <1>7 DEF IInv

-----------------------------------------------------------------------------
(* The service executes an attempt's call: its answer is about that very request. *)
LEMMA PerformStep ==
  ASSUME IInv, NEW h \in Handlers, Perform(h)
  PROVE  IInv'
<1>0. TypeOK /\ Standing(h)
  BY DEF IInv
<1>1. PICK admitted \in Verdicts(Call(h)) :
        /\ Execute(Call(h), admitted) /\ pc[h] = "call"
        /\ pc' = [pc EXCEPT ![h] = "reply"]
        /\ answer' = [answer EXCEPT ![h] = Result(Call(h), admitted)]
        /\ UNCHANGED <<formVars, client, attempt, late, revealed, sent, faults>>
  BY DEF Perform
<1>2. Call(h) \in CallType /\ Entitled(Call(h)) /\ Call(h).key = formOf[h]
      /\ Call(h).request = Request(h)
  BY <1>1, CallFacts
<1>3. UNCHANGED <<kind, formOf, owner, org, live>>
  BY <1>1 DEF formVars, client
<1>4. /\ Stay /\ \A f \in Forms : Recorded(f)'
      /\ stored' \in SUBSET (Forms \X RequestType)
      /\ made' \in [Forms -> Nat]
      /\ authors' \in [Forms -> SUBSET (Sessions \X BOOLEAN)]
      /\ Result(Call(h), admitted) = "ok" => Stored(formOf[h])' = {<<formOf[h], Request(h)>>}
  BY <1>1, <1>2, <1>3, ExecuteFacts
<1>5. Result(Call(h), admitted) \in Outcomes
  BY DEF Result, Outcomes
<1>6. TypeOK'
  BY <1>0, <1>1, <1>4, <1>5 DEF TypeOK, formVars, client
<1>7. Standing(h)'
  <2>1. pc'[h] = "reply" /\ answer'[h] = Result(Call(h), admitted) /\ pc[h] # "idle"
    BY <1>0, <1>1 DEF TypeOK
  <2>2. answer'[h] = "ok" => (Stored(formOf[h]) = {<<formOf[h], Request(h)>>})'
    BY <1>1, <1>3, <1>4, <2>1 DEF Stored, Request
  <2>3. attempt' = attempt /\ owner[formOf[h]] # NoSession /\ Loyal(h)
        /\ Entitles(attempt[h].session, formOf[h])
    BY <1>0, <1>1 DEF Standing
  <2>4. (Entitles(attempt[h].session, formOf[h]) /\ Loyal(h))'
    BY <1>3, <2>3 DEF Entitles, Loyal, Api
  <2> QED BY <1>3, <2>1, <2>2, <2>3, <2>4 DEF Standing
<1>8. ASSUME NEW g \in Handlers \ {h} PROVE Standing(g)'
  BY <1>0, <1>1, <1>4, Frame DEF IInv, Aside, TypeOK
<1>9. ASSUME NEW f \in Forms PROVE Kept(f)'
  BY <1>1 DEF IInv, Kept, formVars, Secret
<1>10. ASSUME NEW c \in late' PROVE Entitled(c)'
  BY <1>0, <1>1, <1>4, <1>10, EntitledStays DEF IInv, TypeOK
<1> QED BY <1>4, <1>6, <1>7, <1>8, <1>9, <1>10 DEF IInv

(* What a call nobody awaits any more can still do. *)
LEMMA GiveUpFacts ==
  ASSUME IInv, NEW h \in Handlers, GiveUp(h), UNCHANGED <<kind, formOf, owner, org, live>>
  PROVE  /\ Stay /\ \A f \in Forms : Recorded(f)'
         /\ stored' \in SUBSET (Forms \X RequestType)
         /\ made' \in [Forms -> Nat]
         /\ authors' \in [Forms -> SUBSET (Sessions \X BOOLEAN)]
         /\ late' \in SUBSET CallType
         /\ \A c \in late' : Entitled(c)'
<1>0. TypeOK
  BY DEF IInv
<1>1. CASE pc[h] = "call" /\ (\E admitted \in Verdicts(Call(h)) : Execute(Call(h), admitted))
           /\ UNCHANGED late
  <2>1. Call(h) \in CallType /\ Entitled(Call(h))
    BY <1>1, CallFacts
  <2>2. /\ Stay /\ \A f \in Forms : Recorded(f)'
        /\ stored' \in SUBSET (Forms \X RequestType)
        /\ made' \in [Forms -> Nat]
        /\ authors' \in [Forms -> SUBSET (Sessions \X BOOLEAN)]
    BY <1>1, <2>1, ExecuteFacts
  <2>3. \A c \in late' : Entitled(c)'
    BY <1>0, <1>1, <2>2, EntitledStays DEF IInv, TypeOK
  <2> QED BY <1>0, <1>1, <2>2, <2>3 DEF TypeOK
<1>2. CASE UNCHANGED upstream /\ \/ UNCHANGED late
                                 \/ pc[h] = "call" /\ late' = late \cup {Call(h)}
  <2>1. Stay /\ \A f \in Forms : Recorded(f)'
    BY <1>2, NoCall
  <2>2. pc[h] = "call" => Call(h) \in CallType /\ Entitled(Call(h))
    BY CallFacts
  <2>3. late' \in SUBSET CallType /\ \A c \in late' : Entitled(c)
    BY <1>0, <1>2, <2>2 DEF IInv, TypeOK
  <2>4. \A c \in late' : Entitled(c)'
    BY <1>0, <2>1, <2>3, EntitledStays
  <2> QED BY <1>0, <1>2, <2>1, <2>3, <2>4 DEF TypeOK, upstream
<1> QED BY <1>1, <1>2 DEF GiveUp, upstream

(* The connection is lost, or the handler: what was sent may still run. *)
LEMMA LossSteps ==
  ASSUME IInv, NEW h \in Handlers, Unreachable(h) \/ Drop(h)
  PROVE  IInv'
<1>0. TypeOK
  BY DEF IInv
<1>1. /\ GiveUp(h) /\ pc[h] # "idle" /\ Fault
      /\ UNCHANGED <<formVars, client, revealed, sent>>
      /\ \/ pc' = [pc EXCEPT ![h] = "answered"] /\ answer' = [answer EXCEPT ![h] = "unavailable"]
            /\ attempt' = attempt
         \/ pc' = [pc EXCEPT ![h] = "idle"] /\ answer' = [answer EXCEPT ![h] = "none"]
            /\ attempt' = [attempt EXCEPT ![h] = NoAttempt]
  BY DEF Unreachable, Drop, Finish, Free
<1>2. UNCHANGED <<kind, formOf, owner, org, live>>
  BY <1>1 DEF formVars, client
<1>3. /\ Stay /\ \A f \in Forms : Recorded(f)'
      /\ stored' \in SUBSET (Forms \X RequestType)
      /\ made' \in [Forms -> Nat]
      /\ authors' \in [Forms -> SUBSET (Sessions \X BOOLEAN)]
      /\ late' \in SUBSET CallType
      /\ \A c \in late' : Entitled(c)'
  BY <1>1, <1>2, GiveUpFacts
<1>4. TypeOK'
  <2>1. faults' \in 0..MaxFaults
    BY <1>0, <1>1, MutationAssumption DEF TypeOK, Fault
  <2>2. /\ pc' \in [Handlers -> {"idle", "verify", "call", "reply", "list", "answered"}]
        /\ answer' \in [Handlers -> Outcomes] /\ attempt' \in [Handlers -> AttemptType]
    BY <1>0, <1>1, NoAttemptType DEF TypeOK, Outcomes
  <2> QED BY <1>0, <1>1, <1>3, <2>1, <2>2 DEF TypeOK, formVars, client
<1>5. Standing(h)'
  BY <1>0, <1>1, <1>2 DEF IInv, Standing, Loyal, Entitles, Api, TypeOK
<1>6. ASSUME NEW g \in Handlers \ {h} PROVE Standing(g)'
  BY <1>0, <1>1, <1>3, Frame DEF IInv, Aside, TypeOK
<1>7. ASSUME NEW f \in Forms PROVE Kept(f)'
  BY <1>1 DEF IInv, Kept, formVars, Secret
<1> QED BY <1>3, <1>4, <1>5, <1>6, <1>7 DEF IInv

(* A call left behind runs. *)
LEMMA LateCallStep ==
  ASSUME IInv, NEW c \in late, LateCall(c)
  PROVE  IInv'
<1>0. TypeOK /\ c \in CallType /\ Entitled(c)
  BY DEF IInv, TypeOK
<1>1. PICK admitted \in Verdicts(c) :
        /\ Execute(c, admitted) /\ late' = late \ {c}
        /\ UNCHANGED <<formVars, client, pc, attempt, answer, revealed, sent, faults>>
  BY DEF LateCall
<1>2. UNCHANGED <<kind, formOf, owner, org, live>>
  BY <1>1 DEF formVars, client
<1>3. /\ Stay /\ \A f \in Forms : Recorded(f)'
      /\ stored' \in SUBSET (Forms \X RequestType)
      /\ made' \in [Forms -> Nat]
      /\ authors' \in [Forms -> SUBSET (Sessions \X BOOLEAN)]
  BY <1>0, <1>1, <1>2, ExecuteFacts
<1>4. TypeOK'
  BY <1>0, <1>1, <1>3 DEF TypeOK, formVars, client
<1>5. ASSUME NEW g \in Handlers PROVE Standing(g)'
  BY <1>0, <1>1, <1>3, Frame DEF IInv, Aside
<1>6. ASSUME NEW f \in Forms PROVE Kept(f)'
  BY <1>1 DEF IInv, Kept, formVars, Secret
<1>7. ASSUME NEW d \in late' PROVE Entitled(d)'
  BY <1>0, <1>1, <1>3, <1>7, EntitledStays DEF IInv, TypeOK
<1> QED BY <1>3, <1>4, <1>5, <1>6, <1>7 DEF IInv

(* The invariant is inductive. *)
LEMMA NextIInv == IInv /\ [Next]_vars => IInv'
<1> SUFFICES ASSUME IInv, [Next]_vars PROVE IInv'
  OBVIOUS
<1>1. ASSUME NEW h \in Handlers, Handle(h) PROVE IInv'
  BY <1>1, VerifyStep, PerformStep, ReplySteps, DeliverStep, IgnoreStep DEF Handle
<1>2. ASSUME NEW h \in Handlers,
             Submit(h) \/ ListFails(h) \/ BadReply(h) \/ Unreachable(h) \/ Drop(h)
      PROVE  IInv'
  BY <1>2, SubmitStep, ReplySteps, LossSteps
<1>3. CASE UNCHANGED vars
  <2>1. UNCHANGED <<formVars, client, pc, attempt, answer, upstream, late, revealed, sent, faults>>
    BY <1>3 DEF vars
  <2>2. TypeOK'
    BY <2>1 DEF IInv, TypeOK, formVars, client, upstream
  <2>3. Stay /\ \A f \in Forms : Recorded(f)'
    BY <2>1, NoCall DEF formVars, client
  <2>4. ASSUME NEW g \in Handlers PROVE Standing(g)'
    BY <2>1, <2>3, Frame DEF IInv, Aside
  <2>5. ASSUME NEW f \in Forms PROVE Kept(f)'
    BY <2>1 DEF IInv, Kept, formVars, Secret
  <2>6. ASSUME NEW c \in late' PROVE Entitled(c)'
    BY <2>1, <2>3, <2>6, EntitledStays DEF IInv, TypeOK
  <2> QED BY <2>2, <2>3, <2>4, <2>5, <2>6 DEF IInv
<1> QED BY <1>1, <1>2, <1>3, RenderStep, LateCallStep, MoveStep, NavigateStep DEF Next

-----------------------------------------------------------------------------
(* The inductive invariant holds in every reachable state. *)
THEOREM Invariance == Spec => []IInv
<1> QED BY InitIInv, NextIInv, PTL DEF Spec

(* Every variable stays in its domain. *)
THEOREM TypeCorrect == Spec => []TypeOK
<1>1. IInv => TypeOK
  BY DEF IInv
<1> QED BY <1>1, Invariance, PTL

(* However often a form is submitted, and whatever outlives its handler, it takes effect once. *)
THEOREM OneEffect == Spec => []OneEffectPerForm
<1>1. IInv => OneEffectPerForm
  <2>1. \A n \in {0, 1} : n <= 1
    OBVIOUS
  <2>2. IInv => \A f \in Forms : made[f] \in {0, 1}
    BY DEF IInv, Recorded
  <2> QED BY <2>1, <2>2 DEF OneEffectPerForm
<1> QED BY <1>1, Invariance, PTL

(***************************************************************************)
(* What takes effect was accepted for the account the form was rendered    *)
(* for, and with a form of a page for the very session of the page.        *)
(***************************************************************************)
THEOREM OwnersEffect == Spec => []EffectByFormOwner
<1>1. IInv => EffectByFormOwner
  BY DEF IInv, Recorded, Entitles, EffectByFormOwner
<1> QED BY <1>1, Invariance, PTL

(* A success is about the request that was submitted. *)
THEOREM SuccessTold == Spec => []SuccessIsTrue
<1>1. IInv => SuccessIsTrue
  BY DEF IInv, Standing, SuccessIsTrue
<1> QED BY <1>1, Invariance, PTL

(* A secret that was issued and not shown keeps its form, unless the page lost it otherwise. *)
THEOREM SecretKept == Spec => []SecretRecoverable
<1>1. IInv => SecretRecoverable
  <2> SUFFICES ASSUME IInv, NEW f \in Forms, Secret(f), made[f] > 0, f \notin revealed
               PROVE  present[f] \/ f \in displaced
    BY DEF SecretRecoverable
  <2>1. made[f] # 0 /\ Recorded(f) /\ Kept(f)
    BY DEF IInv, TypeOK
  <2> QED BY <2>1 DEF Recorded, Kept
<1> QED BY <1>1, Invariance, PTL

-----------------------------------------------------------------------------
(***************************************************************************)
(* Where a request comes from.  What an attempt waits to send, what was    *)
(* left behind and what a service has recorded was filled in and submitted *)
(* with the form, passed the handler's checks, and carries no time unless  *)
(* it is a manual run.                                                     *)
(***************************************************************************)
Genuine(f, q) ==
  /\ q.org = org[f]
  /\ q.content \in sent[f] \cap ValidContents
  /\ ~Stamped(f) => q.stamp = NoAttempt.stamp
  /\ Service(f) \in Configured
  /\ \E h \in Handlers : formOf[h] = f

Traceable(h) ==
  /\ pc[h] # "idle" => attempt[h].content \in sent[formOf[h]]
  /\ pc[h] = "verify" => attempt[h].stamp = NoAttempt.stamp
  /\ pc[h] = "call" => Genuine(formOf[h], Request(h))

Provenance ==
  /\ \A s \in stored : Genuine(s[1], s[2])
  /\ \A c \in late : Genuine(c.form, c.request)
  /\ \A h \in Handlers : Traceable(h)

(* Forms keep their owners and the service its records, whatever happens. *)
LEMMA StayStep == IInv /\ [Next]_vars => Stay
<1> SUFFICES ASSUME IInv, [Next]_vars PROVE Stay
  OBVIOUS
<1>1. ASSUME NEW h \in Handlers, Perform(h) PROVE Stay
  BY <1>1, CallFacts, ExecuteFacts DEF Perform, formVars, client
<1>2. ASSUME NEW h \in Handlers, Unreachable(h) \/ Drop(h) PROVE Stay
  BY <1>2, GiveUpFacts DEF Unreachable, Drop, formVars, client
<1>3. ASSUME NEW c \in late, LateCall(c) PROVE Stay
  BY <1>3, ExecuteFacts DEF LateCall, formVars, client, IInv, TypeOK
<1>4. ASSUME NEW f \in Forms, Render(f) PROVE Stay
  <2>1. \A g \in Forms : owner[g] # NoSession => owner'[g] = owner[g]
    BY <1>4 DEF Render, IInv, TypeOK
  <2> QED BY <1>4, <2>1, NoCall DEF Render, client
<1>5. ASSUME NEW h \in Handlers,
             \/ Submit(h) \/ Verify(h) \/ Receive(h) \/ List(h) \/ Deliver(h) \/ Ignore(h)
             \/ ListFails(h) \/ BadReply(h)
      PROVE  Stay
  <2>1. UNCHANGED <<upstream, formOf, kind, org, owner, live>>
    BY <1>5 DEF Submit, Verify, Receive, List, Deliver, Ignore, ListFails, BadReply, formVars, client
  <2> QED BY <2>1, NoCall
<1>6. CASE Switch \/ Expire \/ Leave \/ Navigate \/ UNCHANGED vars
  <2>1. UNCHANGED <<upstream, formOf, kind, org, owner>> /\ live' \subseteq live
    BY <1>6 DEF Switch, Expire, Leave, Navigate, formVars, client, vars
  <2> QED BY <2>1, NoCall
<1> QED BY <1>1, <1>2, <1>3, <1>4, <1>5, <1>6 DEF Next, Handle

(* What was submitted stays submitted. *)
LEMMA SentGrows ==
  ASSUME IInv, [Next]_vars
  PROVE  \A f \in Forms : sent[f] \subseteq sent'[f]
<1>1. ASSUME NEW h \in Handlers, Submit(h) PROVE \A f \in Forms : sent[f] \subseteq sent'[f]
  BY <1>1 DEF Submit, IInv, TypeOK
<1>2. (\E h \in Handlers : Submit(h)) \/ sent' = sent
  BY DEF Next, Handle, vars, Render, Verify, Perform, Receive, List, Deliver, Ignore, ListFails,
     BadReply, Unreachable, Drop, LateCall, Switch, Expire, Leave, Navigate
<1> QED BY <1>1, <1>2

(* A genuine request stays genuine. *)
LEMMA GenuineStays ==
  ASSUME IInv, [Next]_vars, NEW f \in Forms, NEW q, Genuine(f, q)
  PROVE  Genuine(f, q)'
<1>1. Stay /\ sent[f] \subseteq sent'[f]
  BY StayStep, SentGrows
<1>2. Service(f)' = Service(f) /\ Stamped(f)' = Stamped(f)
  BY <1>1 DEF Stay, Service, Stamped
<1> QED BY <1>1, <1>2 DEF Genuine, Stay

(* Where the services' records and the calls left behind come from. *)
LEMMA CallsRun ==
  ASSUME IInv, [Next]_vars
  PROVE  /\ \A s \in stored' : \/ s \in stored
                               \/ \E c \in late : s = <<c.key, c.request>>
                               \/ \E h \in Handlers : pc[h] = "call" /\ s = <<formOf[h], Request(h)>>
         /\ \A c \in late' : c \in late \/ \E h \in Handlers : pc[h] = "call" /\ c = Call(h)
<1> DEFINE Source(s) == \/ s \in stored
                        \/ \E c \in late : s = <<c.key, c.request>>
                        \/ \E h \in Handlers : pc[h] = "call" /\ s = <<formOf[h], Request(h)>>
           Left(c) == c \in late \/ \E h \in Handlers : pc[h] = "call" /\ c = Call(h)
<1>1. ASSUME NEW c, NEW admitted, Execute(c, admitted)
      PROVE  \A s \in stored' : s \in stored \/ s = <<c.key, c.request>>
  BY <1>1 DEF Execute, upstream
<1>2. ASSUME NEW h \in Handlers, pc[h] = "call"
      PROVE  <<Call(h).key, Call(h).request>> = <<formOf[h], Request(h)>>
  BY <1>2, CallFacts
<1>3. ASSUME NEW h \in Handlers, Perform(h)
      PROVE  (\A s \in stored' : Source(s)) /\ (\A c \in late' : Left(c))
  BY <1>1, <1>2, <1>3 DEF Perform
<1>4. ASSUME NEW h \in Handlers, Unreachable(h) \/ Drop(h)
      PROVE  (\A s \in stored' : Source(s)) /\ (\A c \in late' : Left(c))
  <2>1. GiveUp(h)
    BY <1>4 DEF Unreachable, Drop
  <2> QED BY <1>1, <1>2, <2>1 DEF GiveUp, upstream
<1>5. ASSUME NEW c \in late, LateCall(c)
      PROVE  (\A s \in stored' : Source(s)) /\ (\A d \in late' : Left(d))
  BY <1>1, <1>5 DEF LateCall
<1>6. CASE UNCHANGED <<stored, late>>
  BY <1>6
<1>7. \/ UNCHANGED <<stored, late>>
      \/ \E h \in Handlers : Perform(h) \/ Unreachable(h) \/ Drop(h)
      \/ \E c \in late : LateCall(c)
  BY DEF Next, Handle, vars, upstream, Render, Submit, Verify, Receive, List, Deliver, Ignore,
     ListFails, BadReply, Switch, Expire, Leave, Navigate
<1> QED BY <1>3, <1>4, <1>5, <1>6, <1>7

(* An attempt that has been submitted, or verified, carries what it should. *)
LEMMA SubmitTraceable ==
  ASSUME IInv, NEW h \in Handlers, Submit(h)
  PROVE  Traceable(h)'
<1>0. TypeOK /\ formOf[h] \in Forms
  BY DEF IInv, TypeOK
<1>1. PICK c \in Contents, s \in Credentials(formOf[h]) :
        /\ attempt' = [attempt EXCEPT ![h] = [NoAttempt EXCEPT !.session = s, !.content = c]]
        /\ sent' = [sent EXCEPT ![formOf[h]] = @ \cup {c}]
  BY SubmittedFacts
<1>2. attempt'[h].content = c /\ attempt'[h].stamp = NoAttempt.stamp
  BY <1>0, <1>1, NoAttemptType DEF TypeOK, AttemptType
<1>3. pc'[h] = "verify" /\ formOf' = formOf /\ c \in sent'[formOf[h]]
  BY <1>0, <1>1 DEF Submit, TypeOK, formVars
<1> QED BY <1>2, <1>3 DEF Traceable

LEMMA VerifyTraceable ==
  ASSUME IInv, NEW h \in Handlers, Verify(h), Traceable(h)
  PROVE  Traceable(h)'
<1>0. /\ TypeOK /\ attempt[h] \in AttemptType /\ formOf[h] \in Forms /\ pc[h] = "verify"
      /\ UNCHANGED <<formVars, client, sent>>
  BY DEF IInv, TypeOK, Verify
<1>1. attempt[h].content \in sent[formOf[h]] /\ attempt[h].stamp = NoAttempt.stamp
  BY <1>0 DEF Traceable
<1>2. CASE Accepted(h)
  <2>1. PICK t \in IF Stamped(formOf[h]) THEN Stamps ELSE {NoAttempt.stamp} :
          attempt' = [attempt EXCEPT ![h].stamp = t, ![h].member =
                        org[formOf[h]] \in orgs[AccountOf[attempt[h].session]]]
    BY <1>2 DEF Verify
  <2>2. attempt'[h].stamp = t /\ attempt'[h].content = attempt[h].content
    BY <1>0, <2>1 DEF TypeOK, AttemptType
  <2>3. ~Stamped(formOf[h]) => t = NoAttempt.stamp
    OBVIOUS
  <2>4. attempt[h].content \in ValidContents /\ Service(formOf[h]) \in Configured
    BY <1>2 DEF Accepted, Valid
  <2>5. /\ formOf' = formOf /\ org' = org /\ sent' = sent
        /\ Service(formOf[h])' = Service(formOf[h]) /\ Stamped(formOf[h])' = Stamped(formOf[h])
    BY <1>0 DEF formVars, Service, Stamped
  <2>6. Request(h)' = [content |-> attempt[h].content, org |-> org[formOf[h]], stamp |-> t]
    BY <2>2, <2>5 DEF Request
  <2>7. Genuine(formOf[h], Request(h))'
    BY <1>1, <2>3, <2>4, <2>5, <2>6 DEF Genuine
  <2>8. pc'[h] = "call"
    BY <1>0, <1>2 DEF Verify, TypeOK
  <2> QED BY <1>1, <2>2, <2>5, <2>7, <2>8 DEF Traceable
<1>3. CASE ~Accepted(h)
  <2>1. pc'[h] = "answered" /\ attempt' = attempt /\ formOf' = formOf /\ sent' = sent
    BY <1>0, <1>3 DEF Verify, Finish, TypeOK, formVars
  <2> QED BY <1>1, <2>1 DEF Traceable
<1> QED BY <1>2, <1>3

(* The others have their request already, or none. *)
LEMMA OtherTraceable ==
  ASSUME IInv, [Next]_vars, NEW h \in Handlers, Traceable(h), ~Submit(h), ~Verify(h)
  PROVE  Traceable(h)'
<1>0. TypeOK /\ formOf[h] \in Forms
  BY DEF IInv, TypeOK
<1>1. \/ pc'[h] = "idle"
      \/ attempt'[h] = attempt[h] /\ pc'[h] = pc[h]
      \/ attempt'[h] = attempt[h] /\ pc[h] # "idle" /\ pc'[h] \notin {"verify", "call"}
  <2>1. ASSUME NEW g \in Handlers, Handle(g), g = h => ~Verify(g)
        PROVE  \/ pc'[h] = "idle"
               \/ attempt'[h] = attempt[h] /\ pc'[h] = pc[h]
               \/ attempt'[h] = attempt[h] /\ pc[h] # "idle" /\ pc'[h] \notin {"verify", "call"}
    BY <1>0, <2>1 DEF Handle, Verify, Perform, Receive, List, Deliver, Ignore, Finish, Free, TypeOK
  <2>2. ASSUME NEW g \in Handlers, ListFails(g) \/ BadReply(g) \/ Unreachable(g) \/ Drop(g)
        PROVE  \/ pc'[h] = "idle"
               \/ attempt'[h] = attempt[h] /\ pc'[h] = pc[h]
               \/ attempt'[h] = attempt[h] /\ pc[h] # "idle" /\ pc'[h] \notin {"verify", "call"}
    BY <1>0, <2>2 DEF ListFails, BadReply, Unreachable, Drop, Finish, Free, TypeOK
  <2>3. ASSUME NEW g \in Handlers, Submit(g), g # h
        PROVE  attempt'[h] = attempt[h] /\ pc'[h] = pc[h]
    BY <1>0, <2>3, SubmittedFacts DEF Submit, TypeOK
  <2>4. \/ attempt' = attempt /\ pc' = pc
        \/ \E g \in Handlers :
             \/ Submit(g) \/ Handle(g)
             \/ ListFails(g) \/ BadReply(g) \/ Unreachable(g) \/ Drop(g)
    BY DEF Next, vars, Render, Switch, Expire, Leave, Navigate, LateCall
  <2> QED BY <2>1, <2>2, <2>3, <2>4
<1>2. CASE pc'[h] = "idle"
  BY <1>2 DEF Traceable
<1>3. CASE attempt'[h] = attempt[h] /\ pc[h] # "idle" /\ (pc'[h] = pc[h] \/ pc'[h] \notin {"verify", "call"})
  <2>1. formOf' = formOf /\ org' = org /\ sent[formOf[h]] \subseteq sent'[formOf[h]]
    BY <1>0, StayStep, SentGrows DEF Stay
  <2>2. Request(h)' = Request(h)
    BY <1>3, <2>1 DEF Request
  <2>3. Genuine(formOf[h], Request(h)) => Genuine(formOf[h], Request(h))'
    <3>1. PICK q : q = Request(h)
      OBVIOUS
    <3>2. Genuine(formOf[h], q) => \A f : f = formOf[h] => Genuine(f, q)'
      BY <1>0, GenuineStays
    <3> QED BY <2>1, <2>2, <3>1, <3>2 DEF Genuine
  <2> QED BY <1>3, <2>1, <2>3 DEF Traceable
<1>4. CASE attempt'[h] = attempt[h] /\ pc[h] = "idle" /\ pc'[h] = pc[h]
  BY <1>4 DEF Traceable
<1> QED BY <1>1, <1>2, <1>3, <1>4

LEMMA ProvenanceStep == IInv /\ Provenance /\ [Next]_vars => Provenance'
<1> SUFFICES ASSUME IInv, Provenance, [Next]_vars PROVE Provenance'
  OBVIOUS
<1>0. TypeOK
  BY DEF IInv
<1>1. ASSUME NEW h \in Handlers PROVE Traceable(h)'
  BY <1>1, SubmitTraceable, VerifyTraceable, OtherTraceable DEF Provenance
<1>2. ASSUME NEW h \in Handlers, pc[h] = "call"
      PROVE  /\ Genuine(formOf[h], Request(h))
             /\ Call(h).form = formOf[h] /\ Call(h).request = Request(h) /\ formOf[h] \in Forms
  BY <1>0, <1>2 DEF Provenance, Traceable, Call, TypeOK
<1>3. ASSUME NEW c \in late PROVE Genuine(c.form, c.request) /\ c.key = c.form /\ c.form \in Forms
  BY <1>0, <1>3 DEF Provenance, IInv, Entitled, TypeOK, CallType
<1>4. ASSUME NEW s \in stored' PROVE Genuine(s[1], s[2])'
  <2>1. Genuine(s[1], s[2]) /\ s[1] \in Forms
    <3>1. CASE s \in stored
      BY <1>0, <3>1 DEF Provenance, TypeOK
    <3>2. CASE \E c \in late : s = <<c.key, c.request>>
      BY <1>3, <3>2
    <3>3. CASE \E h \in Handlers : pc[h] = "call" /\ s = <<formOf[h], Request(h)>>
      BY <1>2, <3>3
    <3> QED BY <1>4, <3>1, <3>2, <3>3, CallsRun
  <2> QED BY <2>1, GenuineStays
<1>5. ASSUME NEW c \in late' PROVE Genuine(c.form, c.request)'
  <2>1. Genuine(c.form, c.request) /\ c.form \in Forms
    BY <1>2, <1>3, <1>5, CallsRun
  <2> QED BY <2>1, GenuineStays
<1> QED BY <1>1, <1>4, <1>5 DEF Provenance

(***************************************************************************)
(* Every request that a service has recorded was submitted with its form   *)
(* and accepted by the portal's own checks: no lost, late or repeated call *)
(* brings anything else to a service.                                      *)
(***************************************************************************)
THEOREM RequestsAreGenuine == Spec => []Provenance
<1>1. Init => Provenance
  BY DEF Init, Provenance, Traceable
<1> QED BY <1>1, ProvenanceStep, Invariance, PTL DEF Spec

-----------------------------------------------------------------------------
(***************************************************************************)
(* Liveness.  Handle(h) is enabled when attempt h is somewhere, Submit(h)  *)
(* when it is nowhere and its form is in the page.  tlapm does not reason  *)
(* about ENABLED, so Enabling is a hypothesis where WF is drawn upon.      *)
(***************************************************************************)
Idle(h) == pc[h] = "idle"

Submittable(h) == Idle(h) /\ present[formOf[h]]

EnablingOf(h) ==
  /\ ~Idle(h) => ENABLED <<Handle(h)>>_vars
  /\ Submittable(h) => ENABLED <<Submit(h)>>_vars

Enabling == \A h \in Handlers : EnablingOf(h)

(* Fairness to one attempt, with the guards in place of ENABLED. *)
ServedOf(h) ==
  /\ []<>Idle(h) \/ []<><<Handle(h)>>_vars
  /\ []<>~Submittable(h) \/ []<><<Submit(h)>>_vars

LEMMA FairnessServes == FairSpec /\ []Enabling => \A h \in Handlers : ServedOf(h)
<1>1. ASSUME NEW h \in Handlers PROVE []Enabling => []EnablingOf(h)
  <2>1. Enabling => EnablingOf(h)
    BY DEF Enabling
  <2> QED BY <2>1, PTL
<1>2. ASSUME NEW h \in Handlers PROVE FairTo(h) /\ []EnablingOf(h) => ServedOf(h)
  BY PTL DEF FairTo, EnablingOf, ServedOf
<1>3. FairSpec => \A h \in Handlers : FairTo(h)
  BY DEF FairSpec, Fairness
<1> QED BY <1>1, <1>2, <1>3

(* A secret that was issued and can still be shown: what attempts of its form do. *)
Owed(f) == Secret(f) /\ made[f] > 0

Lost(f) == f \in revealed \/ Spoiled(f)

Of(h, f) == formOf[h] = f

Mine(h) == pc[h] = "verify" /\ attempt[h].session = owner[formOf[h]]

Strange(h) == pc[h] = "verify" /\ attempt[h].session # owner[formOf[h]]

Calling(h) == pc[h] = "call"

Listing(h) == pc[h] = "list"

Shown(h) == pc[h] = "answered" /\ answer[h] = "ok"

Bad(h) == pc[h] = "reply" /\ answer[h] # "ok"

Failed(h) == pc[h] = "answered" /\ answer[h] # "ok"

Replied(h) == pc[h] = "reply" /\ answer[h] = "ok"

(* Without a fault only h's own steps move attempt h. *)
LEMMA CalmSteps ==
  ASSUME NEW h \in Handlers, IInv, [Next]_vars, [faults' = faults]_vars
  PROVE  Submit(h) \/ Handle(h) \/ Aside(h)
<1>0. TypeOK
  BY DEF IInv
<1>1. ASSUME NEW g \in Handlers, g # h, Submit(g) \/ Handle(g) PROVE Aside(h)
  <2>1. CASE Submit(g)
    BY <1>0, <1>1, <2>1, SubmittedFacts DEF Submit, TypeOK, Aside
  <2>2. CASE Handle(g)
    BY <1>0, <1>1, <2>2 DEF Handle, Verify, Perform, Receive, List, Deliver, Ignore, Finish,
                        Free, TypeOK, Aside
  <2> QED BY <1>1, <2>1, <2>2
<1>2. faults' # faults + 1
  <2>1. faults' = faults /\ faults \in Nat
    BY <1>0, MutationAssumption DEF vars, TypeOK
  <2> QED BY <2>1
<1>3. \/ UNCHANGED <<pc, attempt, answer>>
      \/ \E g \in Handlers : Submit(g) \/ Handle(g)
  BY <1>2 DEF Next, vars, Render, Switch, Expire, Leave, Navigate, LateCall, ListFails, BadReply,
          Unreachable, Drop, Fault
<1> QED BY <1>1, <1>3 DEF Aside

(* Secrets that were issued stay issued, and attempts stay with their form. *)
LEMMA OwedStays ==
  ASSUME NEW h \in Handlers, NEW f \in Forms
  PROVE  IInv /\ Of(h, f) /\ Owed(f) /\ [Next]_vars => (Of(h, f) /\ Owed(f))'
<1> SUFFICES ASSUME IInv, Of(h, f), Owed(f), [Next]_vars PROVE (Of(h, f) /\ Owed(f))'
  OBVIOUS
<1>1. Stay /\ IInv' /\ TypeOK
  BY StayStep, NextIInv DEF IInv
<1>2. Stored(f)' # {}
  <2>1. made[f] # 0
    BY <1>1 DEF Owed, TypeOK
  <2>2. Stored(f) # {}
    BY <2>1 DEF IInv, Recorded
  <2> QED BY <1>1, <2>2 DEF Stay
<1>3. made'[f] # 0 /\ made'[f] \in Nat
  BY <1>1, <1>2 DEF IInv, Recorded, TypeOK
<1>4. made'[f] > 0
  BY <1>3
<1>5. Secret(f)' = Secret(f)
  BY <1>1 DEF Stay, Secret
<1> QED BY <1>1, <1>4, <1>5 DEF Of, Owed, Stay

(***************************************************************************)
(* As long as nothing is spoiled there is one request of the form: the one *)
(* the service has recorded, valid, and for a configured service.          *)
(***************************************************************************)
LEMMA OneRequest ==
  ASSUME IInv, Provenance, NEW h \in Handlers, NEW f \in Forms, Of(h, f), Owed(f), ~Spoiled(f)
  PROVE  /\ pc[h] # "idle" => attempt[h].content \in ValidContents
         /\ Service(f) \in Configured
         /\ pc[h] = "call" => Stored(f) = {<<f, Request(h)>>}
<1>1. TypeOK /\ Recorded(f) /\ Traceable(h) /\ formOf[h] = f
  BY DEF IInv, Provenance, Of
<1>2. \A c, d \in sent[f] : c = d
  BY DEF Spoiled
<1>3. PICK s \in Stored(f) : TRUE
  BY <1>1 DEF Owed, Recorded, TypeOK
<1>4. Genuine(f, s[2])
  BY <1>3 DEF Stored, Provenance
<1>5. pc[h] # "idle" => attempt[h].content \in ValidContents
  BY <1>1, <1>2, <1>4 DEF Traceable, Genuine
<1>6. ASSUME pc[h] = "call" PROVE Stored(f) = {<<f, Request(h)>>}
  <2>1. Genuine(f, Request(h)) /\ ~Stamped(f)
    BY <1>1, <1>6 DEF Traceable, Owed, Secret, Stamped
  <2>2. Request(h) \in RequestType
    BY <1>6, CallFacts DEF CallType
  <2>3. ASSUME NEW t \in Stored(f) PROVE t = <<f, Request(h)>>
    <3>1. t = <<f, t[2]>> /\ t[2] \in RequestType /\ Genuine(f, t[2])
      BY <1>1, <2>3 DEF Stored, TypeOK, Provenance
    <3>2. /\ t[2].content = Request(h).content /\ t[2].org = Request(h).org
          /\ t[2].stamp = Request(h).stamp
      BY <1>2, <2>1, <3>1 DEF Genuine
    <3>3. t[2] = Request(h)
      BY <2>2, <3>1, <3>2 DEF RequestType
    <3> QED BY <3>1, <3>3
  <2> QED BY <1>3, <2>3
<1> QED BY <1>4, <1>5, <1>6 DEF Genuine

(* The owed secret of an attempt's form gets shown. *)
OwedShown(h, f) == Of(h, f) /\ Owed(f) => <>Lost(f)

Calm == <>[][faults' = faults]_vars

AttemptShows(h, f) == Spec /\ ServedOf(h) /\ Calm => []OwedShown(h, f)

(* What the steps of an attempt lead to, while the secret is owed. *)
LEMMA AttemptSteps ==
  ASSUME NEW h \in Handlers, NEW f \in Forms, IInv, Provenance, Of(h, f), Owed(f), ~Lost(f)
  PROVE  /\ Idle(h) => Submittable(h)
         /\ Submit(h) => Idle(h) /\ Mine(h)'
         /\ Handle(h) /\ Mine(h) => Calling(h)'
         /\ Handle(h) /\ Calling(h) => Replied(h)'
         /\ Handle(h) /\ Replied(h) => Listing(h)' \/ Shown(h)'
         /\ Handle(h) /\ Listing(h) => Shown(h)'
         /\ Handle(h) /\ Shown(h) => Lost(f)'
         /\ Handle(h) /\ (Strange(h) \/ Bad(h)) => Failed(h)'
         /\ Handle(h) /\ Failed(h) => Idle(h)'
<1>0. /\ TypeOK /\ Standing(h) /\ formOf[h] = f /\ ~Spoiled(f) /\ Recorded(f)
      /\ attempt[h] \in AttemptType
  BY DEF IInv, Of, Lost, TypeOK
<1>1. /\ owner[f] \in live /\ owner[f] \in Sessions /\ present[f]
      /\ org[f] \in orgs[AccountOf[owner[f]]]
  BY <1>0 DEF Spoiled, TypeOK
<1>2. Idle(h) => Submittable(h)
  BY <1>0, <1>1 DEF Submittable
<1>3. pc[h] \in {"call", "list"} => Verdicts(Call(h)) = {TRUE}
  <2>1. pc[h] \in {"call", "list"} => attempt[h].session = owner[f]
    BY <1>0, <1>1 DEF Standing, Loyal, Entitles
  <2>2. Call(h).form = f /\ Call(h).session = attempt[h].session
        /\ Call(h).request.org = org[f]
    BY <1>0 DEF Call, Request
  <2> QED BY <1>1, <2>1, <2>2 DEF Verdicts, Unwelcome
<1>4. ASSUME Submit(h) PROVE Idle(h) /\ Mine(h)'
  <2>1. PICK c \in Contents, s \in Credentials(f) :
          attempt' = [attempt EXCEPT ![h] = [NoAttempt EXCEPT !.session = s, !.content = c]]
    BY <1>0, <1>4, SubmittedFacts
  <2>2. s = owner[f]
    BY <1>0, <1>1 DEF Credentials, Spoiled
  <2>3. attempt'[h].session = owner[f]
    BY <1>0, <2>1, <2>2, NoAttemptType DEF TypeOK, AttemptType
  <2> QED BY <1>0, <1>4, <2>3 DEF Submit, Idle, Mine, TypeOK, formVars
<1>5. ASSUME Handle(h), Mine(h) PROVE Calling(h)'
  <2>1. Verify(h)
    BY <1>5 DEF Handle, Mine, Perform, Receive, List, Deliver, Ignore
  <2>2. Accepted(h)
    BY <1>0, <1>1, <1>5, OneRequest, MutationAssumption
    DEF Accepted, Authentic, Member, Valid, Mine
  <2> QED BY <1>0, <2>1, <2>2 DEF Verify, Calling, TypeOK
<1>6. ASSUME Handle(h), Calling(h) PROVE Replied(h)'
  <2>1. Perform(h)
    BY <1>6 DEF Handle, Calling, Verify, Receive, List, Deliver, Ignore
  <2>2. Verdicts(Call(h)) = {TRUE}
    BY <1>6, <1>3 DEF Calling
  <2>3. Call(h).key = f /\ Call(h).request = Request(h)
    BY <1>0 DEF Call, KeyOf
  <2>4. Stored(f) = {<<f, Request(h)>>}
    BY <1>0, <1>6, OneRequest DEF Calling
  <2>5. Result(Call(h), TRUE) = "ok"
    BY <2>3, <2>4 DEF Result
  <2> QED BY <1>0, <2>1, <2>2, <2>5 DEF Perform, Replied, TypeOK
<1>7. Handle(h) /\ Replied(h) => Listing(h)' \/ Shown(h)'
  BY <1>0 DEF Handle, Verify, Perform, Receive, List, Deliver, Ignore, Finish, Replied, Listing,
              Shown, TypeOK
<1>8. Handle(h) /\ Listing(h) => Shown(h)'
  BY <1>0, <1>3 DEF Handle, Verify, Perform, Receive, List, Deliver, Ignore, Finish, Listing, Shown,
              TypeOK
<1>9. ASSUME Handle(h), Shown(h) PROVE Lost(f)'
  <2>1. Deliver(h)
    BY <1>0, <1>1, <1>9 DEF Handle, Shown, Verify, Perform, Receive, List, Ignore
  <2> QED BY <1>0, <1>9, <2>1 DEF Deliver, Shown, Success, Owed, Lost
<1>10. Handle(h) /\ (Strange(h) \/ Bad(h)) => Failed(h)'
  <2>1. Strange(h) => ~Accepted(h)
    BY <1>0, <1>1 DEF Strange, Accepted, Authentic, Standing, Loyal
  <2> QED BY <1>0, <2>1 DEF Handle, Verify, Perform, Receive, List, Deliver, Ignore, Finish, Strange,
                            Bad, Failed, TypeOK
<1>11. Handle(h) /\ Failed(h) => Idle(h)'
  BY <1>0 DEF Handle, Verify, Perform, Receive, List, Deliver, Ignore, Free, Failed, Idle, TypeOK
<1> QED BY <1>2, <1>4, <1>5, <1>6, <1>7, <1>8, <1>9, <1>10, <1>11

(***************************************************************************)
(* From some point on without faults, the attempts of a form whose secret  *)
(* is owed go from stage to stage, and the answer of one shows the secret. *)
(***************************************************************************)
LEMMA AttemptsShow ==
  ASSUME NEW h \in Handlers, NEW f \in Forms
  PROVE  AttemptShows(h, f)
<1>1. IInv => \/ Idle(h) \/ Mine(h) \/ Strange(h) \/ Calling(h) \/ Replied(h) \/ Bad(h)
              \/ Listing(h) \/ Shown(h) \/ Failed(h)
  BY DEF IInv, TypeOK, Idle, Mine, Strange, Calling, Replied, Bad, Listing, Shown, Failed
<1>2. Idle(h) => ~(Mine(h) \/ Strange(h) \/ Calling(h) \/ Replied(h) \/ Bad(h) \/ Listing(h)
                    \/ Shown(h) \/ Failed(h))
  BY DEF Idle, Mine, Strange, Calling, Replied, Bad, Listing, Shown, Failed
<1>3. IInv /\ Of(h, f) /\ Owed(f) /\ [Next]_vars => (Of(h, f) /\ Owed(f))'
  BY OwedStays
<1>4. IInv /\ [Next]_vars /\ [faults' = faults]_vars =>
        \/ Submit(h) \/ Handle(h)
        \/ /\ Idle(h) => Idle(h)'
           /\ Mine(h) => Mine(h)'
           /\ Strange(h) => Strange(h)'
           /\ Calling(h) => Calling(h)'
           /\ Replied(h) => Replied(h)'
           /\ Bad(h) => Bad(h)'
           /\ Listing(h) => Listing(h)'
           /\ Shown(h) => Shown(h)'
           /\ Failed(h) => Failed(h)'
  <2> SUFFICES ASSUME IInv, [Next]_vars, Aside(h)
               PROVE  /\ Idle(h) => Idle(h)'
                      /\ Mine(h) => Mine(h)'
                      /\ Strange(h) => Strange(h)'
                      /\ Calling(h) => Calling(h)'
                      /\ Replied(h) => Replied(h)'
                      /\ Bad(h) => Bad(h)'
                      /\ Listing(h) => Listing(h)'
                      /\ Shown(h) => Shown(h)'
                      /\ Failed(h) => Failed(h)'
    BY CalmSteps
  <2>1. pc[h] # "idle" => owner'[formOf'[h]] = owner[formOf[h]]
    BY StayStep DEF Stay, IInv, Standing, TypeOK
  <2> QED
    BY <2>1 DEF Aside, Idle, Mine, Strange, Calling, Replied, Bad, Listing, Shown, Failed
<1>5. IInv /\ Provenance /\ Of(h, f) /\ Owed(f) =>
        \/ Lost(f)
        \/ /\ Idle(h) => Submittable(h)
           /\ Submit(h) => Idle(h) /\ Mine(h)'
           /\ Handle(h) /\ Mine(h) => Calling(h)'
           /\ Handle(h) /\ Calling(h) => Replied(h)'
           /\ Handle(h) /\ Replied(h) => Listing(h)' \/ Shown(h)'
           /\ Handle(h) /\ Listing(h) => Shown(h)'
           /\ Handle(h) /\ Shown(h) => Lost(f)'
           /\ Handle(h) /\ (Strange(h) \/ Bad(h)) => Failed(h)'
           /\ Handle(h) /\ Failed(h) => Idle(h)'
  BY AttemptSteps
<1>6. Handle(h) => ~Idle(h)
  BY DEF Handle, Verify, Perform, Receive, List, Deliver, Ignore, Idle
<1> DEFINE Pending == Of(h, f) /\ Owed(f) /\ ~Lost(f)
           Still == []IInv /\ []Provenance /\ [][Next]_vars /\ [][faults' = faults]_vars
                    /\ []Pending /\ ServedOf(h)
<1>7. Still => (Mine(h) ~> Calling(h)) /\ (Calling(h) ~> Replied(h))
  BY <1>2, <1>4, <1>5, PTL DEF ServedOf
<1>8. Still => (Replied(h) ~> Listing(h) \/ Shown(h)) /\ (Listing(h) ~> Shown(h))
  BY <1>2, <1>4, <1>5, PTL DEF ServedOf
<1>9. Still => []~Shown(h)
  BY <1>2, <1>4, <1>5, PTL DEF ServedOf
<1>10. Still => (Strange(h) \/ Bad(h) ~> Failed(h)) /\ (Failed(h) ~> Idle(h))
  BY <1>2, <1>4, <1>5, PTL DEF ServedOf
<1>11. Still => (Idle(h) ~> Mine(h))
  BY <1>4, <1>5, <1>6, PTL DEF ServedOf
<1>12. ~Still
  BY <1>1, <1>7, <1>8, <1>9, <1>10, <1>11, PTL
<1> QED
  BY <1>3, <1>12, Invariance, RequestsAreGenuine, PTL
  DEF Spec, ServedOf, Calm, OwedShown, AttemptShows

(***************************************************************************)
(* A client that submits the same form until it is answered sees the       *)
(* secret that was issued, once faults have stopped, unless the form, the  *)
(* very session it was rendered for or its membership is gone or its       *)
(* fields were changed: the key in the form replays the answer of the      *)
(* attempt that issued it.                                                 *)
(***************************************************************************)
THEOREM SecretsAreShown ==
  FairSpec /\ []Enabling /\ <>[][faults' = faults]_vars => SecretEventuallyShown
<1>1. ASSUME NEW f \in Forms
      PROVE  Spec /\ (\A h \in Handlers : ServedOf(h)) /\ Calm
             => ((Secret(f) /\ made[f] > 0) ~> (f \in revealed \/ Spoiled(f)))
  <2>1. ASSUME NEW h \in Handlers PROVE AttemptShows(h, f)
    BY AttemptsShow
  <2>2. Spec /\ (\A h \in Handlers : ServedOf(h)) /\ Calm => \A h \in Handlers : []OwedShown(h, f)
    BY <2>1 DEF AttemptShows
  <2>3. (\A h \in Handlers : []OwedShown(h, f)) => [](\A h \in Handlers : OwedShown(h, f))
    OBVIOUS
  <2>4. (\A h \in Handlers : OwedShown(h, f))
        => ((\E h \in Handlers : Of(h, f)) /\ Owed(f) => <>Lost(f))
    BY DEF OwedShown
  <2>5. IInv /\ Provenance /\ Owed(f) => \E h \in Handlers : Of(h, f)
    <3> SUFFICES ASSUME IInv, Provenance, Owed(f) PROVE \E h \in Handlers : Of(h, f)
      OBVIOUS
    <3>1. made[f] # 0
      BY DEF IInv, TypeOK, Owed
    <3>2. PICK s \in Stored(f) : TRUE
      BY <3>1 DEF IInv, Recorded
    <3>3. Genuine(f, s[2])
      BY <3>2 DEF Provenance, Stored
    <3> QED BY <3>3 DEF Genuine, Of
  <2>6. /\ Owed(f) <=> Secret(f) /\ made[f] > 0
        /\ Lost(f) <=> f \in revealed \/ Spoiled(f)
    BY DEF Owed, Lost
  <2> QED BY <2>2, <2>3, <2>4, <2>5, <2>6, Invariance, RequestsAreGenuine, PTL
<1> QED BY <1>1, FairnessServes DEF FairSpec, Calm, SecretEventuallyShown

-----------------------------------------------------------------------------
(***************************************************************************)
(* The refinement of OncePerForm: every step lets one form be rendered,    *)
(* submitted, take effect or be shown, or is none of the user's business.  *)
(***************************************************************************)
promised == <<owner, sent, stored, made, authors, revealed>>

LEMMA PromisedStutter == UNCHANGED promised => UNCHANGED Promise!vars
BY DEF promised, Promise!vars, Record, Stored, For

(* A call that runs lets its form take effect, unless it is refused or known. *)
LEMMA ExecutePromise ==
  ASSUME IInv, NEW c \in CallType, Entitled(c), Genuine(c.form, c.request),
         NEW admitted, Execute(c, admitted), UNCHANGED <<owner, sent, revealed>>
  PROVE  [Promise!Next]_(Promise!vars)
<1>0. TypeOK /\ \A f \in Forms : Recorded(f)
  BY DEF IInv
<1>1. CASE admitted /\ Stored(c.key) = {}
  <2>0. PICK f \in Forms : f = c.key /\ f = c.form
    BY DEF CallType, Entitled
  <2>1. /\ stored' = stored \cup {<<f, c.request>>}
        /\ made' = [made EXCEPT ![f] = @ + 1]
        /\ authors' = [authors EXCEPT ![f] = @ \cup {<<c.session, TRUE>>}]
    BY <1>1, <2>0 DEF Execute, Entitled, CallType
  <2>2. made[f] = 0 /\ authors[f] = {}
    BY <1>0, <1>1, <2>0 DEF Recorded
  <2>3. /\ made' = [made EXCEPT ![f] = 1]
        /\ authors'[f] = {<<c.session, TRUE>>}
        /\ \A g \in Forms \ {f} : authors'[g] = authors[g]
    BY <1>0, <2>1, <2>2 DEF TypeOK
  <2>4. Stored(f)' = {<<f, c.request>>} /\ \A g \in Forms \ {f} : Stored(g)' = Stored(g)
    BY <1>1, <2>0, <2>1 DEF Stored
  <2>5. AccountOf[c.session] = For(f) /\ \A g : For(g)' = For(g)
    BY <2>0 DEF Entitled, Entitles, For
  <2>6. Record(f)' = {<<For(f), c.request.content>>}
        /\ \A g \in Forms \ {f} : Record(g)' = Record(g)
    BY <2>3, <2>4, <2>5 DEF Record
  <2>7. [g \in Forms |-> Record(g)]'
          = [[g \in Forms |-> Record(g)] EXCEPT ![f] = {<<For(f), c.request.content>>}]
    BY <2>6
  <2>8. c.request.content \in sent[f] /\ c.request.content \in ValidContents
    BY <2>0 DEF Genuine
  <2>9. Promise!TakeEffect(f, c.request.content)
    BY <2>2, <2>3, <2>5, <2>7, <2>8 DEF Promise!TakeEffect
  <2> QED BY <2>8, <2>9 DEF Promise!Next
<1>2. CASE ~(admitted /\ Stored(c.key) = {})
  BY <1>2, PromisedStutter DEF Execute, upstream, promised
<1> QED BY <1>1, <1>2

LEMMA PromiseStep ==
  ASSUME IInv, Provenance, [Next]_vars
  PROVE  [Promise!Next]_(Promise!vars)
<1>0. TypeOK
  BY DEF IInv
<1>1. CASE UNCHANGED promised
  BY <1>1, PromisedStutter DEF promised
<1>2. ASSUME NEW h \in Handlers, pc[h] = "call", NEW admitted, Execute(Call(h), admitted),
             UNCHANGED <<owner, sent, revealed>>
      PROVE  [Promise!Next]_(Promise!vars)
  <2>1. Genuine(Call(h).form, Call(h).request)
    BY <1>2 DEF Call, Provenance, Traceable
  <2> QED BY <1>2, <2>1, CallFacts, ExecutePromise
<1>3. ASSUME NEW h \in Handlers, Perform(h) \/ Unreachable(h) \/ Drop(h)
      PROVE  [Promise!Next]_(Promise!vars)
  <2>1. UNCHANGED <<owner, sent, revealed>>
    BY <1>3 DEF Perform, Unreachable, Drop, formVars
  <2>2. \/ pc[h] = "call" /\ (\E admitted \in Verdicts(Call(h)) : Execute(Call(h), admitted))
        \/ UNCHANGED upstream
    BY <1>3 DEF Perform, Unreachable, Drop, GiveUp, upstream
  <2> QED BY <1>1, <1>2, <2>1, <2>2 DEF promised, upstream
<1>4. ASSUME NEW c \in late, LateCall(c)
      PROVE  [Promise!Next]_(Promise!vars)
  BY <1>0, <1>4, ExecutePromise DEF LateCall, formVars, IInv, Provenance, TypeOK
<1>5. ASSUME NEW f \in Forms, Render(f)
      PROVE  [Promise!Next]_(Promise!vars)
  <2>1. UNCHANGED <<sent, stored, made, authors, revealed>>
    BY <1>5 DEF Render, upstream
  <2>2. [g \in Forms |-> Record(g)]' = [g \in Forms |-> Record(g)]
    BY <2>1 DEF Record, Stored
  <2>3. cookie \in Sessions /\ AccountOf[cookie] \in Accounts /\ cookie # NoSession
    BY <1>0, <1>5, MutationAssumption DEF Render, TypeOK
  <2>4. owner[f] = NoSession /\ owner' = [owner EXCEPT ![f] = cookie]
    BY <1>5 DEF Render
  <2>5. For(f) = NoAccount /\ For(f)' = AccountOf[cookie]
        /\ \A g \in Forms \ {f} : For(g)' = For(g)
    BY <1>0, <2>3, <2>4 DEF For, TypeOK
  <2>6. [g \in Forms |-> For(g)]' = [[g \in Forms |-> For(g)] EXCEPT ![f] = AccountOf[cookie]]
    BY <2>5
  <2>7. Promise!Render(f, AccountOf[cookie])
    BY <2>1, <2>2, <2>5, <2>6 DEF Promise!Render
  <2> QED BY <2>3, <2>7 DEF Promise!Next
<1>6. ASSUME NEW h \in Handlers, Submit(h)
      PROVE  [Promise!Next]_(Promise!vars)
  <2>1. UNCHANGED <<owner, stored, made, authors, revealed>>
    BY <1>6 DEF Submit, formVars, upstream
  <2>2. [g \in Forms |-> Record(g)]' = [g \in Forms |-> Record(g)]
    BY <2>1 DEF Record, Stored
  <2>3. PICK c \in Contents : sent' = [sent EXCEPT ![formOf[h]] = @ \cup {c}]
    BY <1>6, SubmittedFacts
  <2>4. formOf[h] \in Forms /\ For(formOf[h]) # NoAccount
    BY <1>0, <1>6, MutationAssumption DEF Submit, IInv, Kept, TypeOK, For
  <2>5. Promise!Submit(formOf[h], c)
    BY <2>1, <2>2, <2>3, <2>4 DEF Promise!Submit, For
  <2> QED BY <2>1, <2>4, <2>5 DEF Promise!Next
<1>7. ASSUME NEW h \in Handlers, Deliver(h)
      PROVE  [Promise!Next]_(Promise!vars)
  <2>1. UNCHANGED <<owner, sent, stored, made, authors>>
    BY <1>7 DEF Deliver, upstream
  <2>2. CASE revealed' = revealed
    BY <1>1, <2>1, <2>2 DEF promised
  <2>3. CASE revealed' # revealed
    <3>1. /\ pc[h] = "answered" /\ answer[h] = "ok" /\ formOf[h] \in Forms
          /\ revealed' = revealed \cup {formOf[h]}
      BY <1>0, <1>7, <2>3 DEF Deliver, Success, TypeOK
    <3>2. made[formOf[h]] = 1
      BY <3>1 DEF IInv, Standing, Recorded
    <3>3. [g \in Forms |-> Record(g)]' = [g \in Forms |-> Record(g)]
      BY <2>1 DEF Record, Stored
    <3>4. Promise!Show(formOf[h])
      BY <2>1, <3>1, <3>2, <3>3 DEF Promise!Show, For
    <3> QED BY <2>1, <3>1, <3>4 DEF Promise!Next
  <2> QED BY <2>2, <2>3
<1>8. \/ UNCHANGED promised
      \/ \E h \in Handlers :
           Perform(h) \/ Unreachable(h) \/ Drop(h) \/ Submit(h) \/ Deliver(h)
      \/ \E c \in late : LateCall(c)
      \/ \E f \in Forms : Render(f)
  BY DEF Next, Handle, vars, formVars, upstream, promised, Verify, Receive, List, Ignore,
     ListFails, BadReply, Switch, Expire, Leave, Navigate
<1> QED BY <1>1, <1>3, <1>4, <1>5, <1>6, <1>7, <1>8

(***************************************************************************)
(* Whatever is lost, late, repeated or overlaps, and whoever is signed in  *)
(* meanwhile: a form takes effect once at most, for the account it was     *)
(* rendered for and with fields submitted with it, and a secret is shown   *)
(* only of a form that took effect.                                        *)
(***************************************************************************)
THEOREM Refinement == Spec => ImplementsPromise
<1>1. Init => Promise!Init
  BY DEF Init, Record, For, Promise!Init
<1> QED
  BY <1>1, PromiseStep, Invariance, RequestsAreGenuine, PTL
  DEF Spec, ImplementsPromise, Promise!Spec
=============================================================================
