----------------------------- MODULE LoginFlow -----------------------------
(***************************************************************************)
(* Signing in and out (src/login.rs, src/security.rs, main.rs): one        *)
(* customer's browser, its three cookies and its tabs, the handlers that   *)
(* serve them, and the account's authenticator factors at Supabase.        *)
(*                                                                         *)
(* Tabs share the cookies and run concurrently.  A handler works with the  *)
(* cookies its request carried and changes the cookies only when its       *)
(* response arrives, in whatever order responses do.  It awaits Supabase   *)
(* and fiducia-auth between its steps: factors change meanwhile (from the  *)
(* other tab, or another device), tokens expire, calls fail, and the       *)
(* request can be dropped.                                                 *)
(***************************************************************************)
EXTENDS Naturals

CONSTANTS
  Tabs,      \* the browser's tabs: each has one request in flight at most
  Tokens,    \* Supabase access tokens
  Factors,   \* the authenticators the account may ever have, by factor id
  None,      \* no value, such as an absent cookie
  Keep       \* what a response does not mention

ASSUME ValueAssumption == None # Keep /\ \A v \in Tokens \cup Tabs : v # None /\ v # Keep

VARIABLES
  cookies,   \* the browser's cookies: session, login_csrf, mfa_pending
  page,      \* page[t]: the form that tab t shows, and the session it is bound to
  request,   \* request[t]: what t's request carried, None when it has none
  step,      \* step[t]: the step its handler is at
  token,     \* token[t]: the access token that the handler works with
  reply,     \* reply[t]: what the response changes when it arrives
  minted,    \* minted[a]: the state of access token a
  factor,    \* factor[f]: the state of factor f at Supabase
  seen,      \* history: what the account required at times during t's request
  pended,    \* history: tokens that were handed out as mfa_pending
  issued     \* history: tokens that were handed out as session

supabase == <<minted, factor>>
history == <<seen, pended, issued>>
vars == <<cookies, page, request, step, token, reply, supabase, history>>

TokenStates == {"unminted", "aal1", "aal2", "expired"}
FactorStates == {"absent", "unverified", "verified", "removed"}

Live(a) == a # None /\ minted[a] \in {"aal1", "aal2"}

(* Mutant: a half-enrolled factor counts. *)
RequiredFactorsHalfEnrolled == {f \in Factors : factor[f] \in {"unverified", "verified"}}

(* required_totp_factor: the verified ones, of which it takes the first. *)
RequiredFactors == {f \in Factors : factor[f] = "verified"}

(***************************************************************************)
(* What a tab can ask for.  GET /login; POST /login/otp; POST /login or    *)
(* /login/verify (a primary factor); POST /login/mfa; POST /logout; a page *)
(* under /app; POST /app/security/mfa/{enroll,activate,disable}.           *)
(***************************************************************************)
LoginPosts == {"dispatch", "primary", "step_up"}
MfaPosts == {"enroll", "activate", "disable"}
Gated == MfaPosts \cup {"view"}
Operations == LoginPosts \cup Gated \cup {"page", "logout"}

(* What the forms of a page post. *)
PostsOf(form) ==
  CASE form = "login" -> {"dispatch", "primary"}
    [] form = "step_up" -> {"step_up"}
    [] form = "app" -> MfaPosts \cup {"logout"}
    [] OTHER -> {}

(***************************************************************************)
(* The CSRF token of a login form is bound to the random nonce that the    *)
(* same response puts into login_csrf; the cookie's value is therefore     *)
(* named after the tab that the form was rendered for.  Every other login  *)
(* form, older or newer, has another nonce.  The forms of the portal are   *)
(* bound to the session token.                                             *)
(***************************************************************************)
Page(form, session) == [form |-> form, session |-> session]

NoPage == Page("none", None)

(* A cookie that a response does not mention keeps its value. *)
SetCookie(old, set) == IF set = Keep THEN old ELSE set

Reply(session, login_csrf, mfa_pending, shows) ==
  [session |-> session, login_csrf |-> login_csrf,
   mfa_pending |-> mfa_pending, page |-> shows]

NoReply == Reply(Keep, Keep, Keep, Keep)

Init ==
  /\ cookies = [session |-> None, login_csrf |-> None, mfa_pending |-> None]
  /\ page = [t \in Tabs |-> NoPage]
  /\ request = [t \in Tabs |-> None]
  /\ step = [t \in Tabs |-> "idle"]
  /\ token = [t \in Tabs |-> None]
  /\ reply = [t \in Tabs |-> NoReply]
  /\ minted = [a \in Tokens |-> "unminted"]
  /\ factor \in [Factors -> {"absent", "verified"}]
  /\ seen = [t \in Tabs |-> {}]
  /\ pended = {}
  /\ issued = {}

-----------------------------------------------------------------------------
(* Steps of handlers. *)

(* Await the next call, with access token a at hand. *)
Proceed(t, next, a) ==
  /\ step' = [step EXCEPT ![t] = next]
  /\ token' = [token EXCEPT ![t] = a]
  /\ UNCHANGED <<reply, pended, issued>>

(* Respond; the response is on its way until Deliver. *)
Respond(t, r) ==
  /\ step' = [step EXCEPT ![t] = "responding"]
  /\ reply' = [reply EXCEPT ![t] = r]
  /\ token' = [token EXCEPT ![t] = None]
  /\ pended' = pended \cup ({r.mfa_pending} \cap Tokens)
  /\ issued' = issued \cup ({r.session} \cap Tokens)

(***************************************************************************)
(* The request ends without a trace: an error body sets no cookie, and     *)
(* leaves the form behind Back, whether it arrives or not.                 *)
(***************************************************************************)
Finish(t) ==
  /\ request' = [request EXCEPT ![t] = None]
  /\ step' = [step EXCEPT ![t] = "idle"]
  /\ token' = [token EXCEPT ![t] = None]
  /\ reply' = [reply EXCEPT ![t] = NoReply]
  /\ seen' = [seen EXCEPT ![t] = {}]
  /\ UNCHANGED <<supabase, pended, issued>>

Forget(t) == Finish(t) /\ UNCHANGED <<cookies, page>>

(* The browser's side, which no step of a handler touches. *)
browser == <<cookies, page, request>>

(* Supabase mints token a. *)
Mint(a, aal) == minted[a] = "unminted" /\ minted' = [minted EXCEPT ![a] = aal]

(* What the account requires of a login. *)
Policy == IF \E f \in Factors : factor[f] = "verified" THEN "two_factors" ELSE "one_factor"

(* Factor f changes state, and every request in flight lives through it. *)
SetFactor(f, state) ==
  /\ factor' = [factor EXCEPT ![f] = state]
  /\ seen' = [t \in Tabs |-> IF step[t] = "idle" THEN seen[t] ELSE seen[t] \cup {Policy'}]

At(t, where, operations) == step[t] = where /\ request[t] # None /\ request[t].op \in operations

(* login_flow_page *)
LoginFlowPage(t, form, mfa_pending) ==
  Respond(t, Reply(Keep, t, mfa_pending, Page(form, None)))

(* authenticate, require_login_security or require_form_security refuses. *)
Refuse(t) ==
  /\ \/ At(t, "received", LoginPosts) /\ ~request[t].trusted
     \/ /\ At(t, "received", {"logout"}) \/ At(t, "admitted", Gated)
        /\ ~Live(request[t].credential) \/ ~request[t].trusted
  /\ Forget(t)

(***************************************************************************)
(* customer_login and customer_login_otp_submit show the login or the code *)
(* form; customer_login_submit and customer_login_verify_submit do so      *)
(* again when the credentials are wrong, empty, or over budget, and        *)
(* customer_login_mfa_submit when its cookie is gone.                      *)
(***************************************************************************)
ShowLogin(t) ==
  /\ \/ At(t, "received", {"page"})
     \/ At(t, "received", {"dispatch", "primary"}) /\ request[t].trusted
     \/ At(t, "received", {"step_up"}) /\ request[t].trusted /\ request[t].credential = None
  /\ LoginFlowPage(t, "login", Keep)
  /\ UNCHANGED <<browser, supabase, seen>>

(* The password or the one-time code is right. *)
Grant(t) ==
  /\ At(t, "received", {"primary"})
  /\ request[t].trusted
  /\ \E a \in Tokens : Mint(a, "aal1") /\ Proceed(t, "granted", a)
  /\ UNCHANGED <<browser, factor, seen>>

(* Mutant: the factors are not looked up. *)
LookupSkipped(t) ==
  /\ step[t] = "granted"
  /\ Live(token[t])
  /\ Proceed(t, "finalizing", token[t])
  /\ UNCHANGED <<browser, supabase, seen>>

(* list_factors, then required_totp_factor. *)
Lookup(t) ==
  /\ step[t] = "granted"
  /\ Live(token[t])
  /\ Proceed(t, IF RequiredFactors # {} THEN "challenging" ELSE "finalizing", token[t])
  /\ UNCHANGED <<browser, supabase, seen>>

(* begin_mfa_step_up *)
Challenge(t) ==
  /\ step[t] = "challenging"
  /\ Live(token[t])
  /\ LoginFlowPage(t, "step_up", token[t])
  /\ UNCHANGED <<browser, supabase, seen>>

(* customer_login_mfa_submit: over budget, or not the current code. *)
ShowStepUp(t) ==
  /\ At(t, "received", {"step_up"})
  /\ request[t].trusted
  /\ request[t].credential # None
  /\ LoginFlowPage(t, "step_up", Keep)
  /\ UNCHANGED <<browser, supabase, seen>>

(* Mutant: the login goes on with the pending token. *)
StepUpWithPending(t) ==
  /\ At(t, "received", {"step_up"})
  /\ request[t].trusted
  /\ Live(request[t].credential)
  /\ Proceed(t, "finalizing", request[t].credential)
  /\ UNCHANGED <<browser, supabase, seen>>

(* verify_factor accepts the code, of a factor that still exists. *)
StepUp(t) ==
  /\ At(t, "received", {"step_up"})
  /\ request[t].trusted
  /\ Live(request[t].credential)
  /\ RequiredFactors # {}
  /\ \E a \in Tokens : Mint(a, "aal2") /\ Proceed(t, "finalizing", a)
  /\ UNCHANGED <<browser, factor, seen>>

(* finalize_customer_login, once fiducia-auth accepts the token. *)
Finalize(t) ==
  /\ step[t] = "finalizing"
  /\ Live(token[t])
  /\ Respond(t, Reply(token[t], None, None, NoPage))
  /\ UNCHANGED <<browser, supabase, seen>>

(***************************************************************************)
(* customer_mfa_assurance_gate and authenticate_mfa_aware: aal2 passes,    *)
(* aal1 needs a lookup, anything else is sent to /login.                   *)
(***************************************************************************)
Gate(t) ==
  LET session == request[t].credential IN
  /\ At(t, "received", Gated)
  /\ IF Live(session)
     THEN /\ Proceed(t, IF minted[session] = "aal2" THEN "admitted" ELSE "assuring", None)
          /\ UNCHANGED <<browser, supabase, seen>>
     ELSE Forget(t)

GateLookup(t) ==
  /\ step[t] = "assuring"
  /\ Live(request[t].credential)
  /\ IF RequiredFactors = {}
     THEN Proceed(t, "admitted", None) /\ UNCHANGED <<browser, supabase, seen>>
     ELSE Forget(t)

(* The handler authenticates again, and its form passed its check. *)
Handling(t, op) ==
  /\ At(t, "admitted", {op})
  /\ Live(request[t].credential)
  /\ request[t].trusted

(* A page of the portal, whose forms are bound to the session. *)
View(t) ==
  /\ Handling(t, "view")
  /\ Respond(t, Reply(Keep, Keep, Keep, Page("app", request[t].credential)))
  /\ UNCHANGED <<browser, supabase, seen>>

(* customer_mfa_enroll *)
Enroll(t) ==
  /\ Handling(t, "enroll")
  /\ \E f \in Factors : factor[f] = "absent" /\ SetFactor(f, "unverified")
  /\ Respond(t, Reply(Keep, Keep, Keep, Page("app", request[t].credential)))
  /\ UNCHANGED <<browser, minted>>

(* customer_mfa_activate: challenge and verify_factor, of any factor id. *)
Activate(t) ==
  /\ Handling(t, "activate")
  /\ \E f \in Factors :
       factor[f] \in {"unverified", "verified"} /\ SetFactor(f, "verified")
  /\ \E a \in Tokens :
       Mint(a, "aal2") /\ Respond(t, Reply(a, Keep, Keep, NoPage))
  /\ UNCHANGED browser

(***************************************************************************)
(* customer_mfa_disable: aal2, then a fresh code, then unenroll with the   *)
(* token that the code earned, which the handler takes with it.            *)
(***************************************************************************)
ReChallenge(t) ==
  /\ Handling(t, "disable")
  /\ minted[request[t].credential] = "aal2"
  /\ RequiredFactors # {}
  /\ Proceed(t, "removing", None)
  /\ UNCHANGED <<browser, supabase, seen>>

Unenroll(t) ==
  /\ step[t] = "removing"
  /\ \E f \in RequiredFactors : SetFactor(f, "removed")
  /\ Respond(t, Reply(Keep, Keep, Keep, NoPage))
  /\ UNCHANGED <<browser, minted>>

(* customer_logout: /logout is not gated, but authenticates. *)
Logout(t) ==
  /\ At(t, "received", {"logout"})
  /\ Live(request[t].credential)
  /\ request[t].trusted
  /\ Respond(t, Reply(None, None, None, NoPage))
  /\ UNCHANGED <<browser, supabase, seen>>

(***************************************************************************)
(* A dependency is unavailable, Supabase rejects the call, TimeoutLayer    *)
(* gives up, the connection drops or the tab goes elsewhere: the handler,  *)
(* or the response on its way, is lost.                                    *)
(***************************************************************************)
Fail(t) ==
  /\ step[t] # "idle"
  /\ Forget(t)

Handle(t) ==
  \/ Refuse(t) \/ ShowLogin(t) \/ Grant(t) \/ Lookup(t) \/ Challenge(t)
  \/ ShowStepUp(t) \/ StepUp(t) \/ Finalize(t)
  \/ Gate(t) \/ GateLookup(t) \/ View(t)
  \/ Enroll(t) \/ Activate(t) \/ ReChallenge(t) \/ Unenroll(t)
  \/ Logout(t) \/ Fail(t)

-----------------------------------------------------------------------------
(* The browser, and the rest of the account. *)

(* Mutant: the step-up reads the cookie of the nonce. *)
CredentialOfNonce(op) ==
  CASE op \in Gated \cup {"logout"} -> cookies.session
    [] op = "step_up" -> cookies.login_csrf
    [] OTHER -> None

(* The cookie that the handler reads its token from. *)
Credential(op) ==
  CASE op \in Gated \cup {"logout"} -> cookies.session
    [] op = "step_up" -> cookies.mfa_pending
    [] OTHER -> None

(* The CSRF token of the form agrees with the cookie that goes with it. *)
Trusted(t, op) ==
  CASE op \in LoginPosts -> cookies.login_csrf = t
    [] op \in MfaPosts \cup {"logout"} -> page[t].session = cookies.session
    [] OTHER -> TRUE

(* Navigating leaves the form; after a POST that failed it is still there. *)
Send(t, op) ==
  /\ step[t] = "idle"
  /\ op \in PostsOf(page[t].form) \cup {"page", "view"}
  /\ request' = [request EXCEPT ![t] =
       [op |-> op, credential |-> Credential(op), trusted |-> Trusted(t, op)]]
  /\ step' = [step EXCEPT ![t] = "received"]
  /\ seen' = [seen EXCEPT ![t] = {Policy}]
  /\ page' = [page EXCEPT ![t] = IF op \in {"page", "view"} THEN NoPage ELSE @]
  /\ UNCHANGED <<cookies, token, reply, supabase, pended, issued>>

Deliver(t) ==
  /\ step[t] = "responding"
  /\ cookies' = [session |-> SetCookie(cookies.session, reply[t].session),
                 login_csrf |-> SetCookie(cookies.login_csrf, reply[t].login_csrf),
                 mfa_pending |-> SetCookie(cookies.mfa_pending, reply[t].mfa_pending)]
  /\ page' = [page EXCEPT ![t] = SetCookie(@, reply[t].page)]
  /\ Finish(t)

(* Max-Age *)
CookieExpires(c) ==
  /\ cookies[c] # None
  /\ cookies' = [cookies EXCEPT ![c] = None]
  /\ UNCHANGED <<page, request, step, token, reply, supabase, history>>

TokenExpires(a) ==
  /\ minted[a] \in {"aal1", "aal2"}
  /\ minted' = [minted EXCEPT ![a] = "expired"]
  /\ UNCHANGED <<browser, step, token, reply, factor, history>>

(* Another device of the customer, or a call that outlived its handler. *)
OtherDevice(f) ==
  /\ \/ factor[f] \in {"absent", "unverified"} /\ SetFactor(f, "verified")
     \/ factor[f] = "verified" /\ SetFactor(f, "removed")
  /\ UNCHANGED <<browser, step, token, reply, minted, pended, issued>>

Next ==
  \/ \E t \in Tabs : Handle(t) \/ Deliver(t)
  \/ \E t \in Tabs, op \in Operations : Send(t, op)
  \/ \E c \in {"session", "login_csrf", "mfa_pending"} : CookieExpires(c)
  \/ \E a \in Tokens : TokenExpires(a)
  \/ \E f \in Factors : OtherDevice(f)

Spec == Init /\ [][Next]_vars

-----------------------------------------------------------------------------
Steps == {"idle", "received", "granted", "challenging", "finalizing",
          "assuring", "admitted", "removing", "responding"}

MaybeToken == Tokens \cup {None}
MaybeTab == Tabs \cup {None}

Pages == [form: {"none", "login", "step_up"}, session: {None}] \cup [form: {"app"}, session: Tokens]

Requests == [op: Operations, credential: MaybeToken, trusted: BOOLEAN]

Replies == [session: MaybeToken \cup {Keep}, login_csrf: MaybeTab \cup {Keep},
            mfa_pending: MaybeToken \cup {Keep}, page: Pages \cup {Keep}]

(* Every variable stays in its domain. *)
TypeOK ==
  /\ cookies \in [session: MaybeToken, login_csrf: MaybeTab, mfa_pending: MaybeToken]
  /\ page \in [Tabs -> Pages]
  /\ request \in [Tabs -> Requests \cup {None}]
  /\ step \in [Tabs -> Steps]
  /\ token \in [Tabs -> MaybeToken]
  /\ reply \in [Tabs -> Replies]
  /\ minted \in [Tokens -> TokenStates]
  /\ factor \in [Factors -> FactorStates]
  /\ seen \in [Tabs -> SUBSET {"one_factor", "two_factors"}]
  /\ pended \in SUBSET Tokens
  /\ issued \in SUBSET Tokens

(***************************************************************************)
(* A single factor is enough only for an account that requires no second   *)
(* one: a single-factor token is let past the gate, or becomes a session,  *)
(* only in a request during which the account had no verified factor.      *)
(* Activating a factor therefore shuts out every aal1 request sent later,  *)
(* from any tab, with a session of any age.                                *)
(***************************************************************************)
SingleFactor(t) ==
  \/ step[t] = "admitted" /\ minted[request[t].credential] = "aal1"
  \/ /\ step[t] = "responding"
     /\ reply[t].session \in Tokens
     /\ minted[reply[t].session] = "aal1"

SingleFactorOnlyWithoutMfa == \A t \in Tabs : SingleFactor(t) => "one_factor" \in seen[t]

(***************************************************************************)
(* The token parked in mfa_pending never becomes a session: a step-up ends *)
(* with another token, and a login that needs none parks none.             *)
(***************************************************************************)
PendingNeverIssued == pended \cap issued = {}

(***************************************************************************)
(* Nobody is asked for a code that no verified factor can produce: a login *)
(* turns to step-up only if the account had a verified factor during the   *)
(* request.  A half-enrolled factor locks nobody out.                      *)
(***************************************************************************)
NoNeedlessStepUp ==
  \A t \in Tabs :
    step[t] = "responding" /\ reply[t].mfa_pending \in Tokens => "two_factors" \in seen[t]

(***************************************************************************)
(* What main.rs says of the pending cookie: it is cleared the instant the  *)
(* aal2 session cookie is issued.                                          *)
(***************************************************************************)
PendingClearedAtIssue ==
  [][(\E a \in Tokens : minted[a] = "aal2" /\ cookies.session # a /\ cookies'.session = a)
       => cookies'.mfa_pending = None]_vars

(***************************************************************************)
(* Tabs that race, responses out of order and lost handlers included, the  *)
(* flow hands tokens out and takes them in as TokenCustody says.           *)
(***************************************************************************)
Custody ==
  INSTANCE TokenCustody
  WITH level <- minted,
       parked <- pended,
       session <- cookies.session,
       pending <- cookies.mfa_pending

ImplementsCustody == Custody!Spec
=============================================================================
