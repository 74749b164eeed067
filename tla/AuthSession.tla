---------------------------- MODULE AuthSession ----------------------------
(***************************************************************************)
(* The session of one tab: the store (stores/auth-store.ts), its copy in   *)
(* localStorage, the role cookie the edge middleware reads, the requests   *)
(* of lib/api-client.ts with their shared silent refresh, and the guards   *)
(* of the login page, the portal and the admin console.  Requests read     *)
(* their token from localStorage, components read the store: the refresh   *)
(* writes the one, every set of the store writes both.                     *)
(***************************************************************************)
EXTENDS Screen

CONSTANTS Accounts, Admins, Nobody, MaxGen
ASSUME AccountAssumption == Accounts # {} /\ Admins \subseteq Accounts /\ Nobody \notin Accounts

\* Tokens are issued to an account in a generation and die with it.
Token(a) == [account |-> a, gen |-> s.gen]
Alive(tok) == tok.gen = s.gen
Role(user) == IF user = Nobody THEN Nobody ELSE IF user \in Admins THEN "admin" ELSE "student"

SignedOut == [user |-> Nobody, tok |-> Nobody, authed |-> FALSE]
NoCall == [for |-> "nothing", tok |-> Nobody, st |-> "free"]

\* A page load rehydrates the store from localStorage and replays the cookie.
Loaded(st, disk, place) ==
  [st EXCEPT !.store = disk, !.cookie = Role(disk.user), !.place = place,
             !.calls = [c \in DOMAIN st.calls |-> NoCall], !.refresh = Nobody,
             !.login = "idle", !.tried = FALSE, !.event = "none"]

AuthInit(sc) ==
  \E user \in Accounts \cup {Nobody}, tok \in {"none", "live"} :
    LET disk == IF tok = "none" THEN SignedOut
                ELSE [user |-> user, authed |-> TRUE,
                      tok |-> [account |-> CHOOSE a \in Accounts : user \in {a, Nobody}, gen |-> 0]]
    IN sc = Loaded([screen |-> "account", acts |-> 0, gen |-> 0, disk |-> disk,
                    store |-> SignedOut, cookie |-> Nobody, place |-> "login", next |-> "portal",
                    calls |-> [c \in 1..2 |-> NoCall], refresh |-> Nobody, login |-> "idle",
                    tried |-> FALSE, event |-> "none"], disk, "portal")

(***************************************************************************)
(* Where a navigation ends: /admin passes the edge middleware.             *)
(***************************************************************************)
middleware(st, target) ==
  CASE target # "admin" -> [st EXCEPT !.place = target, !.tried = FALSE]
    [] target = "admin" /\ st.cookie = "admin" -> [st EXCEPT !.place = "admin", !.tried = FALSE]
    [] target = "admin" /\ st.cookie = Nobody -> [st EXCEPT !.place = "login", !.next = "admin"]
    [] OTHER -> [st EXCEPT !.place = "portal"]

Navigate(target) ==
  /\ Acts /\ s.place # "login" /\ target \in {"portal", "admin"} \ {s.place}
  /\ Set(middleware([s EXCEPT !.acts = @ + 1], target))

\* zustand's persist: every set writes the whole store back.
Persist(st, store) == [st EXCEPT !.store = store, !.disk = store, !.cookie = Role(store.user)]
\* The two sets that leave the cookie alone: login's tokens before /me.
Tokens(st, tok) ==
  LET store == [st.store EXCEPT !.tok = tok, !.authed = TRUE]
  IN [st EXCEPT !.store = store, !.disk = store]

logout == s.place # "login" /\ Acts
          /\ Set([Persist([s EXCEPT !.acts = @ + 1], SignedOut) EXCEPT !.place = "login", !.next = "portal"])

(***************************************************************************)
(* request: read the token, and after a 401 refresh once and retry.        *)
(***************************************************************************)
Send(st, c, purpose) ==
  [st EXCEPT !.calls[c] = [for |-> purpose, tok |-> st.disk.tok, st |-> "sent"]]
FreeCall(st, c) == st.calls[c].st = "free" /\ \A d \in 1..c-1 : st.calls[d].st # "free"

request(c) ==
  /\ Acts /\ s.place # "login" /\ s.store.authed /\ FreeCall(s, c)
  /\ Set(Send([s EXCEPT !.acts = @ + 1], c, "data"))

Signed(st, a) == Persist(st, [st.store EXCEPT !.user = a])

\* What the caller of a request does with its answer.
Settled(st, c, ok) ==
  LET call == st.calls[c]
      free == [st EXCEPT !.calls[c] = NoCall]
  IN CASE call.for = "data" -> free
       [] call.for = "login" /\ ok ->
            middleware([Signed(free, call.tok.account) EXCEPT !.login = "idle"], st.next)
       [] call.for \notin {"data", "login"} /\ ok -> Signed(free, call.tok.account)
       [] call.for = "login" /\ ~ok -> [Persist(free, SignedOut) EXCEPT !.login = "idle"]
       [] OTHER -> [Persist(free, SignedOut) EXCEPT !.place = "login", !.next = "admin"]

Succeeds(c) ==
  /\ s.calls[c].st \in {"sent", "retried"} /\ s.calls[c].tok # Nobody /\ Alive(s.calls[c].tok)
  /\ Set(Settled(s, c, TRUE))

\* No answer, or one that is neither 2xx nor 401; a 401 without a token as well.
Errs(c) ==
  s.calls[c].st \in {"sent", "retried"} /\ Set(Settled(s, c, FALSE))

clearAuthAndRedirect(st) ==
  [Loaded([st EXCEPT !.disk = SignedOut], SignedOut, "login") EXCEPT !.next = st.place]

Refused(c) ==
  /\ s.calls[c].st = "sent" /\ s.calls[c].tok # Nobody /\ ~Alive(s.calls[c].tok)
  /\ IF s.refresh # Nobody \/ s.disk.tok # Nobody
     THEN Set([s EXCEPT !.calls[c].st = "waiting",
                        !.refresh = IF @ = Nobody THEN s.disk.tok.account ELSE @])
     ELSE Set(clearAuthAndRedirect(s))

RefusedAgain(c) ==
  /\ s.calls[c].st = "retried" /\ ~Alive(s.calls[c].tok)
  /\ Set(clearAuthAndRedirect(s))

refreshAccessToken ==
  /\ s.refresh # Nobody
  /\ LET tok == Token(s.refresh)
     IN Set([s EXCEPT !.refresh = Nobody, !.disk = [@ EXCEPT !.tok = tok, !.authed = TRUE],
                      !.calls = [c \in DOMAIN @ |->
                        IF @[c].st = "waiting"
                        THEN [@[c] EXCEPT !.tok = tok, !.st = "retried"] ELSE @[c]]])

\* Refused or unreachable: the callers are left with their 401.
RefreshFails ==
  s.refresh # Nobody /\ Set(clearAuthAndRedirect(s))

(***************************************************************************)
(* The login form: tokens first, then /me; the tokens already send the     *)
(* page on to its landing.                                                 *)
(***************************************************************************)
handleSubmitLogin ==
  /\ Acts /\ s.place = "login" /\ ~s.store.authed /\ s.login = "idle"
  /\ Set([s EXCEPT !.acts = @ + 1, !.login = "asked"])

LoginLands(a, c) ==
  /\ s.login = "asked" /\ FreeCall(s, c)
  /\ Set(Send(Tokens([s EXCEPT !.login = "me"], Token(a)), c, "login"))

\* A refusal is only an error on the form, unless a dead token rode along.
LoginFails ==
  /\ s.login = "asked"
  /\ \/ Set([s EXCEPT !.login = "idle"])
     \/ s.disk.tok # Nobody /\ ~Alive(s.disk.tok) /\ Set(clearAuthAndRedirect(s))

\* The redirect effect of the login page, run when its inputs change.
LeaveLogin ==
  /\ s.place = "login" /\ s.store.authed
  /\ LET there == middleware(s, s.next)
     IN there.place # "login" /\ Set(there)

(***************************************************************************)
(* The guards of the two layouts.                                          *)
(***************************************************************************)
PortalRootLayout ==
  s.place = "portal" /\ ~s.store.authed /\ Set([s EXCEPT !.place = "login", !.next = "portal"])

AdminRootLayout(c) ==
  /\ s.place = "admin"
  /\ \/ ~s.store.authed /\ Set([s EXCEPT !.place = "login", !.next = "admin"])
     \/ /\ s.store.authed /\ s.store.user = Nobody /\ ~s.tried /\ FreeCall(s, c)
        /\ Set(Send([s EXCEPT !.tried = TRUE], c, "refreshMe"))
     \/ /\ s.store.authed /\ Role(s.store.user) = "student"
        /\ Set([s EXCEPT !.place = "portal"])

Spinner == s.place = "admin" /\ ~(s.store.authed /\ Role(s.store.user) = "admin")

(***************************************************************************)
(* Time and the other tab, whose writes arrive as a storage event.         *)
(***************************************************************************)
Expire == s.gen < MaxGen /\ Set([s EXCEPT !.gen = @ + 1])
CookieExpires == Acts /\ s.cookie # Nobody /\ Set([s EXCEPT !.acts = @ + 1, !.cookie = Nobody])

OtherTabLogsOut ==
  Acts /\ s.disk # SignedOut
  /\ Set([s EXCEPT !.acts = @ + 1, !.disk = SignedOut, !.cookie = Nobody, !.event = "cleared"])

OtherTabLogsIn(a) ==
  /\ Acts /\ ~s.disk.authed
  /\ Set([s EXCEPT !.acts = @ + 1, !.cookie = Role(a), !.event = "signed in",
                   !.disk = [user |-> a, tok |-> Token(a), authed |-> TRUE]])

storageEvent ==
  /\ s.event # "none"
  /\ LET seen == [s EXCEPT !.event = "none"]
     IN Set(IF s.event = "cleared" /\ s.store.authed THEN Persist(seen, SignedOut) ELSE seen)

Reload == Acts /\ s.place # "login"
          /\ Set(middleware(Loaded([s EXCEPT !.acts = @ + 1], s.disk, s.place), s.place))

AuthClicks ==
  \/ \E t \in {"portal", "admin"} : Navigate(t)
  \/ logout \/ handleSubmitLogin \/ CookieExpires \/ OtherTabLogsOut \/ Reload
  \/ \E a \in Accounts : OtherTabLogsIn(a)
  \/ \E c \in 1..2 : request(c)
  \/ Expire

AuthAnswers ==
  \/ \E c \in 1..2 : Succeeds(c) \/ Errs(c) \/ Refused(c) \/ RefusedAgain(c)
  \/ refreshAccessToken \/ RefreshFails
  \/ \E c \in 1..2, a \in Accounts : LoginLands(a, c)
  \/ LoginFails \/ storageEvent

AuthEffects ==
  LeaveLogin \/ PortalRootLayout \/ \E c \in 1..2 : AdminRootLayout(c)

AuthNext == On("account") /\ (AuthClicks \/ AuthAnswers \/ AuthEffects)
AuthFairness == WF_s(On("account") /\ AuthAnswers) /\ WF_s(On("account") /\ AuthEffects)

(***************************************************************************)
(* RegisterForm, a screen of its own: the account, its tokens and /me in a *)
(* row.  The tokens start a replace to /today before the form asks for     *)
(* /onboarding; the last replace asked for is where the tab ends.          *)
(***************************************************************************)
RegisterInit(sc) ==
  sc = [screen |-> "register", acts |-> 0, password |-> "short", taken |-> FALSE, loading |-> FALSE,
        error |-> FALSE, chain |-> "idle", authed |-> FALSE, nav |-> "none", at |-> "register"]

RegisterFields(password) ==
  /\ Acts /\ s.at = "register" /\ s.password # password
  /\ Set([s EXCEPT !.acts = @ + 1, !.password = password])
RegisterButton == s.at = "register" /\ ~s.loading
handleSubmitRegister ==
  /\ Acts /\ RegisterButton
  /\ Set(IF s.password = "short" THEN [s EXCEPT !.acts = @ + 1, !.error = TRUE]
         ELSE [s EXCEPT !.acts = @ + 1, !.error = FALSE, !.loading = TRUE, !.chain = "register"])
\* A refused login leaves the account behind: the next register is refused as taken.
Registered == s.chain = "register" /\ ~s.taken /\ Set([s EXCEPT !.chain = "login", !.taken = TRUE])
RegisterSignsIn ==
  s.chain = "login"
    /\ Set([s EXCEPT !.chain = "me", !.authed = TRUE, !.nav = IF s.at = "register" THEN "today" ELSE @])
RegisterMe ==
  s.chain = "me" /\ Set([s EXCEPT !.chain = "done", !.loading = FALSE, !.nav = "onboarding"])
\* Mutant: an error that leaves the button disabled.
RegisterFailsLoading ==
  /\ s.chain \in {"register", "login", "me"}
  /\ Set([s EXCEPT !.chain = "idle", !.error = TRUE, !.authed = FALSE])
RegisterFails ==
  /\ s.chain \in {"register", "login", "me"}
  /\ Set([s EXCEPT !.chain = "idle", !.loading = FALSE, !.error = TRUE, !.authed = FALSE])
ReplaceCommits ==
  s.nav # "none" /\ Set([s EXCEPT !.at = s.nav, !.nav = "none"])
\* The portal sends a session rolled back to the login.
RegisterGuard ==
  s.at \in {"today", "onboarding"} /\ ~s.authed /\ s.nav = "none" /\ Set([s EXCEPT !.nav = "login"])

RegisterAnswers ==
  Registered \/ RegisterSignsIn \/ RegisterMe \/ RegisterFails \/ ReplaceCommits \/ RegisterGuard
RegisterNext ==
  /\ On("register")
  /\ RegisterAnswers \/ handleSubmitRegister \/ \E password \in {"short", "long"} : RegisterFields(password)
RegisterFairness == WF_s(On("register") /\ RegisterAnswers)
RegisterBusy == s.loading \/ s.nav # "none" \/ (s.at \in {"today", "onboarding"} /\ ~s.authed)

(***************************************************************************)
(* Properties.                                                             *)
(***************************************************************************)
\* stores/auth-store.ts, DISC-52: a session whose user is unknown does not leave
\* the admin console on an endless spinner, and no request waits for ever.
AuthSettles ==
  /\ []<>(On("account") => ~Spinner)
  /\ []<>(On("account") => \A c \in 1..2 : s.calls[c].st = "free")

\* A new account ends at its onboarding, though its tokens sent it to /today on the
\* way.
NewAccountOnboards ==
  On("register") /\ s.nav = "none" /\ s.chain = "done" => s.at = "onboarding"

\* A request whose token had died waits only while the one refresh is under way: no
\* answer of the refresh, and no redirect, leaves it waiting for nothing.
WaitsForOneRefresh ==
  On("account") => \A c \in 1..2 : s.calls[c].st = "waiting" => s.refresh # Nobody
=============================================================================
