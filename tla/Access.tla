-------------------------------- MODULE Access --------------------------------
(***************************************************************************)
(* Getting in: the account file, the session and form cookies, and the     *)
(* bound on attempts (api/auth.py, api/throttle.py, the account routes of  *)
(* api/ui.py and the middleware of api/app.py).                            *)
(*                                                                         *)
(* One browser at one address, with several tabs, talks to one server      *)
(* process that serves requests on threads of its own.  A request is sent  *)
(* with the cookies of that moment, served in steps, answered, and its     *)
(* answer reaches the browser at any later time, so answers overtake one   *)
(* another.  The account file is read whole and written back whole; the    *)
(* write first truncates the file.  Passwords' hashes and the signature of *)
(* a cookie are abstracted to equality and to the generation of the key.   *)
(***************************************************************************)
EXTENDS Integers, Sequences, FiniteSets

CONSTANTS
    Tabs,         \* tabs of the browser; each has one request at a time
    Emails,
    Passwords,
    Absent,
    Keep,         \* an answer that leaves the session alone
    Limit,        \* Limit[b]: [tokens, window] of bucket b, as throttle.Limit
    SessionTTL,   \* SESSION_TTL
    CsrfTTL,      \* CSRF_TTL
    Horizon,      \* bound on the clock
    MaxRequests,  \* bound on the requests of the browser
    MaxRestarts   \* bound on the deaths of the server

Buckets == {"signin", "signup", "confirm"}
Backends == {"local", "cognito"}
Posts == {"login", "signup", "confirm", "resend", "logout"}

ASSUME AccessAssumption ==
    /\ DOMAIN Limit = Buckets
    /\ \A b \in Buckets :
        Limit[b].tokens \in Nat \ {0} /\ Limit[b].window \in Nat \ {0}
    /\ SessionTTL \in Nat /\ CsrfTTL \in Nat /\ SessionTTL < CsrfTTL
    /\ Horizon \in Nat /\ MaxRequests \in Nat /\ MaxRestarts \in Nat
    /\ Absent \notin Nat \cup Emails \cup Passwords /\ Keep # Absent
    /\ Absent \notin [tokens : Int, last : Int]

VARIABLES
    clock,
    backend,   \* RECON_AUTH
    key,       \* generation of the ephemeral session key
    jar,       \* the browser's cookies
    page,      \* page[t]: the form token in tab t, Absent without a form
    shown,     \* the tab whose page came in last; Absent if it was a redirect
    cleared,   \* the browser dropped a live form cookie since then
    wire,      \* wire[t]: the request of tab t, or its answer
    asked,     \* requests so far
    minted,    \* form tokens made so far
    file,      \* the credential store: whole, or cut short, and its accounts
    made,      \* accounts made so far
    kept,      \* accounts the product said it had created
    raced,     \* two sign-ups were inside the account file together
    bucket,    \* Throttle._buckets, Absent where there is none
    passed,    \* passed[b]: moments of the attempts let through, since the
               \*   bucket was last dropped
    restarts

browser == <<jar, page, shown, cleared>>
store == <<file, made, kept, raced>>
throttle == <<bucket, passed>>
accessVars == <<clock, backend, key, jar, page, shown, cleared, wire, asked, minted,
               file, made, kept, raced, bucket, passed, restarts>>

-----------------------------------------------------------------------------
(* Requests.                                                                 *)

Quiet == [stage |-> "none"]

\* What a request carries from its tab: cookies, the form's token, the fields.
Request(t, kind, email, password) ==
    [stage |-> "sent", kind |-> kind, csrf |-> jar.csrf, session |-> jar.session,
     form |-> page[t], email |-> email, password |-> password]

\* An answer: a page with a form, a page without one, or a redirect; the token
\* in its form; the token the middleware sets (Absent: the cookie is left alone);
\* the session it sets (Keep: left alone, Absent: deleted).
Answer(shape, form, cookie, session) ==
    [stage |-> "answered", shape |-> shape, form |-> form, cookie |-> cookie,
     session |-> session]

Live(until) == clock < until

\* The session of a request, as auth.read decides it.
SignedIn(session) == session # Absent /\ session.key = key /\ clock <= session.until

Accounts(email) == {a \in file.accounts : a.email = email}

-----------------------------------------------------------------------------
(* The token bucket, in units of 1/window of a token: `tokens` of them come  *)
(* with every unit of time, an attempt costs `window`.                       *)

Full(b) == Limit[b].tokens * Limit[b].window

Capped(b, n) == IF n > Full(b) THEN Full(b) ELSE n

Refilled(b, moment) ==
    Capped(b, bucket[b].tokens + (moment - bucket[b].last) * Limit[b].tokens)

Spend(b, moment, tokens) ==
    /\ bucket' = [bucket EXCEPT ![b] = [tokens |-> tokens - Limit[b].window, last |-> moment]]
    /\ passed' = [passed EXCEPT ![b] = Append(@, moment)]

\* The first attempt opens a bucket; later ones refill it and take one token.
Admit(b, moment) ==
    \/ bucket[b] = Absent /\ Spend(b, moment, Full(b))
    \/ /\ bucket[b] # Absent
       /\ Refilled(b, moment) >= Limit[b].window
       /\ Spend(b, moment, Refilled(b, moment))

\* Mutant: a refused attempt leaves the bucket's clock where it was.
RefuseUndated(b, moment) ==
    /\ bucket[b] # Absent
    /\ Refilled(b, moment) < Limit[b].window
    /\ bucket' = [bucket EXCEPT ![b].tokens = Refilled(b, moment)]
    /\ UNCHANGED passed

\* An attempt that finds less than one token still refills the bucket.
Refuse(b, moment) ==
    /\ bucket[b] # Absent
    /\ Refilled(b, moment) < Limit[b].window
    /\ bucket' = [bucket EXCEPT ![b] = [tokens |-> Refilled(b, moment), last |-> moment]]
    /\ UNCHANGED passed

Forget(b) ==
    /\ bucket' = [bucket EXCEPT ![b] = Absent]
    /\ passed' = [passed EXCEPT ![b] = <<>>]

-----------------------------------------------------------------------------
AccessInit ==
    /\ clock = 0 /\ key = 0 /\ asked = 0 /\ minted = 0 /\ made = 0 /\ restarts = 0
    /\ backend \in Backends
    /\ jar = [csrf |-> Absent, csrfUntil |-> 0, session |-> Absent, sessionUntil |-> 0]
    /\ page = [t \in Tabs |-> Absent]
    /\ wire = [t \in Tabs |-> Quiet]
    /\ shown = Absent /\ cleared = FALSE
    /\ file = [whole |-> TRUE, accounts |-> {}]
    /\ kept = {} /\ raced = FALSE
    /\ bucket = [b \in Buckets |-> Absent]
    /\ passed = [b \in Buckets |-> <<>>]

-----------------------------------------------------------------------------
(* The browser.                                                              *)

Send(t, request) ==
    /\ wire[t].stage = "none" /\ asked < MaxRequests
    /\ wire' = [wire EXCEPT ![t] = request]
    /\ asked' = asked + 1
    /\ UNCHANGED <<clock, backend, key, browser, minted, store, throttle, restarts>>

Browse(t) == Send(t, Request(t, "page", Absent, Absent))

Submit(t) ==
    /\ page[t] # Absent
    /\ \/ \E kind \in {"login", "signup"}, e \in Emails, p \in Passwords :
            Send(t, Request(t, kind, e, p))
       \/ \E kind \in {"confirm", "resend"}, e \in Emails : Send(t, Request(t, kind, e, Absent))
       \/ Send(t, Request(t, "logout", Absent, Absent))

\* The answer comes in: its cookies are stored with their max_age, its page is
\* shown, its redirect followed with the cookies that are now in the jar.
Deliver(t) ==
    LET a == wire[t]
        base == IF a.cookie = Absent THEN jar
                ELSE [jar EXCEPT !.csrf = a.cookie, !.csrfUntil = clock + CsrfTTL]
        new == IF a.session = Keep THEN base
               ELSE IF a.session = Absent THEN [base EXCEPT !.session = Absent]
               ELSE [base EXCEPT !.session = a.session, !.sessionUntil = clock + SessionTTL]
    IN
    /\ a.stage = "answered"
    /\ jar' = new
    /\ page' = [page EXCEPT ![t] = a.form]
    /\ shown' = IF a.shape = "redirect" THEN Absent ELSE t
    /\ cleared' = FALSE
    /\ wire' = [wire EXCEPT ![t] =
            IF a.shape = "redirect"
            THEN [stage |-> "sent", kind |-> "page", csrf |-> new.csrf, session |-> new.session,
                  form |-> Absent, email |-> Absent, password |-> Absent]
            ELSE Quiet]
    /\ UNCHANGED <<clock, backend, key, asked, minted, store, throttle, restarts>>

\* An extension or a privacy setting clears the script-readable cookie.
ClearCookie ==
    /\ jar.csrf # Absent
    /\ jar' = [jar EXCEPT !.csrf = Absent]
    /\ cleared' = TRUE
    /\ UNCHANGED <<clock, backend, key, page, shown, wire, asked, minted, store, throttle,
                   restarts>>

\* Time passes; cookies past their max_age leave the jar.
Tick ==
    /\ clock < Horizon
    /\ clock' = clock + 1
    /\ jar' = [jar EXCEPT
            !.csrf = IF clock' < jar.csrfUntil THEN @ ELSE Absent,
            !.session = IF clock' < jar.sessionUntil THEN @ ELSE Absent]
    /\ UNCHANGED <<backend, key, page, shown, cleared, wire, asked, minted, store, throttle,
                   restarts>>

-----------------------------------------------------------------------------
(* The server: the middleware, and the routes.                               *)

\* The token of the request is the cookie's, or a new one.
Token(r) == IF r.csrf # Absent THEN r.csrf ELSE minted

\* Mutant: the cookie is set only when its token is new.
CookieWhenMinted(r, shape, token) ==
    IF token # r.csrf THEN token ELSE Absent

\* The middleware sets the cookie when it is new and on every HTML page.
Cookie(r, shape, token) ==
    IF token # r.csrf \/ shape # "redirect" THEN token ELSE Absent

\* The request is answered; a token it had to mint is used up.
Reply(t, shape, token, session) ==
    /\ wire' = [wire EXCEPT ![t] =
            Answer(shape, IF shape = "form" THEN token ELSE Absent,
                   Cookie(wire[t], shape, token), session)]
    /\ minted' = IF token = minted THEN minted + 1 ELSE minted

Page(t, shape) == Reply(t, shape, Token(wire[t]), Keep)

Redirect(t) == Reply(t, "redirect", Token(wire[t]), Keep)

\* A page of the product, the login, or a redirect between them.
ServePage(t) ==
    /\ wire[t].stage = "sent" /\ wire[t].kind = "page"
    /\ Page(t, "form")
    /\ UNCHANGED <<clock, backend, key, browser, asked, store, throttle, restarts>>

CsrfOk(r) == r.csrf # Absent /\ r.form # Absent /\ r.csrf = r.form

\* logout ends the session whether or not the token checks out.
Logout(t) ==
    /\ wire[t].stage = "sent" /\ wire[t].kind = "logout"
    /\ Reply(t, "redirect", Token(wire[t]), Absent)
    /\ UNCHANGED <<clock, backend, key, browser, asked, store, throttle, restarts>>

BucketOf(kind) ==
    CASE kind = "login" -> "signin"
      [] kind = "signup" -> "signup"
      [] kind \in {"confirm", "resend"} -> "confirm"

\* Every other form is tested for its token, and the attempt is dated before
\* the throttle is entered.
CheckForm(t) ==
    /\ wire[t].stage = "sent" /\ wire[t].kind \in Posts \ {"logout"}
    /\ \/ /\ CsrfOk(wire[t])
          /\ wire' = [wire EXCEPT ![t] =
                [stage |-> "dated", kind |-> @.kind, csrf |-> @.csrf, session |-> @.session,
                 form |-> @.form, email |-> @.email, password |-> @.password,
                 moment |-> clock]]
          /\ UNCHANGED minted
       \/ ~CsrfOk(wire[t]) /\ Page(t, "bare")
    /\ UNCHANGED <<clock, backend, key, browser, asked, store, throttle, restarts>>

Check(t) ==
    LET b == BucketOf(wire[t].kind) IN
    /\ wire[t].stage = "dated"
    /\ \/ /\ Admit(b, wire[t].moment)
          /\ wire' = [wire EXCEPT ![t].stage = "admitted"]
          /\ UNCHANGED minted
       \/ Refuse(b, wire[t].moment) /\ Page(t, "form")
    /\ UNCHANGED <<clock, backend, key, browser, asked, store, restarts>>

-----------------------------------------------------------------------------
(* Signing in.                                                               *)

\* A bad file is an error of the server: no cookie, no form.
Fail(t) ==
    /\ wire' = [wire EXCEPT ![t] = Answer("bare", Absent, Absent, Keep)]
    /\ UNCHANGED minted

SignIn(t) ==
    LET r == wire[t]
        right == {a \in Accounts(r.email) : a.password = r.password}
    IN
    /\ r.stage = "admitted" /\ r.kind = "login"
    /\ \/ ~file.whole /\ Fail(t) /\ UNCHANGED throttle
       \/ file.whole /\ right = {} /\ Page(t, "form") /\ UNCHANGED throttle
       \/ file.whole /\ (\E a \in right : ~a.confirmed) /\ Redirect(t) /\ UNCHANGED throttle
       \/ \E a \in right :
            /\ file.whole /\ a.confirmed
            /\ Forget("signin")
            /\ Reply(t, "redirect", minted,
                     [id |-> a.id, email |-> a.email, key |-> key,
                      until |-> clock + SessionTTL])
    /\ UNCHANGED <<clock, backend, key, browser, asked, store, restarts>>

-----------------------------------------------------------------------------
(* Signing up.                                                               *)

NewAccount(r) ==
    [email |-> r.email, password |-> r.password, id |-> made, confirmed |-> backend = "local"]

Inside == {t \in Tabs : wire[t].stage \in {"loaded", "truncated"}}

\* The pool tests and records in one step.
SignUpManaged(t) ==
    LET r == wire[t] IN
    /\ r.stage = "admitted" /\ r.kind = "signup" /\ backend = "cognito"
    /\ \/ /\ Accounts(r.email) # {}
          /\ Page(t, "form")
          /\ UNCHANGED <<file, made, kept>>
       \/ /\ Accounts(r.email) = {}
          /\ file' = [file EXCEPT !.accounts = @ \cup {NewAccount(r)}]
          /\ kept' = kept \cup {NewAccount(r)}
          /\ made' = made + 1
          /\ Redirect(t)
    /\ UNCHANGED <<clock, backend, key, browser, asked, raced, throttle, restarts>>

\* Mutant: the address is not looked for.
LoadUntested(t) ==
    LET r == wire[t] IN
    /\ r.stage = "admitted" /\ r.kind = "signup" /\ backend = "local"
    /\ file.whole
    /\ wire' = [wire EXCEPT ![t] =
            [stage |-> "loaded", email |-> r.email, csrf |-> r.csrf,
             records |-> {a \in file.accounts : a.email # r.email},
             account |-> NewAccount(r)]]
    /\ made' = made + 1
    /\ raced' = (raced \/ Inside # {})
    /\ UNCHANGED <<clock, backend, key, browser, asked, minted, file, kept, throttle, restarts>>

\* LocalIdentity reads the file, looks for the address and makes the record.
Load(t) ==
    LET r == wire[t] IN
    /\ r.stage = "admitted" /\ r.kind = "signup" /\ backend = "local"
    /\ \/ ~file.whole /\ Fail(t) /\ UNCHANGED <<made, raced>>
       \/ file.whole /\ Accounts(r.email) # {} /\ Page(t, "form") /\ UNCHANGED <<made, raced>>
       \/ /\ file.whole /\ Accounts(r.email) = {}
          /\ wire' = [wire EXCEPT ![t] =
                [stage |-> "loaded", email |-> r.email, csrf |-> r.csrf,
                 records |-> file.accounts, account |-> NewAccount(r)]]
          /\ made' = made + 1
          /\ raced' = (raced \/ Inside # {})
          /\ UNCHANGED minted
    /\ UNCHANGED <<clock, backend, key, browser, asked, file, kept, throttle, restarts>>

\* write_text opens the file, which empties it ...
Truncate(t) ==
    /\ wire[t].stage = "loaded"
    /\ file' = [whole |-> FALSE, accounts |-> {}]
    /\ wire' = [wire EXCEPT ![t].stage = "truncated"]
    /\ UNCHANGED <<clock, backend, key, browser, asked, minted, made, kept, raced, throttle,
                   restarts>>

\* ... and then writes all it has read, and the new record.
Write(t) ==
    LET r == wire[t] IN
    /\ r.stage = "truncated"
    /\ file' = [whole |-> TRUE, accounts |-> r.records \cup {r.account}]
    /\ kept' = kept \cup {r.account}
    /\ Redirect(t)
    /\ UNCHANGED <<clock, backend, key, browser, asked, made, raced, throttle, restarts>>

-----------------------------------------------------------------------------
(* Confirming an address.  A local account has nothing to confirm.           *)

Confirm(t) ==
    LET r == wire[t]
        unconfirmed == {a \in Accounts(r.email) : ~a.confirmed}
    IN
    /\ r.stage = "admitted" /\ r.kind = "confirm"
    /\ Page(t, "form")
    /\ \/ UNCHANGED <<file, kept, throttle>>
       \/ \E a \in unconfirmed :
            /\ backend = "cognito"
            /\ file' = [file EXCEPT !.accounts = (@ \ {a}) \cup {[a EXCEPT !.confirmed = TRUE]}]
            /\ kept' = (kept \ {a}) \cup {[a EXCEPT !.confirmed = TRUE]}
            /\ Forget("confirm")
    /\ UNCHANGED <<clock, backend, key, browser, asked, made, raced, restarts>>

Resend(t) ==
    /\ wire[t].stage = "admitted" /\ wire[t].kind = "resend"
    /\ Page(t, "form")
    /\ UNCHANGED <<clock, backend, key, browser, asked, store, throttle, restarts>>

-----------------------------------------------------------------------------
\* The server dies: what it had not answered is lost, with the buckets and the
\* key; the account file stays as it is.
Restart ==
    /\ restarts < MaxRestarts
    /\ restarts' = restarts + 1
    /\ key' = key + 1
    /\ wire' = [t \in Tabs |-> IF wire[t].stage = "answered" THEN wire[t] ELSE Quiet]
    /\ bucket' = [b \in Buckets |-> Absent]
    /\ passed' = [b \in Buckets |-> <<>>]
    /\ UNCHANGED <<clock, backend, browser, asked, minted, store>>

Serve(t) ==
    \/ ServePage(t) \/ Logout(t) \/ CheckForm(t) \/ Check(t) \/ SignIn(t)
    \/ SignUpManaged(t) \/ Load(t) \/ Truncate(t) \/ Write(t) \/ Confirm(t) \/ Resend(t)

AccessNext ==
    \/ \E t \in Tabs : Browse(t) \/ Submit(t) \/ Deliver(t) \/ Serve(t)
    \/ ClearCookie \/ Tick \/ Restart

AccessSpec == AccessInit /\ [][AccessNext]_accessVars

-----------------------------------------------------------------------------
\* An account the product said it had created is in the store, under the id its
\* records are filed under, and so is no other for its address, whenever the
\* file can be read, however requests interleave and whenever the server dies;
\* unless two sign-ups were inside the file together, when the later save puts
\* back what it read before the earlier one (auth.py:132-146).
AccountsAreKept ==
    file.whole /\ ~raced =>
        /\ kept \subseteq file.accounts
        /\ \A a, b \in file.accounts : a.email = b.email => a = b

\* The page that came in last has a form the server will take, in whatever
\* order answers arrive, for as long as the browser is signed in and has not
\* dropped the cookie by itself: reloading always heals an expired form
\* (app.py:98-126, auth.py:42-47).
ReloadHeals ==
    shown # Absent /\ page[shown] # Absent /\ jar.session # Absent /\ ~cleared =>
        jar.csrf = page[shown]

\* Between two drops of its bucket, fewer than twice the limit's attempts pass
\* in any window, although a burst passes first and the refill goes on beside
\* it, and although attempts are dated before they enter the throttle and may
\* enter it out of order (throttle.py:83-104).
GuessesAreBounded ==
    \A b \in Buckets : \A i, j \in 1..Len(passed[b]) :
        i <= j /\ passed[b][j] - passed[b][i] < Limit[b].window =>
            j - i + 1 < 2 * Limit[b].tokens
=============================================================================
