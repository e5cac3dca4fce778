----------------------------- MODULE PageActions -----------------------------
(***************************************************************************)
(* The Containers page and the handlers behind its buttons: Update and      *)
(* Rollback of a container (stacks.js), "Update all" (containers.html), the *)
(* token csrf.js adds to every request, the check of it in RequireAuth, and *)
(* the answers of the API.                                                 *)
(*                                                                         *)
(* A request is a record of `req', one per click; its document may be       *)
(* replaced (reload, navigation) while the server still works on it, since  *)
(* operationContext detaches the operation from the request.  Until the     *)
(* deferred stacks.js has run, a button submits its form and the answer is  *)
(* the next document.  How an update proceeds is the Updater module's       *)
(* subject; here a request holds a key of the guard: the container's name,  *)
(* or its raw ID where Update's lookup of the row failed.                   *)
(*                                                                         *)
(* `outcome', `raced' and `unmarked' record history for the properties.  The *)
(* behaviours are those between two periodic checks, which would set the    *)
(* flags of the rows anew.                                                  *)
(***************************************************************************)
EXTENDS Naturals, Sequences, FiniteSets

CONSTANTS
    Tabs,
    Containers,
    Self,        \* DoUpRo's own container
    StackOf,     \* StackOf[c]: the stack of c
    Ungrouped,   \* the pseudo-stack of the containers that have none
    Listable,    \* containers the exclusions may name
    MaxClicks,   \* bound on the requests of a behaviour
    MaxUpsets    \* bound on logins, changes of the exclusions, failing calls,
                 \* lost answers and daemon crashes, together

ASSUME PageAssumption ==
    /\ StackOf \in [Containers -> {StackOf[c] : c \in Containers}]
    /\ Listable \subseteq Containers
    /\ MaxClicks \in Nat /\ MaxUpsets \in Nat

VARIABLES
    page,       \* page[t]: the document of tab t
    req,        \* the requests, in the order of the clicks
    jar,        \* the session and its CSRF cookie; 0 is none
    logins,     \* logins so far
    up,         \* the daemon answers
    maintenance,\* a self-update has closed the gate
    available,  \* containers with an update available
    previous,   \* containers with a previous image on record
    excluded,   \* containers whose row has the excluded flag
    listed,     \* containers Settings exclude
    unmarked,   \* listed containers that lost the flag and are offered again
    faults      \* failures and changes of the exclusions so far

gate == <<up, maintenance>>
table == <<available, previous, excluded, listed, unmarked>>
server == <<gate, table>>
session == <<jar, logins>>
vars == <<page, req, server, session, faults>>

Stacks == {StackOf[c] : c \in Containers}
Buttons == ({"update", "rollback"} \X Containers) \cup ({"stack"} \X Stacks)
                \cup {<<"global", Ungrouped>>}

\* A key of the guard: the container's name, or its ID for want of a row.
Keys == Containers \X {"name", "id"}

Document == [phase : {"login", "loading", "wired", "polling", "dead"},
             offered : SUBSET Buttons,   \* the enabled buttons it was rendered with
             spinning : SUBSET Buttons,  \* those disabled by a click
             reload : BOOLEAN]           \* the reload timer is armed

Blank(phase) == [phase |-> phase, offered |-> {}, spinning |-> {}, reload |-> FALSE]

Init ==
    /\ page = [t \in Tabs |-> Blank("login")]
    /\ req = <<>>
    /\ jar = 0 /\ logins = 0
    /\ up = TRUE /\ maintenance = FALSE
    /\ available = Containers
    /\ previous = Containers \ {Self}
    /\ excluded = {} /\ listed = {} /\ unmarked = {}
    /\ faults = 0

-----------------------------------------------------------------------------
\* What the requests hold of the guard.
Held == UNION {req[n].holds : n \in DOMAIN req}

\* The operation the page shows for c, which it looks up by name.
Busy(c) == <<c, "name">> \in Held

\* The document GET / returns: a container with an operation has no buttons.
Rendered ==
    [Blank("loading") EXCEPT !.offered =
        {b \in Buttons :
            \/ b[1] \in {"stack", "global"}
            \/ b[1] = "update" /\ ~Busy(b[2]) /\ b[2] \in available
            \/ b[1] = "rollback" /\ ~Busy(b[2]) /\ b[2] \in previous}]

Loaded == IF ~up THEN Blank("dead") ELSE IF jar # 0 THEN Rendered ELSE Blank("login")

\* Mutant: the token is the one of the first login.
getCookieOnce == IF jar = 0 THEN 0 ELSE 1

\* getCookie('doupro_csrf').
getCookie == jar

\* What a click asks for, with the token of that moment.
NewRequest(t, b, form) ==
    [tab |-> t, button |-> b, form |-> form, token |-> getCookie, phase |-> "clicked",
     answer |-> "none", outcome |-> "none", queue |-> {}, holds |-> {},
     orphan |-> FALSE, raced |-> FALSE]

\* The browser is finished with a request; its batch may still run.
Done(r) == [NewRequest(CHOOSE t \in Tabs : TRUE, <<"global", Ungrouped>>, FALSE)
               EXCEPT !.phase = "done", !.token = 0, !.queue = r.queue, !.holds = r.holds]

\* The document of tab t is replaced: its requests have nobody to answer to.
Orphan(r) == IF r.phase \in {"answered", "resting"} THEN Done(r) ELSE [r EXCEPT !.orphan = r.phase # "done"]
Replace(t, d, rs) ==
    /\ page' = [page EXCEPT ![t] = d]
    /\ req' = [n \in DOMAIN rs |-> IF rs[n].tab = t THEN Orphan(rs[n]) ELSE rs[n]]

\* A new tab, a manual reload or a bookmark.
Load(t) ==
    /\ Replace(t, Loaded, req)
    /\ UNCHANGED <<server, session, faults>>

\* The deferred stacks.js runs.
Wire(t) ==
    /\ page[t].phase = "loading"
    /\ page' = [page EXCEPT ![t].phase = "wired"]
    /\ UNCHANGED <<req, server, session, faults>>

\* Whenever the cookies change, requests on their way were raced.
Raced(rs) == [n \in DOMAIN rs |-> IF rs[n].phase = "clicked" THEN [rs[n] EXCEPT !.raced = TRUE] ELSE rs[n]]

\* handleLogin: two new cookies.
handleLogin ==
    /\ up /\ logins + faults < MaxUpsets
    /\ logins' = logins + 1 /\ jar' = logins'
    /\ UNCHANGED <<server, faults>>

\* handleLogout: the session is deleted and both cookies are cleared.
handleLogout ==
    /\ up /\ jar # 0
    /\ jar' = 0
    /\ UNCHANGED <<logins, server, faults>>

\* From the form of the login page, which leads to the Containers page, and
\* from the form of the sidebar; or from a tab on some other page.
Login(t) ==
    /\ page[t].phase = "login"
    /\ handleLogin
    /\ Replace(t, Rendered, Raced(req))

Logout(t) ==
    /\ page[t].phase \in {"loading", "wired"}
    /\ handleLogout
    /\ Replace(t, Blank("login"), Raced(req))

Elsewhere ==
    /\ handleLogin \/ handleLogout
    /\ req' = Raced(req)
    /\ page' = page

-----------------------------------------------------------------------------
\* Mutants: the page believes every answer, as a fetch that follows redirects
\* would; success does not reload; a batch ignores the exclusions.
responseOkAlways(r) == TRUE
armNothing(d) == d
selectEverything(stack, known) ==
    {c \in available : (stack = "every" \/ StackOf[c] = stack) /\ c \notin known}

\* The stack parameter of "Update all": "" for the global button and, since
\* web.go passes "" for it, for the Ungrouped section.
StackParam(b) == IF b[1] = "stack" /\ b[2] # Ungrouped THEN b[2] ELSE "every"

\* selectBulkUpdateTargets and excludeSelf; `known' is what IsSelf says is
\* DoUpRo, nothing where its lookup fails.
selectBulkUpdateTargets(stack, known) ==
    {c \in available \ excluded : (stack = "every" \/ StackOf[c] = stack) /\ c \notin known}

\* A step that is bounded, such as a failing call.
Fault == logins + faults < MaxUpsets /\ faults' = faults + 1
Unless(fault) == IF fault THEN Fault ELSE faults' = faults

\* handleSetExclusions: the list is saved and ApplyExclusions recomputes the flag
\* of every row, or fails.
handleSetExclusions ==
    /\ up /\ jar # 0 /\ Fault
    /\ listed' \in SUBSET Listable
    /\ \/ excluded' = listed' /\ unmarked' = {}
       \/ excluded' = excluded /\ unmarked' = listed' \ excluded
    /\ UNCHANGED <<page, req, gate, available, previous, session>>

\* operationGuard.begin.  A second operation keyed by the raw ID of c is refused,
\* or begun if c was recreated meanwhile.
beginAllowed(k) == ~maintenance /\ (k \in Held => k[2] = "id")
beginRefused(k) == maintenance \/ k \in Held

\* response.ok: a 2xx status, which respondAction and its siblings only send
\* for these answers when asked for JSON.
responseOk(r) == r.answer \in {"ok", "queued", "nothing", "restarting"}

\* Disable and spin; restore; arm the reload timer.
spin(d, b) == [d EXCEPT !.spinning = @ \cup {b}]
restore(d, b) == [d EXCEPT !.spinning = @ \ {b}]
armReload(d) == [d EXCEPT !.reload = TRUE]

\* A click handler: the button is disabled and the wrapped fetch sends the
\* token of this moment.  The script of "Update all" is inline and runs before
\* the deferred one of Update and Rollback.
ClickFetch(t, b) ==
    /\ page[t].phase = "wired" \/ (page[t].phase = "loading" /\ b[1] \in {"stack", "global"})
    /\ b \in page[t].offered \ page[t].spinning
    /\ Len(req) < MaxClicks
    /\ page' = [page EXCEPT ![t] = spin(@, b)]
    /\ req' = Append(req, NewRequest(t, b, FALSE))
    /\ UNCHANGED <<server, session, faults>>

\* Before the handler is there the form is submitted: the submit handler of
\* csrf.js fills in the token and the browser waits to navigate; a second
\* submit gives up the first.
ClickSubmit(t, b) ==
    /\ page[t].phase = "loading"
    /\ b \in page[t].offered /\ b[1] \in {"update", "rollback"}
    /\ Len(req) < MaxClicks
    /\ req' = Append([n \in DOMAIN req |-> IF req[n].tab = t /\ req[n].form THEN Orphan(req[n]) ELSE req[n]],
                     NewRequest(t, b, TRUE))
    /\ UNCHANGED <<page, server, session, faults>>

\* The token has served; the answer is on its way.
Begun(n) == [req EXCEPT ![n].phase = "running", ![n].token = 0, ![n].raced = FALSE]
Answer(n, answer) == [Begun(n) EXCEPT ![n].phase = "answered", ![n].answer = answer,
                                      ![n].outcome = answer, ![n].holds = {}]

\* The daemon is not there: fetch rejects, a navigation ends on an error page.
ReceiveNothing(n) ==
    /\ req[n].phase = "clicked" /\ ~up
    /\ req' = Answer(n, "lost")
    /\ UNCHANGED <<page, server, session, faults>>

\* RequireAuth: no session, or a token that is not the cookie's.
ReceiveRefused(n) ==
    /\ req[n].phase = "clicked" /\ up
    /\ \/ jar = 0 /\ req' = Answer(n, "unauthenticated")
       \/ jar # 0 /\ req[n].token # jar /\ req' = Answer(n, "csrf")
    /\ UNCHANGED <<page, server, session, faults>>

Authorised(n) == req[n].phase = "clicked" /\ up /\ jar # 0 /\ req[n].token = jar

\* RequirePermission's 403, and the 404 and 500 of a handler whose own lookup
\* fails: JSON for a form as well.
ReceiveError(n) ==
    /\ Authorised(n) /\ Fault
    /\ req' = Answer(n, "error")
    /\ UNCHANGED <<page, server, session>>

\* handleUpdateAllContainers: the batch runs in the background.
ReceiveBulk(n) ==
    /\ Authorised(n) /\ req[n].button[1] \in {"stack", "global"}
    /\ \E known \in {{Self}, {}} :
          LET targets == selectBulkUpdateTargets(StackParam(req[n].button), known)
          IN  /\ req' = [Answer(n, IF targets = {} THEN "nothing" ELSE "queued") EXCEPT
                            ![n].queue = targets]
              /\ Unless(known = {})
    /\ UNCHANGED <<page, server, session>>

\* handleUpdateContainer for DoUpRo itself: StartSelfUpdate accepts or refuses.
ReceiveSelf(n) ==
    /\ Authorised(n) /\ req[n].button = <<"update", Self>>
    /\ \/ /\ ~maintenance /\ Held = {}
          /\ maintenance' = TRUE
          /\ req' = Answer(n, "restarting")
       \/ maintenance' = maintenance /\ req' = Answer(n, "conflict")
    /\ UNCHANGED <<page, up, table, session, faults>>

\* handleUpdateContainer, handleRollbackContainer: begun, or refused.  An update
\* whose lookup fails goes on with the raw ID as its key, a rollback gives up;
\* DoUpRo is updated as any container where IsSelf cannot tell.
ReceiveOperation(n) ==
    LET b == req[n].button
    IN  /\ Authorised(n) /\ b[1] \in {"update", "rollback"}
        /\ \/ \E k \in {b[2]} \X (IF b[1] = "update" THEN {"name", "id"} ELSE {"name"}) :
                 /\ b[1] = "rollback" => b[2] \in previous
                 /\ \/ beginAllowed(k) /\ req' = [Begun(n) EXCEPT ![n].holds = {k}]
                    \/ beginRefused(k) /\ req' = Answer(n, "conflict")
                 /\ Unless(k[2] = "id" \/ b = <<"update", Self>>)
           \/ b[1] = "rollback" /\ req' = Answer(n, "failed") /\ Unless(b[2] \in previous)
        /\ UNCHANGED <<page, server, session>>

\* The row of c after an operation of that kind.  A failure before the removal
\* leaves it; every other end replaces it by one without the excluded flag.  An
\* update then offers no update and has a previous image, a rollback marks the
\* update available again, a revert keeps the previous image; the last two rest on
\* a call that may have failed (`missed').  An operation on DoUpRo's own container
\* does not get that far: it fails, or stops the daemon that runs it.
Commit(c, kind, end) ==
    /\ c = Self => end = "failed"
    /\ UNCHANGED <<gate, listed>>
    /\ \/ end = "failed" /\ UNCHANGED <<available, previous, excluded, unmarked, faults>>
       \/ /\ end # "failed"
          /\ \E missed \in BOOLEAN :
                LET offered == end = "ok" /\ kind = "rollback" /\ ~missed
                    kept    == end = "ok" \/ (c \in previous /\ ~missed)
                IN  /\ available' = IF offered THEN available \cup {c} ELSE available \ {c}
                    /\ previous' = IF kept THEN previous \cup {c} ELSE previous \ {c}
                    /\ unmarked' = IF offered THEN unmarked \cup ({c} \cap listed) ELSE unmarked \ {c}
                    /\ Unless(missed)
          /\ excluded' = excluded \ {c}

Ends == {"ok", "reverted", "failed"}

\* The operation ends and respondAction answers.
Finish(n) ==
    /\ req[n].phase = "running"
    /\ \E end \in Ends :
          /\ Commit(req[n].button[2], req[n].button[1], end)
          /\ req' = Answer(n, IF end = "ok" THEN "ok" ELSE "failed")
    /\ UNCHANGED <<page, session>>

\* runBulkUpdate takes its next target: begun, by name or, where the lookup of the
\* row fails, by raw ID; or failed at once, and the batch goes on: refused, or the
\* container was recreated since it was listed, or the batch has used up its time.
BulkNext(n) ==
    /\ req[n].holds = {}
    /\ \E c \in req[n].queue :
          \/ \E k \in {c} \X {"name", "id"} :
                /\ beginAllowed(k) /\ Unless(k[2] = "id")
                /\ req' = [req EXCEPT ![n].queue = @ \ {c}, ![n].holds = {k}]
          \/ req' = [req EXCEPT ![n].queue = @ \ {c}] /\ faults' = faults
    /\ UNCHANGED <<page, server, session>>

BulkFinish(n) ==
    /\ req[n].phase # "running"
    /\ \E k \in req[n].holds, end \in Ends : Commit(k[1], "update", end)
    /\ req' = [req EXCEPT ![n].holds = {}]
    /\ UNCHANGED <<page, session>>

\* The daemon stops: after an accepted self-update, by an operation on its own
\* container, or by a fault.  Nothing that ran survives it, and open connections
\* break.
Down ==
    /\ up
    /\ Unless(~maintenance /\ \A k \in Held : k[1] # Self)
    /\ up' = FALSE /\ maintenance' = FALSE
    /\ req' = [n \in DOMAIN req |->
                  [req[n] EXCEPT !.queue = {}, !.holds = {},
                                 !.answer = IF req[n].phase = "running" THEN "lost" ELSE @,
                                 !.outcome = IF req[n].phase = "running" THEN "lost" ELSE @,
                                 !.phase = IF req[n].phase = "running" THEN "answered" ELSE @]]
    /\ UNCHANGED <<page, table, session>>

\* A daemon answers again: the replacement, the restored original, or one the
\* operator started.
Up ==
    /\ ~up /\ up' = TRUE
    /\ UNCHANGED <<page, req, maintenance, table, session, faults>>

\* The network loses the answer on its way back.
LoseAnswer(n) ==
    /\ req[n].phase = "answered" /\ req[n].answer # "lost" /\ Fault
    /\ req' = [req EXCEPT ![n].answer = "lost"]
    /\ UNCHANGED <<page, server, session>>

\* The status of a batch arrives and its body does not: triggerUpdateAll reads an
\* unreadable body as an empty one, which says that nothing was queued.
LoseBody(n) ==
    /\ req[n].phase = "answered" /\ req[n].answer = "queued" /\ Fault
    /\ req' = [req EXCEPT ![n].answer = "nothing"]
    /\ UNCHANGED <<page, server, session>>

-----------------------------------------------------------------------------
Finished(n) == [req EXCEPT ![n] = Done(@)]

\* Nobody is left to receive the answer, or the browser cancelled the request.
Drop(n) ==
    /\ req[n].orphan /\ req[n].phase \in {"clicked", "answered"}
    /\ req' = Finished(n)
    /\ UNCHANGED <<page, server, session, faults>>

\* The promise chain of a fetch: reload soon, "nothing to update" for a while,
\* or the button restored and the error shown.
DeliverFetch(n) ==
    LET r == req[n]
        b == r.button
    IN  /\ r.phase = "answered" /\ ~r.orphan /\ ~r.form
        /\ \/ /\ responseOk(r) /\ r.answer # "nothing"
              /\ page' = [page EXCEPT ![r.tab] = armReload(@)]
              /\ req' = Finished(n)
           \/ /\ responseOk(r) /\ r.answer = "nothing"
              /\ req' = [req EXCEPT ![n].phase = "resting"]
              /\ page' = page
           \/ /\ ~responseOk(r)
              /\ page' = [page EXCEPT ![r.tab] = restore(@, b)]
              /\ req' = Finished(n)
        /\ UNCHANGED <<server, session, faults>>

\* The 1.5 s of "nothing to update" are over.
Rest(n) ==
    /\ req[n].phase = "resting"
    /\ page' = [page EXCEPT ![req[n].tab] = restore(@, req[n].button)]
    /\ req' = Finished(n)
    /\ UNCHANGED <<server, session, faults>>

\* The answer of a form is the next document: the redirect to "/" (with the
\* error in a banner), the page that polls during a self-update, or the bare
\* JSON of an error written for the API.
DeliverForm(n) ==
    LET r == req[n]
    IN  /\ r.phase = "answered" /\ ~r.orphan /\ r.form
        /\ \/ r.answer = "restarting" /\ Replace(r.tab, Blank("polling"), Finished(n))
           \/ r.answer = "ok" /\ Replace(r.tab, Loaded, Finished(n))
           \/ r.answer \in {"failed", "conflict"} /\ Replace(r.tab, Loaded, Finished(n))
           \/ r.answer \in {"unauthenticated", "csrf", "error", "lost"} /\ Replace(r.tab, Blank("dead"), Finished(n))
        /\ UNCHANGED <<server, session, faults>>

\* window.location.reload() of the timer.
Reload(t) ==
    /\ page[t].reload
    /\ Load(t)

\* The polling page finds /health answering.
Poll(t) ==
    /\ page[t].phase = "polling" /\ up
    /\ Load(t)

Serve(n) ==
    \/ ReceiveNothing(n) \/ ReceiveRefused(n) \/ ReceiveBulk(n) \/ ReceiveSelf(n)
    \/ ReceiveOperation(n) \/ ReceiveError(n) \/ Finish(n)
Deliver(n) == Drop(n) \/ DeliverFetch(n) \/ Rest(n) \/ DeliverForm(n)

Next ==
    \/ \E t \in Tabs :
          \/ Load(t) \/ Wire(t) \/ Login(t) \/ Logout(t) \/ Reload(t) \/ Poll(t)
          \/ \E b \in Buttons : ClickFetch(t, b) \/ ClickSubmit(t, b)
    \/ \E n \in DOMAIN req :
          Serve(n) \/ BulkNext(n) \/ BulkFinish(n) \/ LoseAnswer(n) \/ LoseBody(n) \/ Deliver(n)
    \/ handleSetExclusions \/ Elsewhere \/ Down \/ Up

Spec == Init /\ [][Next]_vars

\* The server finishes what it begins (operationTimeout bounds it); the browser
\* delivers what arrives and runs its timers.  Nothing brings back a daemon whose
\* container was stopped.
ServerStep == \E n \in DOMAIN req : Serve(n)
BrowserStep == (\E n \in DOMAIN req : Deliver(n)) \/ \E t \in Tabs : Reload(t) \/ Poll(t)

FairSpec == Spec /\ WF_vars(ServerStep) /\ WF_vars(BrowserStep)

-----------------------------------------------------------------------------
Answers == {"none", "ok", "failed", "conflict", "unauthenticated", "csrf", "queued",
            "nothing", "restarting", "error", "lost"}

TypeOK ==
    /\ page \in [Tabs -> Document]
    /\ Len(req) <= MaxClicks
    /\ \A n \in DOMAIN req : req[n] \in
          [tab : Tabs, button : Buttons, form : BOOLEAN, token : 0..MaxUpsets,
           phase : {"clicked", "running", "answered", "resting", "done"},
           answer : Answers, outcome : Answers, queue : SUBSET Containers,
           holds : SUBSET Keys, orphan : BOOLEAN, raced : BOOLEAN]
    /\ jar \in 0..MaxUpsets /\ logins \in 0..MaxUpsets
    /\ up \in BOOLEAN /\ maintenance \in BOOLEAN
    /\ available \subseteq Containers /\ previous \subseteq Containers
    /\ excluded \subseteq Containers /\ listed \subseteq Containers /\ unmarked \subseteq Containers
    /\ faults \in 0..MaxUpsets

\* stacks.js:173-180: a failure must not look identical to success.  The page
\* arms its reload only for an operation that succeeded, was queued or was
\* handed to the helper, and releases a button with an error only when the
\* server refused or failed it or the answer was lost.
Succeeded(n) == req[n].outcome \in {"ok", "queued", "restarting"}
ReloadMeansSuccess ==
    [][\A n \in DOMAIN req : DeliverFetch(n) =>
          IF page'[req[n].tab].reload /\ ~page[req[n].tab].reload THEN Succeeded(n)
          ELSE page' # page => ~Succeeded(n) \/ req[n].answer = "lost"]_vars

\* The token is read at the click and the cookie is attached later: a page that
\* was loaded before a logout and a login elsewhere still works, and a request
\* is refused for its token only if the cookies changed while it was under way.
CsrfRefusalNeedsARace ==
    [][\A n \in DOMAIN req :
          req[n].phase = "clicked" /\ req'[n].outcome = "csrf" => req[n].raced]_vars

\* What "Update all" may reach.  A batch queues no container that Settings
\* exclude, although every operation replaces the row that has the flag, unless
\* the flag was lost in one of two ways: a rollback offered the update again, or
\* the save of the exclusions failed half-way.  It queues DoUpRo only where IsSelf
\* could not tell, and the batch of a named section stays in it.
Queued(n) == req'[n].queue \ req[n].queue
BatchesStayInBounds ==
    [][\A n \in DOMAIN req : \A c \in Queued(n) :
          /\ c \in listed => c \in unmarked
          /\ c = Self => faults' > faults
          /\ StackParam(req[n].button) \in {"every", StackOf[c]}]_vars

\* Every click settles: it is answered on its page (an error, a notice, or a
\* reload that then happens) or its document is replaced, whatever the daemon
\* and the network do.  The clicks of a behaviour are finite, so in the end no
\* button spins.
Pending(n) == ~req[n].orphan /\ req[n].phase # "done"
EveryClickSettles ==
    <>[](/\ \A n \in DOMAIN req : ~Pending(n)
         /\ \A t \in Tabs : ~page[t].reload /\ page[t].spinning = {})

\* "Update every container in this stack" (containers.html:38): the batch of a
\* section's button stays in its section.  The Ungrouped section breaks it.
StackUpdateStaysInStack ==
    \A n \in DOMAIN req : req[n].button[1] = "stack" =>
        \A c \in req[n].queue : StackOf[c] = req[n].button[2]

\* stacks.js:173-180 read strictly: an operation's error reaches the user who
\* asked for it.  The success of another button reloads the page while the
\* operation is still under way, and its error is shown nowhere.
ReloadWaitsForOthers ==
    \A n \in DOMAIN req : page[req[n].tab].reload => req[n].phase # "running" \/ req[n].orphan

\* "Excluded containers and DoUpRo's own container are always skipped"
\* (api.go:475-476): only the user takes the flag from a row that is offered an
\* update.  The rollback of an excluded container does, since ReplaceContainer
\* writes a row without the flag, and the next batch updates the container.
ExcludedIsSkipped ==
    [][handleSetExclusions \/ (excluded \ excluded') \cap available' = {}]_vars
=============================================================================
