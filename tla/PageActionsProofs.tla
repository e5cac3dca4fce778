--------------------------- MODULE PageActionsProofs ---------------------------
(***************************************************************************)
(* What the Containers page and the handlers behind it keep up for any      *)
(* number of tabs, containers, stacks, clicks, logins and faults.           *)
(*                                                                         *)
(* PageInv is inductive.  Sound says, of one request, what its phase means  *)
(* for its token (a request on its way carries the cookie of now unless the *)
(* cookies changed), for the guard (a running request holds one key, of its *)
(* own container; one on its way holds nothing; a batch holds at most one)  *)
(* and for its answer (what the server decided, or what became of it on the *)
(* way back).  Guarded is the guard's side: a name is held by one request,  *)
(* and nothing is held while a self-update has closed the gate.  Flagged is *)
(* the rows' side: what Settings exclude and the page offers has the flag,  *)
(* or lost it in one of the two known ways.                                 *)
(***************************************************************************)
EXTENDS PageActions, SequenceTheorems, TLAPS

Request == [tab : Tabs, button : Buttons, form : BOOLEAN, token : 0..MaxUpsets,
            phase : {"clicked", "running", "answered", "resting", "done"},
            answer : Answers, outcome : Answers, queue : SUBSET Containers,
            holds : SUBSET Keys, orphan : BOOLEAN, raced : BOOLEAN]

\* Request r, with the cookie j of the moment.
Sound(r, j) ==
    /\ r \in Request
    /\ r.phase \in {"clicked", "running"} => r.outcome = "none" /\ r.queue = {}
    /\ r.phase = "clicked" => (r.raced \/ r.token = j) /\ r.holds = {}
    /\ r.phase = "running" => /\ r.button[1] \in {"update", "rollback"}
                              /\ \E how \in {"name", "id"} : r.holds = {<<r.button[2], how>>}
    /\ \A k, l \in r.holds : k = l
    /\ r.phase \in {"answered", "resting"} =>
          r.answer \in {r.outcome, "lost"} \/ (r.answer = "nothing" /\ r.outcome = "queued")

\* The guard's side: one request for a name, and none during a self-update.
Guarded ==
    /\ maintenance => \A n \in DOMAIN req : req[n].holds = {}
    /\ \A m, n \in DOMAIN req : \A c \in Containers :
          <<c, "name">> \in req[m].holds /\ <<c, "name">> \in req[n].holds => m = n

\* The rows' side: an excluded container that is offered an update has the flag,
\* but for the ones that lost it.
Flagged == \A c \in listed : c \in available => c \in excluded \/ c \in unmarked

\* The types of everything but the requests, and of the requests.
Plain ==
    /\ page \in [Tabs -> Document]
    /\ jar \in 0..MaxUpsets /\ logins \in 0..MaxUpsets
    /\ up \in BOOLEAN /\ maintenance \in BOOLEAN
    /\ available \subseteq Containers /\ previous \subseteq Containers
    /\ excluded \subseteq Containers /\ listed \subseteq Containers /\ unmarked \subseteq Containers
    /\ faults \in 0..MaxUpsets
Types == Plain /\ req \in Seq(Request) /\ Len(req) <= MaxClicks

PageInv == Types /\ Guarded /\ Flagged /\ \A n \in DOMAIN req : Sound(req[n], jar)

\* What "Update all" may queue for request n.
MayQueue(n, c) ==
    /\ c \in listed => c \in unmarked
    /\ c = Self => faults' > faults
    /\ StackParam(req[n].button) \in {"every", StackOf[c]}

\* One step of one request: what it becomes is sound, a request on its way is not
\* refused for its token unless it was raced, and only what may be is queued.
Served(n, s) ==
    /\ Sound(s, jar')
    /\ req[n].phase = "clicked" /\ s.outcome = "csrf" => req[n].raced
    /\ \A c \in s.queue \ req[n].queue : MayQueue(n, c)

\* What the whole step owes: the invariant, no refusal without a race, and
\* batches in their bounds.
NoFalseRefusal ==
    \A n \in DOMAIN req : req[n].phase = "clicked" /\ req'[n].outcome = "csrf" => req[n].raced
InBounds == \A n \in DOMAIN req : \A c \in Queued(n) : MayQueue(n, c)
Owed == PageInv' /\ NoFalseRefusal /\ InBounds

-----------------------------------------------------------------------------
\* The button of an operation names a container.
LEMMA OperationButton ==
    ASSUME NEW b \in Buttons, b[1] \in {"update", "rollback"} PROVE b[2] \in Containers
<1>1. CASE b \in {"update", "rollback"} \X Containers
  BY <1>1
<1>2. CASE b \in {"stack"} \X Stacks
  BY <1>2
<1>3. CASE b = <<"global", Ungrouped>>
  BY <1>3
<1> QED
  BY <1>1, <1>2, <1>3 DEF Buttons

\* An empty document is a document.
LEMMA BlankDocument ==
    ASSUME NEW phase \in {"login", "loading", "wired", "polling", "dead"}
    PROVE  Blank(phase) \in Document
  BY DEF Blank, Document

\* What GET / returns is a document.
LEMMA RenderedDocument == Rendered \in Document /\ Loaded \in Document
<1>1. Rendered \in Document
  BY DEF Rendered, Blank, Document
<1> QED
  BY <1>1, BlankDocument DEF Loaded

\* What a click and its answer make of a document is one; only a success arms the
\* reload, and arming it again changes nothing.
LEMMA ClickedDocument ==
    ASSUME NEW d \in Document, NEW b \in Buttons
    PROVE  /\ spin(d, b) \in Document /\ restore(d, b) \in Document /\ armReload(d) \in Document
           /\ [d EXCEPT !.phase = "wired"] \in Document
           /\ restore(d, b).reload = d.reload
           /\ d.reload => armReload(d) = d
<1>1. spin(d, b) \in Document
  BY DEF spin, Document
<1>2. restore(d, b) \in Document /\ restore(d, b).reload = d.reload
  BY DEF restore, Document
<1>3. armReload(d) \in Document /\ (d.reload => armReload(d) = d)
  BY DEF armReload, Document
<1>4. [d EXCEPT !.phase = "wired"] \in Document
  BY DEF Document
<1> QED
  BY <1>1, <1>2, <1>3, <1>4

\* A request the browser is finished with is sound, and keeps what it has queued
\* and holds.
LEMMA DoneIsSound ==
    ASSUME PageInv, NEW r, NEW i, NEW j, Sound(r, i)
    PROVE  /\ Sound(Done(r), j) /\ Done(r).outcome = "none"
           /\ Done(r).queue = r.queue /\ Done(r).holds = r.holds
<1> DEFINE t == CHOOSE t \in Tabs : TRUE
           q == NewRequest(t, <<"global", Ungrouped>>, FALSE)
           d == [q EXCEPT !.phase = "done", !.token = 0, !.queue = r.queue, !.holds = r.holds]
<1>1. Done(r) = d /\ r \in Request
  BY DEF Done, Sound
<1>2. t \in Tabs /\ <<"global", Ungrouped>> \in Buttons
  BY <1>1 DEF Request, Buttons
<1>3. getCookie \in 0..MaxUpsets /\ 0 \in 0..MaxUpsets
  BY PageAssumption DEF getCookie, PageInv, Types, Plain
<1> HIDE DEF t
<1>4. q \in Request /\ q.button = <<"global", Ungrouped>> /\ q.outcome = "none"
  BY <1>2, <1>3 DEF NewRequest, Request, Answers
<1> HIDE DEF q
<1>5. /\ d \in Request /\ d.button = q.button /\ d.outcome = q.outcome
      /\ d.phase = "done" /\ d.queue = r.queue /\ d.holds = r.holds
  BY <1>1, <1>3, <1>4 DEF Request
<1> HIDE DEF d
<1> QED
  BY <1>1, <1>4, <1>5 DEF Sound

\* A request whose document is replaced.
LEMMA OrphanIsSound ==
    ASSUME PageInv, NEW r, NEW j, Sound(r, j)
    PROVE  /\ Sound(Orphan(r), j) /\ Orphan(r).outcome \in {"none", r.outcome}
           /\ Orphan(r).queue = r.queue /\ Orphan(r).holds = r.holds
<1>1. CASE r.phase \in {"answered", "resting"}
  <2>1. Orphan(r) = Done(r)
    BY <1>1 DEF Orphan
  <2> QED
    BY <2>1, DoneIsSound
<1>2. CASE r.phase \notin {"answered", "resting"}
  <2> DEFINE s == [r EXCEPT !.orphan = r.phase # "done"]
  <2>1. r \in Request
    BY DEF Sound
  <2>2. /\ s \in Request /\ s.phase = r.phase /\ s.outcome = r.outcome /\ s.raced = r.raced
        /\ s.token = r.token /\ s.button = r.button /\ s.queue = r.queue /\ s.holds = r.holds
    BY <2>1 DEF Request
  <2>3. Orphan(r) = s
    BY <1>2 DEF Orphan
  <2> HIDE DEF s
  <2> QED
    BY <1>2, <2>2, <2>3 DEF Sound
<1> QED
  BY <1>1, <1>2

\* A request on its way when the cookies change.
LEMMA RacedIsSound ==
    ASSUME PageInv, NEW n \in DOMAIN req, NEW j
    PROVE  /\ Sound(Raced(req)[n], j) /\ Raced(req)[n].outcome = req[n].outcome
           /\ Raced(req)[n].queue = req[n].queue /\ Raced(req)[n].holds = req[n].holds
<1> DEFINE r == req[n]
           s == [r EXCEPT !.raced = TRUE]
<1>1. Sound(r, jar) /\ r \in Request
  BY DEF Sound, PageInv
<1>2. /\ s \in Request /\ s.phase = r.phase /\ s.outcome = r.outcome /\ s.raced
      /\ s.token = r.token /\ s.button = r.button /\ s.queue = r.queue /\ s.holds = r.holds
      /\ s.answer = r.answer
  BY <1>1 DEF Request
<1>3. Raced(req)[n] = IF r.phase = "clicked" THEN s ELSE r
  BY DEF Raced
<1> HIDE DEF s
<1> QED
  BY <1>1, <1>2, <1>3 DEF Sound

-----------------------------------------------------------------------------
\* The requests as a function on their places.
LEMMA RequestsAreAFunction ==
    ASSUME PageInv
    PROVE  /\ req \in [DOMAIN req -> Request] /\ DOMAIN req = 1..Len(req) /\ Len(req) \in Nat
           /\ \A n \in DOMAIN req : req[n] \in Request /\ Sound(req[n], jar)
<1>1. req \in Seq(Request)
  BY DEF PageInv, Types
<1> QED
  BY <1>1 DEF PageInv

\* A step that keeps the number of requests owes only what it says of each.
LEMMA SameRequests ==
    ASSUME PageInv, Plain', Guarded', Flagged', NEW rs \in [DOMAIN req -> Request], req' = rs,
           \A n \in DOMAIN req : Served(n, rs[n])
    PROVE  Owed
<1>1. rs \in Seq(Request) /\ Len(rs) = Len(req) /\ DOMAIN rs = DOMAIN req
  BY RequestsAreAFunction
<1>2. Types'
  BY <1>1 DEF PageInv, Types
<1>3. \A n \in DOMAIN req' : Sound(req'[n], jar')
  BY <1>1 DEF Served
<1>4. PageInv'
  BY <1>2, <1>3 DEF PageInv
<1>5. NoFalseRefusal /\ InBounds
  BY DEF NoFalseRefusal, InBounds, Served, Queued
<1> QED
  BY <1>4, <1>5 DEF Owed

\* The gate does not close on a held key, and nobody takes one.
Released(rs) ==
    /\ maintenance' => maintenance \/ Held = {}
    /\ \A n \in DOMAIN req : rs[n].holds \subseteq req[n].holds

\* A step that takes no key keeps the guard's side of the invariant.
LEMMA GuardReleased ==
    ASSUME PageInv, NEW rs, DOMAIN rs = DOMAIN req, req' = rs, Released(rs)
    PROVE  Guarded'
<1>1. maintenance' => \A n \in DOMAIN req : req[n].holds = {}
  BY DEF PageInv, Guarded, Released, Held
<1>2. maintenance' => \A n \in DOMAIN rs : rs[n].holds = {}
  BY <1>1 DEF Released
<1>3. ASSUME NEW m \in DOMAIN rs, NEW n \in DOMAIN rs, NEW c \in Containers,
             <<c, "name">> \in rs[m].holds, <<c, "name">> \in rs[n].holds
      PROVE  m = n
  BY <1>3 DEF PageInv, Guarded, Released
<1> QED
  BY <1>2, <1>3 DEF Guarded

\* A step of one request that leaves the cookie alone.
LEMMA OneRequest ==
    ASSUME PageInv, Plain', Guarded', Flagged', UNCHANGED jar, NEW n \in DOMAIN req,
           NEW rs \in [DOMAIN req -> Request],
           req' = rs, \A m \in DOMAIN req \ {n} : rs[m] = req[m], Served(n, rs[n])
    PROVE  Owed
<1>1. ASSUME NEW m \in DOMAIN req, m # n PROVE Served(m, rs[m])
  <2>1. Sound(req[m], jar) /\ rs[m] = req[m]
    BY <1>1 DEF PageInv
  <2> QED
    BY <2>1 DEF Served, Sound
<1> QED
  BY <1>1, SameRequests

\* And one that takes no key.
LEMMA OneRelease ==
    ASSUME PageInv, Plain', Flagged', UNCHANGED jar, NEW n \in DOMAIN req,
           NEW rs \in [DOMAIN req -> Request],
           req' = rs, \A m \in DOMAIN req \ {n} : rs[m] = req[m], Served(n, rs[n]),
           rs[n].holds \subseteq req[n].holds, maintenance' => maintenance \/ Held = {}
    PROVE  Owed
<1>1. Released(rs)
  BY DEF Released
<1>2. Guarded'
  BY <1>1, GuardReleased
<1> QED
  BY <1>2, OneRequest

\* And one that takes a key the guard grants.
LEMMA OneBegins ==
    ASSUME PageInv, Plain', Flagged', UNCHANGED <<jar, maintenance>>, NEW n \in DOMAIN req,
           NEW rs \in [DOMAIN req -> Request],
           req' = rs, \A m \in DOMAIN req \ {n} : rs[m] = req[m], Served(n, rs[n]),
           NEW k \in Keys, beginAllowed(k), rs[n].holds = {k}
    PROVE  Owed
<1>1. ~maintenance' /\ (k[2] = "name" => \A m \in DOMAIN req : k \notin req[m].holds)
  BY DEF beginAllowed, Held
<1>2. ASSUME NEW l \in DOMAIN req, NEW m \in DOMAIN req, NEW c \in Containers,
             <<c, "name">> \in rs[l].holds, <<c, "name">> \in rs[m].holds
      PROVE  l = m
  <2>1. CASE l = n /\ m # n
    BY <1>1, <1>2, <2>1
  <2>2. CASE l # n /\ m = n
    BY <1>1, <1>2, <2>2
  <2>3. CASE l # n /\ m # n
    BY <1>2, <2>3 DEF PageInv, Guarded
  <2> QED
    BY <2>1, <2>2, <2>3
<1>3. Guarded'
  BY <1>1, <1>2 DEF Guarded
<1> QED
  BY <1>3, OneRequest

\* What Begun, Answer and Finished make of a request.
LEMMA BegunIs ==
    ASSUME PageInv, NEW n \in DOMAIN req
    PROVE  /\ Begun(n) \in [DOMAIN req -> Request] /\ Begun(n)[n] \in Request
           /\ \A m \in DOMAIN req \ {n} : Begun(n)[m] = req[m]
           /\ Begun(n)[n].phase = "running" /\ Begun(n)[n].outcome = req[n].outcome
           /\ Begun(n)[n].queue = req[n].queue /\ Begun(n)[n].button = req[n].button
<1>1. req \in [DOMAIN req -> Request] /\ req[n] \in Request /\ 0 \in 0..MaxUpsets
  BY RequestsAreAFunction, PageAssumption
<1> DEFINE s == [req[n] EXCEPT !.phase = "running", !.token = 0, !.raced = FALSE]
<1>2. /\ s \in Request /\ s.phase = "running" /\ s.outcome = req[n].outcome
      /\ s.queue = req[n].queue /\ s.button = req[n].button
  BY <1>1 DEF Request
<1>3. Begun(n) = [req EXCEPT ![n] = s]
  BY <1>1 DEF Begun
<1> HIDE DEF s
<1> QED
  BY <1>1, <1>2, <1>3

\* An answered request keeps its button and its queue, and holds nothing.
LEMMA AnswerIs ==
    ASSUME PageInv, NEW n \in DOMAIN req, NEW a \in Answers
    PROVE  /\ Answer(n, a) \in [DOMAIN req -> Request] /\ Answer(n, a)[n] \in Request
           /\ \A m \in DOMAIN req \ {n} : Answer(n, a)[m] = req[m]
           /\ Answer(n, a)[n].phase = "answered" /\ Answer(n, a)[n].holds = {}
           /\ Answer(n, a)[n].answer = a /\ Answer(n, a)[n].outcome = a
           /\ Answer(n, a)[n].queue = req[n].queue /\ Answer(n, a)[n].button = req[n].button
<1> DEFINE rs == Begun(n)
<1>1. /\ rs \in [DOMAIN req -> Request] /\ rs[n] \in Request
      /\ \A m \in DOMAIN req \ {n} : rs[m] = req[m]
      /\ rs[n].queue = req[n].queue /\ rs[n].button = req[n].button
  BY BegunIs
<1> HIDE DEF rs
<1> DEFINE s == [rs[n] EXCEPT !.phase = "answered", !.answer = a, !.outcome = a, !.holds = {}]
<1>2. /\ s \in Request /\ s.phase = "answered" /\ s.answer = a /\ s.outcome = a
      /\ s.queue = rs[n].queue /\ s.button = rs[n].button /\ s.holds = {}
  BY <1>1 DEF Request
<1>3. Answer(n, a) = [rs EXCEPT ![n] = s]
  BY <1>1 DEF Answer, rs
<1> HIDE DEF s
<1> QED
  BY <1>1, <1>2, <1>3

\* A finished one may leave a batch behind.
LEMMA FinishedIs ==
    ASSUME PageInv, NEW n \in DOMAIN req
    PROVE  /\ Finished(n) \in [DOMAIN req -> Request]
           /\ \A m \in DOMAIN req \ {n} : Finished(n)[m] = req[m]
           /\ Served(n, Finished(n)[n]) /\ Finished(n)[n].holds = req[n].holds
           /\ Finished(n)[n].outcome = "none" /\ Finished(n)[n].queue = req[n].queue
<1> DEFINE d == Done(req[n])
<1>1. req \in [DOMAIN req -> Request] /\ Sound(req[n], jar)
  BY RequestsAreAFunction
<1>2. Sound(d, jar') /\ d.outcome = "none" /\ d.queue = req[n].queue /\ d.holds = req[n].holds
  BY <1>1, DoneIsSound
<1>3. Finished(n) = [req EXCEPT ![n] = d]
  BY DEF Finished
<1> HIDE DEF d
<1>4. d \in Request
  BY <1>2 DEF Sound
<1>5. Served(n, d)
  BY <1>2 DEF Served
<1> QED
  BY <1>1, <1>2, <1>3, <1>4, <1>5

-----------------------------------------------------------------------------
\* The documents of the tabs but one stay; the requests of that one are orphaned.
\* The cookie may change with it if the requests on their way are marked.
LEMMA ReplaceKeeps ==
    ASSUME PageInv, UNCHANGED <<server, faults>>, jar' \in 0..MaxUpsets, logins' \in 0..MaxUpsets,
           NEW t \in Tabs, NEW d \in Document, NEW rs \in [DOMAIN req -> Request],
           Replace(t, d, rs), \A n \in DOMAIN req : Served(n, rs[n]) /\ rs[n].holds \subseteq req[n].holds
    PROVE  Owed
<1> DEFINE os == [n \in DOMAIN rs |-> IF rs[n].tab = t THEN Orphan(rs[n]) ELSE rs[n]]
<1>1. req' = os /\ page' = [page EXCEPT ![t] = d] /\ DOMAIN os = DOMAIN req
  BY DEF Replace
<1>2. ASSUME NEW n \in DOMAIN req
      PROVE  os[n] \in Request /\ Served(n, os[n]) /\ os[n].holds \subseteq req[n].holds
  <2>1. Sound(rs[n], jar')
    BY DEF Served
  <2>2. /\ Sound(Orphan(rs[n]), jar') /\ Orphan(rs[n]).outcome \in {"none", rs[n].outcome}
        /\ Orphan(rs[n]).queue = rs[n].queue /\ Orphan(rs[n]).holds = rs[n].holds
    BY <2>1, OrphanIsSound
  <2>3. os[n] = Orphan(rs[n]) \/ os[n] = rs[n]
    OBVIOUS
  <2> HIDE DEF os
  <2>4. Served(n, os[n]) /\ os[n].holds \subseteq req[n].holds
    BY <2>1, <2>2, <2>3 DEF Served
  <2> QED
    BY <2>4 DEF Served, Sound
<1>3. os \in [DOMAIN req -> Request]
  BY <1>2
<1> HIDE DEF os
<1>4. Plain' /\ Flagged'
  BY <1>1 DEF PageInv, Types, Plain, Flagged, server, gate, table
<1>5. Released(os)
  BY <1>2 DEF Released, server, gate
<1>6. Guarded'
  BY <1>1, <1>5, GuardReleased
<1> QED
  BY <1>1, <1>2, <1>3, <1>4, <1>6, SameRequests

\* The requests as they are, and as a change of the cookies leaves them.
LEMMA UnchangedServed ==
    ASSUME PageInv, UNCHANGED jar
    PROVE  \A n \in DOMAIN req : Served(n, req[n])
  BY DEF PageInv, Served, Sound

\* When the cookies change, the requests on their way are marked and owe nothing.
LEMMA RacedServed ==
    ASSUME PageInv
    PROVE  /\ Raced(req) \in [DOMAIN req -> Request]
           /\ \A n \in DOMAIN req : Served(n, Raced(req)[n]) /\ Raced(req)[n].holds = req[n].holds
<1>1. ASSUME NEW n \in DOMAIN req
      PROVE  /\ Raced(req)[n] \in Request /\ Served(n, Raced(req)[n])
             /\ Raced(req)[n].holds = req[n].holds
  <2>1. /\ Sound(Raced(req)[n], jar') /\ Raced(req)[n].outcome = req[n].outcome
        /\ Raced(req)[n].queue = req[n].queue /\ Raced(req)[n].holds = req[n].holds
    BY RacedIsSound
  <2>2. req[n].phase = "clicked" => req[n].outcome = "none"
    BY DEF PageInv, Sound
  <2>3. Raced(req)[n] \in Request
    BY <2>1 DEF Sound
  <2> QED
    BY <2>1, <2>2, <2>3 DEF Served
<1>2. Raced(req) = [n \in DOMAIN req |-> Raced(req)[n]]
  BY DEF Raced
<1> QED
  BY <1>1, <1>2

\* The steps of a tab that replace its document.
LEMMA LoadKeeps == ASSUME PageInv, NEW t \in Tabs, Load(t) PROVE Owed
<1>1. Loaded \in Document /\ req \in [DOMAIN req -> Request]
  BY RenderedDocument, RequestsAreAFunction
<1>2. Replace(t, Loaded, req) /\ UNCHANGED <<server, jar, logins, faults>>
  BY DEF Load, session
<1>3. jar' \in 0..MaxUpsets /\ logins' \in 0..MaxUpsets
  BY <1>2 DEF PageInv, Types, Plain
<1>4. \A n \in DOMAIN req : Served(n, req[n]) /\ req[n].holds \subseteq req[n].holds
  BY <1>2, UnchangedServed
<1> QED
  BY <1>1, <1>2, <1>3, <1>4, ReplaceKeeps

\* A login and a logout keep the cookie a number of a login.
LEMMA CookieType ==
    ASSUME PageInv, handleLogin \/ handleLogout
    PROVE  UNCHANGED <<server, faults>> /\ jar' \in 0..MaxUpsets /\ logins' \in 0..MaxUpsets
<1>1. logins \in 0..MaxUpsets /\ faults \in 0..MaxUpsets /\ MaxUpsets \in Nat
  BY PageAssumption DEF PageInv, Types, Plain
<1> QED
  BY <1>1 DEF handleLogin, handleLogout

\* A login or logout from a tab replaces its document and both cookies.
LEMMA LoginKeeps == ASSUME PageInv, NEW t \in Tabs, Login(t) \/ Logout(t) PROVE Owed
<1>1. PICK d \in Document : Replace(t, d, Raced(req))
  BY RenderedDocument, BlankDocument DEF Login, Logout
<1>2. UNCHANGED <<server, faults>> /\ jar' \in 0..MaxUpsets /\ logins' \in 0..MaxUpsets
  BY CookieType DEF Login, Logout
<1> QED
  BY <1>1, <1>2, RacedServed, ReplaceKeeps

\* A login or a logout in a tab on some other page.
LEMMA ElsewhereKeeps == ASSUME PageInv, Elsewhere PROVE Owed
<1>1. UNCHANGED <<server, faults>> /\ jar' \in 0..MaxUpsets /\ logins' \in 0..MaxUpsets
  BY CookieType DEF Elsewhere
<1>2. req' = Raced(req) /\ page' = page
  BY DEF Elsewhere
<1>3. /\ Raced(req) \in [DOMAIN req -> Request]
      /\ \A n \in DOMAIN req : Served(n, Raced(req)[n]) /\ Raced(req)[n].holds = req[n].holds
  BY RacedServed
<1>4. Plain' /\ Flagged'
  BY <1>1, <1>2 DEF PageInv, Types, Plain, Flagged, server, gate, table
<1>5. Released(Raced(req)) /\ DOMAIN Raced(req) = DOMAIN req
  BY <1>1, <1>3 DEF Released, Raced, server, gate
<1>6. Guarded'
  BY <1>2, <1>5, GuardReleased
<1> QED
  BY <1>2, <1>3, <1>4, <1>6, SameRequests

-----------------------------------------------------------------------------
\* A step that leaves the requests and the session alone.
LEMMA RequestsStay ==
    ASSUME PageInv, Plain', Flagged', UNCHANGED <<req, jar, maintenance>>
    PROVE  Owed
<1>1. Released(req) /\ DOMAIN req = DOMAIN req
  BY DEF Released
<1>2. Guarded'
  BY <1>1, GuardReleased
<1> QED
  BY <1>2, RequestsAreAFunction, UnchangedServed, SameRequests

\* The script of a document runs.
LEMMA WireKeeps == ASSUME PageInv, NEW t \in Tabs, Wire(t) PROVE Owed
<1>1. req' = req /\ UNCHANGED <<server, session, faults>>
      /\ page' = [page EXCEPT ![t] = [page[t] EXCEPT !.phase = "wired"]]
  BY DEF Wire, PageInv, Types, Plain
<1>2. page[t] \in Document
  BY DEF PageInv, Types, Plain
<1>3. [page[t] EXCEPT !.phase = "wired"] \in Document
  BY <1>2 DEF Document
<1>4. Plain' /\ Flagged'
  BY <1>1, <1>3 DEF PageInv, Types, Plain, Flagged, server, gate, table, session
<1> QED
  BY <1>1, <1>4, RequestsStay DEF server, gate, session

\* The exclusions are saved, and applied or not.
LEMMA SetExclusionsKeeps == ASSUME PageInv, handleSetExclusions PROVE Owed
<1>1. /\ UNCHANGED <<page, req, gate, available, previous, session>> /\ Fault
      /\ listed' \in SUBSET Containers
      /\ \/ excluded' = listed' /\ unmarked' = {}
         \/ excluded' = excluded /\ unmarked' = listed' \ excluded
  BY PageAssumption DEF handleSetExclusions
<1>2. faults' \in 0..MaxUpsets
  <2>1. logins \in 0..MaxUpsets /\ faults \in 0..MaxUpsets /\ MaxUpsets \in Nat
    BY PageAssumption DEF PageInv, Types, Plain
  <2> QED
    BY <1>1, <2>1 DEF Fault
<1>3. Plain'
  BY <1>1, <1>2 DEF PageInv, Types, Plain, gate, session
<1>4. Flagged'
  BY <1>1 DEF Flagged
<1> QED
  BY <1>1, <1>3, <1>4, RequestsStay DEF gate, session

\* A click appends a request, to the requests as they are or as the click
\* leaves them.
LEMMA ClickAppends ==
    ASSUME PageInv, Plain', UNCHANGED <<server, session, faults>>, Len(req) < MaxClicks,
           NEW rs \in [DOMAIN req -> Request],
           \A n \in DOMAIN req : Served(n, rs[n]) /\ rs[n].holds \subseteq req[n].holds,
           NEW t \in Tabs, NEW b \in Buttons, NEW form \in BOOLEAN,
           req' = Append(rs, NewRequest(t, b, form))
    PROVE  Owed
<1> DEFINE q == NewRequest(t, b, form)
<1>1. getCookie = jar' /\ getCookie \in 0..MaxUpsets
  BY DEF getCookie, PageInv, Types, Plain, session
<1>2. /\ q \in Request /\ q.phase = "clicked" /\ q.outcome = "none" /\ q.token = jar'
      /\ q.queue = {} /\ q.holds = {}
  BY <1>1 DEF NewRequest, Request, Answers
<1> HIDE DEF q
<1>3. /\ rs \in Seq(Request) /\ Len(rs) = Len(req) /\ DOMAIN rs = DOMAIN req
      /\ DOMAIN req = 1..Len(req) /\ Len(req) \in Nat
  BY RequestsAreAFunction
<1>4. /\ req' \in Seq(Request) /\ Len(req') = Len(req) + 1 /\ DOMAIN req' = 1..(Len(req) + 1)
      /\ req'[Len(req) + 1] = q /\ \A n \in DOMAIN req : req'[n] = rs[n]
  BY <1>2, <1>3 DEF q
<1>5. Types'
  BY <1>4, <1>3, PageAssumption DEF Types
<1>6. ASSUME NEW n \in DOMAIN req' PROVE n \in DOMAIN req \/ n = Len(req) + 1
  BY <1>3, <1>4
<1>7. Sound(q, jar')
  BY <1>2 DEF Sound
<1>8. ASSUME NEW n \in DOMAIN req' PROVE Sound(req'[n], jar')
  <2>1. n \in DOMAIN req => Sound(req'[n], jar')
    BY <1>4 DEF Served
  <2> QED
    BY <1>4, <1>6, <1>7, <2>1
<1>9. Guarded'
  <2>1. ASSUME NEW n \in DOMAIN req', req'[n].holds # {}
        PROVE  n \in DOMAIN req /\ req'[n].holds \subseteq req[n].holds
    BY <1>2, <1>4, <1>6, <2>1
  <2>2. maintenance' = maintenance
    BY DEF server, gate
  <2>3. ASSUME NEW m \in DOMAIN req', NEW n \in DOMAIN req', NEW c \in Containers,
               <<c, "name">> \in req'[m].holds, <<c, "name">> \in req'[n].holds
        PROVE  m = n
    BY <2>1, <2>3 DEF PageInv, Guarded
  <2>4. ASSUME maintenance', NEW n \in DOMAIN req' PROVE req'[n].holds = {}
    BY <2>1, <2>2, <2>4 DEF PageInv, Guarded
  <2> QED
    BY <2>3, <2>4 DEF Guarded
<1>10. NoFalseRefusal /\ InBounds
  BY <1>4 DEF NoFalseRefusal, InBounds, Queued, Served
<1>11. Flagged'
  BY DEF PageInv, Flagged, server, table
<1> QED
  BY <1>5, <1>8, <1>9, <1>10, <1>11 DEF PageInv, Owed

\* A click handled by a script, or a form submitted before the script has run.
LEMMA ClickKeeps ==
    ASSUME PageInv, NEW t \in Tabs, NEW b \in Buttons, ClickFetch(t, b) \/ ClickSubmit(t, b)
    PROVE  Owed
<1>1. CASE ClickFetch(t, b)
  <2>1. /\ req' = Append(req, NewRequest(t, b, FALSE)) /\ Len(req) < MaxClicks
        /\ UNCHANGED <<server, session, faults>>
        /\ page' = [page EXCEPT ![t] = spin(page[t], b)] /\ page[t] \in Document
    BY <1>1 DEF ClickFetch, PageInv, Types, Plain
  <2>2. Plain'
    BY <2>1, ClickedDocument DEF PageInv, Types, Plain, server, gate, table, session
  <2>3. \A n \in DOMAIN req : Served(n, req[n]) /\ req[n].holds \subseteq req[n].holds
    BY <2>1, UnchangedServed DEF session
  <2> QED
    BY <2>1, <2>2, <2>3, RequestsAreAFunction, ClickAppends
<1>2. CASE ClickSubmit(t, b)
  <2> DEFINE os == [n \in DOMAIN req |-> IF req[n].tab = t /\ req[n].form THEN Orphan(req[n]) ELSE req[n]]
  <2>1. /\ req' = Append(os, NewRequest(t, b, TRUE)) /\ Len(req) < MaxClicks
        /\ UNCHANGED <<server, session, faults>> /\ UNCHANGED page
    BY <1>2 DEF ClickSubmit
  <2>2. Plain'
    BY <2>1 DEF PageInv, Types, Plain, server, gate, table, session
  <2>3. ASSUME NEW n \in DOMAIN req
        PROVE  os[n] \in Request /\ Served(n, os[n]) /\ os[n].holds \subseteq req[n].holds
    <3>1. Served(n, req[n]) /\ Sound(req[n], jar')
      BY <2>1, UnchangedServed DEF session, Served
    <3>2. /\ Sound(Orphan(req[n]), jar') /\ Orphan(req[n]).outcome \in {"none", req[n].outcome}
          /\ Orphan(req[n]).queue = req[n].queue /\ Orphan(req[n]).holds = req[n].holds
      BY <3>1, OrphanIsSound
    <3>3. os[n] = Orphan(req[n]) \/ os[n] = req[n]
      OBVIOUS
    <3> HIDE DEF os
    <3>4. Served(n, os[n]) /\ os[n].holds \subseteq req[n].holds
      BY <3>1, <3>2, <3>3 DEF Served
    <3> QED
      BY <3>4 DEF Served, Sound
  <2>4. os \in [DOMAIN req -> Request]
    BY <2>3
  <2> HIDE DEF os
  <2> QED
    BY <2>1, <2>2, <2>3, <2>4, ClickAppends
<1> QED
  BY <1>1, <1>2

-----------------------------------------------------------------------------
\* A bounded step keeps its counter in bounds.
LEMMA UnlessType ==
    ASSUME PageInv, NEW f, Unless(f)
    PROVE  faults' \in 0..MaxUpsets /\ (f => faults' > faults)
<1>1. logins \in 0..MaxUpsets /\ faults \in 0..MaxUpsets /\ MaxUpsets \in Nat
  BY PageAssumption DEF PageInv, Types, Plain
<1> QED
  BY <1>1 DEF Unless, Fault

LEMMA FaultType == ASSUME PageInv, Fault PROVE faults' \in 0..MaxUpsets
<1>1. logins \in 0..MaxUpsets /\ faults \in 0..MaxUpsets /\ MaxUpsets \in Nat
  BY PageAssumption DEF PageInv, Types, Plain
<1> QED
  BY <1>1 DEF Fault

\* A request that is answered is sound.
LEMMA AnsweredIsSound ==
    ASSUME PageInv, NEW n \in DOMAIN req, NEW s \in Request,
           s.phase = "answered", s.answer = s.outcome, s.holds = {},
           s.outcome = "csrf" => req[n].raced, s.queue \subseteq req[n].queue
    PROVE  Served(n, s)
<1>1. Sound(s, jar')
  BY DEF Sound
<1> QED
  BY <1>1 DEF Served

\* The answers that change nothing on the server, or only close the gate.
LEMMA PlainAnswer ==
    ASSUME PageInv, NEW n \in DOMAIN req, NEW a \in Answers,
           req' = Answer(n, a), UNCHANGED <<page, up, table, session>>,
           faults' \in 0..MaxUpsets,
           maintenance' \in BOOLEAN, maintenance' => maintenance \/ Held = {},
           a = "csrf" => req[n].raced
    PROVE  Owed
<1>1. /\ Answer(n, a) \in [DOMAIN req -> Request] /\ Answer(n, a)[n] \in Request
      /\ \A m \in DOMAIN req \ {n} : Answer(n, a)[m] = req[m]
      /\ Answer(n, a)[n].phase = "answered" /\ Answer(n, a)[n].holds = {}
      /\ Answer(n, a)[n].answer = a /\ Answer(n, a)[n].outcome = a
      /\ Answer(n, a)[n].queue = req[n].queue /\ Answer(n, a)[n].button = req[n].button
  BY AnswerIs
<1>2. Plain' /\ Flagged'
  BY DEF PageInv, Types, Plain, Flagged, session, table
<1>3. Served(n, Answer(n, a)[n])
  BY <1>1, AnsweredIsSound
<1>4. Answer(n, a)[n].holds \subseteq req[n].holds
  BY <1>1
<1> QED
  BY <1>1, <1>2, <1>3, <1>4, OneRelease DEF session

\* No daemon, a refused token or session, an error, a self-update accepted or
\* refused.
LEMMA ReceiveKeeps ==
    ASSUME PageInv, NEW n \in DOMAIN req,
           ReceiveNothing(n) \/ ReceiveRefused(n) \/ ReceiveError(n) \/ ReceiveSelf(n)
    PROVE  Owed
<1>1. PICK a \in {"lost", "unauthenticated", "csrf", "error", "restarting", "conflict"} :
          /\ req' = Answer(n, a) /\ UNCHANGED <<page, up, table, session>>
          /\ faults' \in 0..MaxUpsets /\ maintenance' \in BOOLEAN
          /\ maintenance' => maintenance \/ Held = {}
          /\ a = "csrf" => req[n].raced
  <2>1. maintenance \in BOOLEAN /\ faults \in 0..MaxUpsets
    BY DEF PageInv, Types, Plain
  <2>2. CASE ReceiveNothing(n)
    BY <2>1, <2>2 DEF ReceiveNothing, server, gate
  <2>3. CASE ReceiveRefused(n)
    <3>1. req[n].phase = "clicked" => req[n].raced \/ req[n].token = jar
      BY DEF PageInv, Sound
    <3> QED
      BY <2>1, <2>3, <3>1 DEF ReceiveRefused, server, gate
  <2>4. CASE ReceiveError(n)
    <3>1. faults' \in 0..MaxUpsets
      BY <2>4, FaultType DEF ReceiveError
    <3> QED
      BY <2>1, <2>4, <3>1 DEF ReceiveError, server, gate
  <2>5. CASE ReceiveSelf(n)
    <3>1. /\ UNCHANGED <<page, up, table, session, faults>>
          /\ \/ Held = {} /\ maintenance' = TRUE /\ req' = Answer(n, "restarting")
             \/ maintenance' = maintenance /\ req' = Answer(n, "conflict")
      BY <2>5 DEF ReceiveSelf
    <3>2. CASE Held = {} /\ maintenance' = TRUE /\ req' = Answer(n, "restarting")
      BY <2>1, <3>1, <3>2
    <3>3. CASE maintenance' = maintenance /\ req' = Answer(n, "conflict")
      BY <2>1, <3>1, <3>3
    <3> QED
      BY <3>1, <3>2, <3>3
  <2> QED
    BY <2>2, <2>3, <2>4, <2>5
<1> QED
  BY <1>1, PlainAnswer DEF Answers

\* The answer to "Update all", and the batch it starts.
LEMMA ReceiveBulkKeeps == ASSUME PageInv, NEW n \in DOMAIN req, ReceiveBulk(n) PROVE Owed
<1>1. PICK known \in {{Self}, {}} :
          LET targets == selectBulkUpdateTargets(StackParam(req[n].button), known)
          IN  /\ req' = [Answer(n, IF targets = {} THEN "nothing" ELSE "queued") EXCEPT ![n].queue = targets]
              /\ Unless(known = {})
  BY DEF ReceiveBulk
<1> DEFINE targets == selectBulkUpdateTargets(StackParam(req[n].button), known)
           a == IF targets = {} THEN "nothing" ELSE "queued"
<1>2. /\ UNCHANGED <<page, server, session>> /\ req' = [Answer(n, a) EXCEPT ![n].queue = targets]
      /\ faults' \in 0..MaxUpsets /\ (known = {} => faults' > faults)
  BY <1>1, UnlessType DEF ReceiveBulk
<1>3. targets \subseteq Containers /\ \A c \in targets : MayQueue(n, c)
  <2>1. available \subseteq Containers /\ listed \subseteq Containers /\ Flagged
    BY DEF PageInv, Types, Plain
  <2> QED
    BY <1>2, <2>1 DEF selectBulkUpdateTargets, MayQueue, Flagged
<1>4. a \in Answers /\ a # "csrf"
  BY DEF Answers
<1> HIDE DEF targets, a
<1> DEFINE rs == Answer(n, a)
<1>5. /\ rs \in [DOMAIN req -> Request] /\ rs[n] \in Request
      /\ \A m \in DOMAIN req \ {n} : rs[m] = req[m]
      /\ rs[n].phase = "answered" /\ rs[n].answer = a /\ rs[n].outcome = a
      /\ rs[n].button = req[n].button /\ rs[n].holds = {}
  BY <1>4, AnswerIs
<1>6. req' = [rs EXCEPT ![n].queue = targets]
  BY <1>2
<1> HIDE DEF rs
<1> DEFINE s == [rs[n] EXCEPT !.queue = targets]
<1>7. /\ s \in Request /\ s.phase = "answered" /\ s.answer = a /\ s.outcome = a
      /\ s.button = req[n].button /\ s.queue = targets /\ s.holds = {}
  BY <1>3, <1>5 DEF Request
<1>8. req' = [rs EXCEPT ![n] = s]
  BY <1>5, <1>6
<1> HIDE DEF s
<1>9. /\ req' \in [DOMAIN req -> Request] /\ req'[n] = s
      /\ \A m \in DOMAIN req \ {n} : req'[m] = req[m]
  BY <1>5, <1>7, <1>8
<1>10. Sound(s, jar')
  BY <1>7 DEF Sound
<1>11. Served(n, req'[n])
  BY <1>3, <1>4, <1>7, <1>9, <1>10 DEF Served
<1>12. Plain' /\ Flagged'
  BY <1>2 DEF PageInv, Types, Plain, Flagged, server, gate, table, session
<1>13. req'[n].holds \subseteq req[n].holds
  BY <1>7, <1>9
<1> QED
  BY <1>2, <1>9, <1>11, <1>12, <1>13, OneRelease DEF server, gate, session

\* An update or a rollback, refused or begun: only a key the guard grants is taken.
LEMMA ReceiveOperationKeeps == ASSUME PageInv, NEW n \in DOMAIN req, ReceiveOperation(n) PROVE Owed
<1> DEFINE b == req[n].button
<1>1. /\ req[n].phase = "clicked" /\ b[1] \in {"update", "rollback"} /\ b[2] \in Containers
      /\ UNCHANGED <<page, server, session>>
  <2>1. b \in Buttons
    BY DEF PageInv, Sound, Request
  <2> QED
    BY <2>1, OperationButton DEF ReceiveOperation, Authorised
<1>2. faults' \in 0..MaxUpsets
  BY UnlessType DEF ReceiveOperation
<1>3. ASSUME NEW a \in {"conflict", "failed"}, req' = Answer(n, a) PROVE Owed
  <2>1. maintenance' \in BOOLEAN /\ (maintenance' => maintenance \/ Held = {})
    BY <1>1 DEF PageInv, Types, Plain, server, gate
  <2> QED
    BY <1>1, <1>2, <1>3, <2>1, PlainAnswer DEF Answers, server, gate
<1>4. ASSUME NEW how \in {"name", "id"}, beginAllowed(<<b[2], how>>),
             req' = [Begun(n) EXCEPT ![n].holds = {<<b[2], how>>}]
      PROVE  Owed
  <2> DEFINE k == <<b[2], how>>
             rs == Begun(n)
             s == [rs[n] EXCEPT !.holds = {k}]
  <2>1. /\ rs \in [DOMAIN req -> Request] /\ rs[n] \in Request
        /\ \A m \in DOMAIN req \ {n} : rs[m] = req[m]
        /\ rs[n].phase = "running" /\ rs[n].outcome = req[n].outcome
        /\ rs[n].queue = req[n].queue /\ rs[n].button = b
    BY BegunIs
  <2>2. k \in Keys
    BY <1>1 DEF Keys
  <2>3. req' = [rs EXCEPT ![n].holds = {k}]
    BY <1>4
  <2> HIDE DEF rs
  <2>4. /\ s \in Request /\ s.phase = "running" /\ s.outcome = req[n].outcome
        /\ s.queue = req[n].queue /\ s.button = b /\ s.holds = {k}
    BY <2>1, <2>2 DEF Request
  <2>5. req' = [rs EXCEPT ![n] = s]
    BY <2>1, <2>3
  <2> HIDE DEF s
  <2>6. /\ req' \in [DOMAIN req -> Request] /\ req'[n] = s
        /\ \A m \in DOMAIN req \ {n} : req'[m] = req[m]
    BY <2>1, <2>4, <2>5
  <2>7. Sound(req[n], jar)
    BY DEF PageInv
  <2>8. Sound(s, jar')
    BY <1>1, <2>4, <2>7 DEF Sound
  <2>9. Served(n, req'[n])
    BY <1>1, <2>4, <2>6, <2>7, <2>8 DEF Served, Sound
  <2>10. Plain' /\ Flagged'
    BY <1>1, <1>2 DEF PageInv, Types, Plain, Flagged, server, gate, table, session
  <2>11. req'[n].holds = {k}
    BY <2>4, <2>6
  <2>12. beginAllowed(k)
    BY <1>4
  <2> HIDE DEF k
  <2> QED
    BY <1>1, <2>2, <2>6, <2>9, <2>10, <2>11, <2>12, OneBegins DEF server, gate, session
<1> QED
  <2>1. \/ req' = Answer(n, "failed") \/ req' = Answer(n, "conflict")
        \/ \E how \in {"name", "id"} : /\ beginAllowed(<<b[2], how>>)
                                        /\ req' = [Begun(n) EXCEPT ![n].holds = {<<b[2], how>>}]
    BY DEF ReceiveOperation
  <2> QED
    BY <1>3, <1>4, <2>1

\* An operation ends: the row is left, or replaced by one without the flag.
LEMMA CommitIs ==
    ASSUME PageInv, NEW c \in Containers, NEW kind, NEW end, Commit(c, kind, end),
           UNCHANGED <<page, session>>
    PROVE  Plain' /\ Flagged' /\ UNCHANGED maintenance
<1>0. UNCHANGED <<gate, listed>>
  BY DEF Commit
<1>1. CASE UNCHANGED <<available, previous, excluded, unmarked, faults>>
  BY <1>0, <1>1 DEF PageInv, Types, Plain, Flagged, gate, session
<1>2. CASE end # "failed"
  <2>1. PICK missed \in BOOLEAN :
            LET offered == end = "ok" /\ kind = "rollback" /\ ~missed
                kept    == end = "ok" \/ (c \in previous /\ ~missed)
            IN  /\ available' = IF offered THEN available \cup {c} ELSE available \ {c}
                /\ previous' = IF kept THEN previous \cup {c} ELSE previous \ {c}
                /\ unmarked' = IF offered THEN unmarked \cup ({c} \cap listed) ELSE unmarked \ {c}
                /\ Unless(missed)
    BY <1>2 DEF Commit
  <2>2. excluded' = excluded \ {c} /\ faults' \in 0..MaxUpsets
    BY <1>2, <2>1, UnlessType DEF Commit
  <2>3. Plain
    BY DEF PageInv, Types
  <2>4. /\ available' \subseteq Containers /\ previous' \subseteq Containers
        /\ unmarked' \subseteq Containers /\ excluded' \subseteq Containers
    BY <2>1, <2>2, <2>3 DEF Plain
  <2>5. Plain'
    BY <1>0, <2>2, <2>3, <2>4 DEF Plain, gate, session
  <2>6. Flagged'
    BY <1>0, <2>1, <2>2 DEF PageInv, Flagged
  <2> QED
    BY <1>0, <2>5, <2>6 DEF gate
<1> QED
  BY <1>0, <1>1, <1>2 DEF Commit

\* The end of an update or a rollback and its answer.
LEMMA FinishKeeps == ASSUME PageInv, NEW n \in DOMAIN req, Finish(n) PROVE Owed
<1>1. PICK end \in Ends :
          /\ Commit(req[n].button[2], req[n].button[1], end)
          /\ req' = Answer(n, IF end = "ok" THEN "ok" ELSE "failed")
  BY DEF Finish
<1> DEFINE a == IF end = "ok" THEN "ok" ELSE "failed"
<1>2. req[n].phase = "running" /\ Sound(req[n], jar) /\ UNCHANGED <<page, session>>
  BY DEF Finish, PageInv
<1>3. req[n].button[2] \in Containers
  BY <1>2, OperationButton DEF Sound, Request
<1>4. Plain' /\ Flagged' /\ UNCHANGED maintenance
  BY <1>1, <1>2, <1>3, CommitIs
<1>5. a \in Answers /\ a # "csrf" /\ req' = Answer(n, a)
  BY <1>1 DEF Answers
<1> HIDE DEF a
<1> DEFINE rs == Answer(n, a)
<1>6. /\ rs \in [DOMAIN req -> Request] /\ rs[n] \in Request
      /\ \A m \in DOMAIN req \ {n} : rs[m] = req[m]
      /\ rs[n].phase = "answered" /\ rs[n].answer = a /\ rs[n].outcome = a
      /\ rs[n].queue = req[n].queue /\ rs[n].button = req[n].button /\ rs[n].holds = {}
  BY <1>5, AnswerIs
<1>7. req' = rs
  BY <1>5
<1> HIDE DEF rs
<1>8. Served(n, rs[n]) /\ rs[n].holds \subseteq req[n].holds
  BY <1>5, <1>6, AnsweredIsSound
<1> QED
  BY <1>2, <1>4, <1>6, <1>7, <1>8, OneRelease DEF session

\* A batch takes its next container, and its key if the guard grants it.
LEMMA BulkNextKeeps == ASSUME PageInv, NEW n \in DOMAIN req, BulkNext(n) PROVE Owed
<1>1. PICK c \in req[n].queue :
          \/ \E k \in {c} \X {"name", "id"} :
                /\ beginAllowed(k) /\ Unless(k[2] = "id")
                /\ req' = [req EXCEPT ![n].queue = req[n].queue \ {c}, ![n].holds = {k}]
          \/ req' = [req EXCEPT ![n].queue = req[n].queue \ {c}] /\ faults' = faults
  BY RequestsAreAFunction DEF BulkNext
<1>2. /\ req[n].holds = {} /\ UNCHANGED <<page, server, session>>
      /\ Sound(req[n], jar) /\ req[n] \in Request /\ req \in [DOMAIN req -> Request]
  BY RequestsAreAFunction DEF BulkNext
<1>3. c \in Containers /\ req[n].phase \notin {"clicked", "running"}
  BY <1>1, <1>2 DEF Sound, Request
<1>4. faults' \in 0..MaxUpsets
  BY <1>1, UnlessType DEF PageInv, Types, Plain
<1>5. Plain' /\ Flagged'
  BY <1>2, <1>4 DEF PageInv, Types, Plain, Flagged, server, gate, table, session
<1>6. ASSUME NEW h \in SUBSET Keys, \A k, l \in h : k = l,
             req' = [req EXCEPT ![n] = [req[n] EXCEPT !.queue = req[n].queue \ {c}, !.holds = h]]
      PROVE  /\ req' \in [DOMAIN req -> Request] /\ \A m \in DOMAIN req \ {n} : req'[m] = req[m]
             /\ Served(n, req'[n]) /\ req'[n].holds = h
  <2> DEFINE s == [req[n] EXCEPT !.queue = req[n].queue \ {c}, !.holds = h]
  <2>1. /\ s \in Request /\ s.phase = req[n].phase /\ s.outcome = req[n].outcome
        /\ s.answer = req[n].answer /\ s.raced = req[n].raced /\ s.token = req[n].token
        /\ s.button = req[n].button /\ s.queue = req[n].queue \ {c} /\ s.holds = h
    BY <1>2 DEF Request
  <2>2. req' = [req EXCEPT ![n] = s]
    BY <1>6
  <2> HIDE DEF s
  <2>3. Sound(s, jar')
    BY <1>2, <1>3, <1>6, <2>1 DEF Sound
  <2>4. Served(n, s)
    BY <1>3, <2>1, <2>3 DEF Served
  <2> QED
    BY <1>2, <2>1, <2>2, <2>4
<1>7. ASSUME NEW k \in {c} \X {"name", "id"}, beginAllowed(k),
             req' = [req EXCEPT ![n].queue = req[n].queue \ {c}, ![n].holds = {k}]
      PROVE  Owed
  <2>1. k \in Keys
    BY <1>3 DEF Keys
  <2>2. req' = [req EXCEPT ![n] = [req[n] EXCEPT !.queue = req[n].queue \ {c}, !.holds = {k}]]
    BY <1>2, <1>7
  <2>3. /\ req' \in [DOMAIN req -> Request] /\ \A m \in DOMAIN req \ {n} : req'[m] = req[m]
        /\ Served(n, req'[n]) /\ req'[n].holds = {k}
    BY <1>6, <2>1, <2>2
  <2> QED
    BY <1>2, <1>5, <1>7, <2>1, <2>3, OneBegins DEF server, gate, session
<1>8. CASE req' = [req EXCEPT ![n].queue = req[n].queue \ {c}]
  <2>1. [req[n] EXCEPT !.queue = req[n].queue \ {c}]
            = [req[n] EXCEPT !.queue = req[n].queue \ {c}, !.holds = {}]
    BY <1>2 DEF Request
  <2>2. req' = [req EXCEPT ![n] = [req[n] EXCEPT !.queue = req[n].queue \ {c}, !.holds = {}]]
    BY <1>2, <1>8, <2>1
  <2>3. /\ req' \in [DOMAIN req -> Request] /\ \A m \in DOMAIN req \ {n} : req'[m] = req[m]
        /\ Served(n, req'[n]) /\ req'[n].holds = {}
    BY <1>6, <2>2
  <2> QED
    BY <1>2, <1>5, <2>3, OneRelease DEF server, gate, session
<1> QED
  BY <1>1, <1>7, <1>8

\* The update of a batch ends.
LEMMA BulkFinishKeeps == ASSUME PageInv, NEW n \in DOMAIN req, BulkFinish(n) PROVE Owed
<1>1. PICK k \in req[n].holds, end \in Ends : Commit(k[1], "update", end)
  BY DEF BulkFinish
<1>2. /\ req[n].phase # "running" /\ UNCHANGED <<page, session>>
      /\ req' = [req EXCEPT ![n].holds = {}]
      /\ req \in [DOMAIN req -> Request] /\ Sound(req[n], jar) /\ req[n] \in Request
  BY RequestsAreAFunction DEF BulkFinish
<1>3. k[1] \in Containers
  BY <1>2 DEF Request, Keys
<1>4. Plain' /\ Flagged' /\ UNCHANGED maintenance
  BY <1>1, <1>2, <1>3, CommitIs
<1> DEFINE s == [req[n] EXCEPT !.holds = {}]
<1>5. /\ s \in Request /\ s.phase = req[n].phase /\ s.outcome = req[n].outcome
      /\ s.answer = req[n].answer /\ s.raced = req[n].raced /\ s.token = req[n].token
      /\ s.button = req[n].button /\ s.queue = req[n].queue /\ s.holds = {}
  BY <1>2 DEF Request
<1>6. req' = [req EXCEPT ![n] = s]
  BY <1>2
<1> HIDE DEF s
<1>7. /\ req' \in [DOMAIN req -> Request] /\ req'[n] = s
      /\ \A m \in DOMAIN req \ {n} : req'[m] = req[m]
  BY <1>2, <1>5, <1>6
<1>8. Sound(s, jar')
  BY <1>2, <1>5 DEF Sound, session
<1>9. Served(n, req'[n])
  BY <1>2, <1>5, <1>7, <1>8 DEF Served, Sound
<1> QED
  BY <1>2, <1>4, <1>5, <1>7, <1>9, OneRelease DEF session

\* The daemon stops: what ran is lost, and nobody holds a key.
LEMMA DownKeeps == ASSUME PageInv, Down PROVE Owed
<1> DEFINE s(n) == [req[n] EXCEPT !.queue = {}, !.holds = {},
                        !.answer = IF req[n].phase = "running" THEN "lost" ELSE req[n].answer,
                        !.outcome = IF req[n].phase = "running" THEN "lost" ELSE req[n].outcome,
                        !.phase = IF req[n].phase = "running" THEN "answered" ELSE req[n].phase]
           rs == [n \in DOMAIN req |-> s(n)]
<1>1. req' = rs
  BY DEF Down
<1>2. /\ maintenance' = FALSE /\ up' = FALSE
      /\ UNCHANGED <<page, table, session>> /\ faults' \in 0..MaxUpsets
  BY UnlessType DEF Down
<1>3. ASSUME NEW n \in DOMAIN req
      PROVE  s(n) \in Request /\ Served(n, s(n)) /\ s(n).holds \subseteq req[n].holds
  <2>1. req[n] \in Request /\ Sound(req[n], jar)
    BY RequestsAreAFunction
  <2>2. /\ s(n) \in Request /\ s(n).queue = {} /\ s(n).holds = {} /\ s(n).button = req[n].button
        /\ s(n).token = req[n].token /\ s(n).raced = req[n].raced
        /\ s(n).answer = (IF req[n].phase = "running" THEN "lost" ELSE req[n].answer)
        /\ s(n).outcome = (IF req[n].phase = "running" THEN "lost" ELSE req[n].outcome)
        /\ s(n).phase = (IF req[n].phase = "running" THEN "answered" ELSE req[n].phase)
    BY <2>1 DEF Request, Answers
  <2> HIDE DEF s
  <2>3. Sound(s(n), jar')
    BY <1>2, <2>1, <2>2 DEF Sound, session
  <2>4. req[n].phase = "clicked" => s(n).outcome # "csrf"
    BY <2>1, <2>2 DEF Sound
  <2> QED
    BY <2>2, <2>3, <2>4 DEF Served
<1>4. rs \in [DOMAIN req -> Request] /\ DOMAIN rs = DOMAIN req /\ \A n \in DOMAIN req : rs[n] = s(n)
  BY <1>3
<1> HIDE DEF s, rs
<1>5. Plain' /\ Flagged'
  BY <1>2 DEF PageInv, Types, Plain, Flagged, table, session
<1>6. Released(rs)
  BY <1>2, <1>3, <1>4 DEF Released
<1>7. Guarded'
  BY <1>1, <1>4, <1>6, GuardReleased
<1> QED
  BY <1>1, <1>3, <1>4, <1>5, <1>7, SameRequests

\* A daemon answers again.
LEMMA UpKeeps == ASSUME PageInv, Up PROVE Owed
<1>1. up' = TRUE /\ UNCHANGED <<page, req, maintenance, table, session, faults>>
  BY DEF Up
<1>2. Plain' /\ Flagged'
  BY <1>1 DEF PageInv, Types, Plain, Flagged, table, session
<1> QED
  BY <1>1, <1>2, RequestsStay DEF session

-----------------------------------------------------------------------------
\* A step of one request that leaves the server and the session alone, whether
\* the page changes or not.
LEMMA BrowserKeeps ==
    ASSUME PageInv, UNCHANGED <<server, session>>, page' \in [Tabs -> Document],
           faults' \in 0..MaxUpsets, NEW n \in DOMAIN req, NEW rs \in [DOMAIN req -> Request],
           req' = rs, \A m \in DOMAIN req \ {n} : rs[m] = req[m], Served(n, rs[n]),
           rs[n].holds \subseteq req[n].holds
    PROVE  Owed
<1>1. Plain' /\ Flagged'
  BY DEF PageInv, Types, Plain, Flagged, server, gate, table, session
<1> QED
  BY <1>1, OneRelease DEF server, gate, session

\* The answer, or its body, is lost on its way back.
LEMMA LoseKeeps == ASSUME PageInv, NEW n \in DOMAIN req, LoseAnswer(n) \/ LoseBody(n) PROVE Owed
<1>1. /\ req[n].phase = "answered" /\ UNCHANGED <<page, server, session>>
      /\ req \in [DOMAIN req -> Request] /\ Sound(req[n], jar) /\ req[n] \in Request
  BY RequestsAreAFunction DEF LoseAnswer, LoseBody
<1>2. page' \in [Tabs -> Document] /\ faults' \in 0..MaxUpsets
  BY <1>1, FaultType DEF LoseAnswer, LoseBody, PageInv, Types, Plain
<1>3. PICK a \in {"lost", "nothing"} :
          /\ req' = [req EXCEPT ![n].answer = a]
          /\ a = "nothing" => req[n].answer = "queued"
  BY DEF LoseAnswer, LoseBody
<1> DEFINE s == [req[n] EXCEPT !.answer = a]
<1>4. /\ s \in Request /\ s.phase = req[n].phase /\ s.outcome = req[n].outcome
      /\ s.answer = a /\ s.button = req[n].button /\ s.queue = req[n].queue /\ s.holds = req[n].holds
  BY <1>1 DEF Request, Answers
<1>5. req' = [req EXCEPT ![n] = s]
  BY <1>1, <1>3
<1> HIDE DEF s
<1>6. /\ req' \in [DOMAIN req -> Request] /\ req'[n] = s
      /\ \A m \in DOMAIN req \ {n} : req'[m] = req[m]
  BY <1>1, <1>4, <1>5
<1>7. Sound(s, jar')
  BY <1>1, <1>3, <1>4 DEF Sound, session
<1>8. Served(n, req'[n])
  BY <1>1, <1>4, <1>6, <1>7 DEF Served
<1> QED
  BY <1>1, <1>2, <1>4, <1>6, <1>8, BrowserKeeps

\* The browser is finished with a request: dropped, delivered to the click that
\* made it, or rested.
LEMMA DeliverKeeps ==
    ASSUME PageInv, NEW n \in DOMAIN req, Drop(n) \/ DeliverFetch(n) \/ Rest(n)
    PROVE  Owed
<1>1. /\ UNCHANGED <<server, session, faults>>
      /\ req \in [DOMAIN req -> Request] /\ req[n] \in Request /\ Sound(req[n], jar)
      /\ page \in [Tabs -> Document] /\ faults \in 0..MaxUpsets
  BY RequestsAreAFunction DEF Drop, DeliverFetch, Rest, PageInv, Types, Plain
<1>2. page[req[n].tab] \in Document /\ req[n].button \in Buttons /\ req[n].tab \in Tabs
  BY <1>1 DEF Request
<1>3. page' \in [Tabs -> Document]
  <2>1. \/ page' = page
        \/ \E d \in Document : page' = [page EXCEPT ![req[n].tab] = d]
    BY <1>1, <1>2, ClickedDocument DEF Drop, DeliverFetch, Rest
  <2> QED
    BY <1>1, <2>1
<1>4. CASE req' = Finished(n)
  <2>1. /\ Finished(n) \in [DOMAIN req -> Request]
        /\ \A m \in DOMAIN req \ {n} : Finished(n)[m] = req[m]
        /\ Served(n, Finished(n)[n]) /\ Finished(n)[n].holds = req[n].holds
    BY FinishedIs
  <2> QED
    BY <1>1, <1>3, <1>4, <2>1, BrowserKeeps
<1>5. CASE req[n].phase = "answered" /\ req' = [req EXCEPT ![n].phase = "resting"]
  <2> DEFINE s == [req[n] EXCEPT !.phase = "resting"]
  <2>1. /\ s \in Request /\ s.phase = "resting" /\ s.outcome = req[n].outcome /\ s.holds = req[n].holds
        /\ s.answer = req[n].answer /\ s.button = req[n].button /\ s.queue = req[n].queue
    BY <1>1 DEF Request
  <2>2. req' = [req EXCEPT ![n] = s]
    BY <1>1, <1>5
  <2> HIDE DEF s
  <2>3. /\ req' \in [DOMAIN req -> Request] /\ req'[n] = s
        /\ \A m \in DOMAIN req \ {n} : req'[m] = req[m]
    BY <1>1, <2>1, <2>2
  <2>4. Served(n, req'[n])
    BY <1>1, <1>5, <2>1, <2>3 DEF Served, Sound, session
  <2> QED
    BY <1>1, <1>3, <2>1, <2>3, <2>4, BrowserKeeps
<1> QED
  BY <1>4, <1>5 DEF Drop, DeliverFetch, Rest

\* The answer to a form replaces the document of its tab.
LEMMA DeliverFormKeeps == ASSUME PageInv, NEW n \in DOMAIN req, DeliverForm(n) PROVE Owed
<1>1. /\ UNCHANGED <<server, session, faults>> /\ req[n] \in Request /\ req[n].tab \in Tabs
  BY RequestsAreAFunction DEF DeliverForm, Request
<1>2. PICK d \in Document : Replace(req[n].tab, d, Finished(n))
  BY RenderedDocument, BlankDocument DEF DeliverForm
<1>3. /\ Finished(n) \in [DOMAIN req -> Request]
      /\ \A m \in DOMAIN req \ {n} : Finished(n)[m] = req[m]
      /\ Served(n, Finished(n)[n]) /\ Finished(n)[n].holds = req[n].holds
  BY FinishedIs
<1>4. \A m \in DOMAIN req : Served(m, req[m])
  BY <1>1, UnchangedServed DEF session
<1>5. \A m \in DOMAIN req : Served(m, Finished(n)[m]) /\ Finished(n)[m].holds \subseteq req[m].holds
  BY <1>3, <1>4
<1>6. jar' \in 0..MaxUpsets /\ logins' \in 0..MaxUpsets
  BY <1>1 DEF PageInv, Types, Plain, session
<1> QED
  BY <1>1, <1>2, <1>3, <1>5, <1>6, ReplaceKeeps

-----------------------------------------------------------------------------
\* The first state: no request yet.
LEMMA InitPage == Init => PageInv
<1> SUFFICES ASSUME Init PROVE PageInv
  OBVIOUS
<1>1. page \in [Tabs -> Document]
  BY BlankDocument DEF Init
<1>2. /\ 0 \in 0..MaxUpsets /\ 0 <= MaxClicks
      /\ req \in Seq(Request) /\ Len(req) = 0 /\ DOMAIN req = {}
  BY PageAssumption DEF Init
<1>3. Types
  BY <1>1, <1>2 DEF Init, Types, Plain
<1>4. Guarded /\ Flagged
  BY <1>2 DEF Init, Guarded, Flagged
<1> QED
  BY <1>2, <1>3, <1>4 DEF PageInv

\* Every step keeps the invariant, refuses nobody's token without a race and
\* queues nothing out of bounds.
LEMMA NextPage == PageInv /\ [Next]_vars => Owed
<1> SUFFICES ASSUME PageInv, [Next]_vars PROVE Owed
  OBVIOUS
<1>1. ASSUME NEW t \in Tabs, NEW b \in Buttons, ClickFetch(t, b) \/ ClickSubmit(t, b) PROVE Owed
  BY <1>1, ClickKeeps
<1>2. ASSUME NEW t \in Tabs, Load(t) \/ Reload(t) \/ Poll(t) PROVE Owed
  BY <1>2, LoadKeeps DEF Reload, Poll
<1>3. ASSUME NEW t \in Tabs, Wire(t) \/ Login(t) \/ Logout(t) PROVE Owed
  BY <1>3, WireKeeps, LoginKeeps
<1>4. ASSUME NEW n \in DOMAIN req, Serve(n) PROVE Owed
  BY <1>4, ReceiveKeeps, ReceiveBulkKeeps, ReceiveOperationKeeps, FinishKeeps DEF Serve
<1>5. ASSUME NEW n \in DOMAIN req, BulkNext(n) \/ BulkFinish(n) \/ LoseAnswer(n) \/ LoseBody(n)
      PROVE  Owed
  BY <1>5, BulkNextKeeps, BulkFinishKeeps, LoseKeeps
<1>6. ASSUME NEW n \in DOMAIN req, Deliver(n) PROVE Owed
  BY <1>6, DeliverKeeps, DeliverFormKeeps DEF Deliver
<1>7. CASE handleSetExclusions \/ Elsewhere \/ Down \/ Up
  BY <1>7, SetExclusionsKeeps, ElsewhereKeeps, DownKeeps, UpKeeps
<1>8. CASE UNCHANGED vars
  <2>1. Plain' /\ Flagged' /\ UNCHANGED <<req, jar, maintenance>>
    BY <1>8 DEF vars, PageInv, Types, Plain, Flagged, server, gate, table, session
  <2> QED
    BY <2>1, RequestsStay
<1> QED
  BY <1>1, <1>2, <1>3, <1>4, <1>5, <1>6, <1>7, <1>8 DEF Next

\* The inductive invariant holds of every behaviour.
THEOREM PageInvariant == Spec => []PageInv
<1>1. PageInv /\ [Next]_vars => PageInv'
  BY NextPage DEF Owed
<1> QED
  BY InitPage, <1>1, PTL DEF Spec

\* Every variable keeps its type.
THEOREM PageTypes == Spec => []TypeOK
<1>1. PageInv => TypeOK
  BY RequestsAreAFunction DEF PageInv, Types, Plain, TypeOK, Request
<1> QED
  BY <1>1, PageInvariant, PTL

\* What the requests hold: a running request one key, of the container of its
\* button, and a batch at most one; a container's name is held by one request at
\* a time, while two may work on a container if one has only its raw ID; and
\* while a self-update has closed the gate nothing is held at all.
HoldersAreRequests ==
    \A n \in DOMAIN req :
        /\ \A k, l \in req[n].holds : k = l
        /\ req[n].phase = "running" => \E k \in req[n].holds : k[1] = req[n].button[2]
        /\ req[n].holds # {} => ~maintenance
        /\ \A m \in DOMAIN req : \A c \in Containers :
               <<c, "name">> \in req[m].holds /\ <<c, "name">> \in req[n].holds => m = n
\* operations.go, and the handlers of api.go that call Update and Rollback.
THEOREM OneContainerPerRequest == Spec => []HoldersAreRequests
<1>1. PageInv => HoldersAreRequests
  <2> SUFFICES ASSUME PageInv PROVE HoldersAreRequests
    OBVIOUS
  <2>1. ASSUME NEW n \in DOMAIN req
        PROVE  /\ \A k, l \in req[n].holds : k = l
               /\ req[n].phase = "running" => \E k \in req[n].holds : k[1] = req[n].button[2]
    <3>1. Sound(req[n], jar)
      BY DEF PageInv
    <3>2. \A k, l \in req[n].holds : k = l
      BY <3>1 DEF Sound
    <3>3. ASSUME req[n].phase = "running" PROVE \E k \in req[n].holds : k[1] = req[n].button[2]
      <4>1. PICK how \in {"name", "id"} : req[n].holds = {<<req[n].button[2], how>>}
        BY <3>1, <3>3 DEF Sound
      <4> QED
        BY <4>1
    <3> QED
      BY <3>2, <3>3
  <2> QED
    BY <2>1 DEF PageInv, Guarded, HoldersAreRequests
<1> QED
  BY <1>1, PageInvariant, PTL

\* What "Update all" may reach: selectBulkUpdateTargets and excludeSelf against
\* the settings, the rows every operation replaces and a lookup that may fail.
THEOREM BatchesInBounds == Spec => BatchesStayInBounds
<1>1. PageInv /\ [Next]_vars => [InBounds]_vars
  BY NextPage DEF Owed
<1> QED
  BY <1>1, PageInvariant, PTL DEF Spec, BatchesStayInBounds, InBounds, MayQueue

\* The page arms its reload for what succeeded only, and releases a button with
\* an error only for what did not or for a lost answer.
THEOREM ReloadsMeanSuccess == Spec => ReloadMeansSuccess
<1> DEFINE Act(n) ==
      DeliverFetch(n) =>
          IF page'[req[n].tab].reload /\ ~page[req[n].tab].reload THEN Succeeded(n)
          ELSE page' # page => ~Succeeded(n) \/ req[n].answer = "lost"
<1>1. ASSUME PageInv, NEW n \in DOMAIN req PROVE Act(n)
  <2> SUFFICES ASSUME DeliverFetch(n) PROVE Act(n)
    OBVIOUS
  <2>1. /\ req[n].phase = "answered" /\ req[n] \in Request
        /\ page \in [Tabs -> Document]
        /\ req[n].answer \in {req[n].outcome, "lost"} \/ (req[n].answer = "nothing" /\ req[n].outcome = "queued")
    <3>1. Sound(req[n], jar) /\ req[n].phase = "answered" /\ page \in [Tabs -> Document]
      <4>1. PageInv /\ n \in DOMAIN req
        BY <1>1
      <4>2. req[n].phase = "answered"
        BY DEF DeliverFetch
      <4> QED
        BY <4>1, <4>2 DEF PageInv, Types, Plain
    <3> QED
      BY <3>1 DEF Sound
  <2> DEFINE t == req[n].tab
             d == page[t]
  <2>2. t \in Tabs /\ d \in Document /\ req[n].button \in Buttons
    BY <2>1 DEF Request
  <2>3. CASE responseOk(req[n]) /\ req[n].answer # "nothing" /\ page' = [page EXCEPT ![t] = armReload(d)]
    <3>1. Succeeded(n)
      BY <2>1, <2>3 DEF responseOk, Succeeded
    <3>2. d.reload => page' = page
      <4>1. d.reload => armReload(d) = d
        BY <2>2, ClickedDocument
      <4>2. [page EXCEPT ![t] = page[t]] = page
        BY <2>1, <2>2
      <4> QED
        BY <2>3, <4>1, <4>2
    <3>3. page'[t].reload
      BY <2>1, <2>2, <2>3 DEF armReload, Document
    <3> QED
      BY <3>1, <3>2, <3>3
  <2>4. CASE page' = page
    BY <2>4
  <2>5. CASE ~responseOk(req[n]) /\ page' = [page EXCEPT ![t] = restore(d, req[n].button)]
    <3>1. ~Succeeded(n) \/ req[n].answer = "lost"
      BY <2>1, <2>5 DEF responseOk, Succeeded
    <3>2. page'[t].reload = d.reload
      BY <2>1, <2>2, <2>5, ClickedDocument
    <3> QED
      BY <3>1, <3>2
  <2> QED
    BY <2>3, <2>4, <2>5 DEF DeliverFetch
<1>2. PageInv => \A n \in DOMAIN req : Act(n)
  BY <1>1
<1>3. (\A n \in DOMAIN req : Act(n)) => [\A n \in DOMAIN req : Act(n)]_vars
  OBVIOUS
<1> QED
  BY <1>2, <1>3, PageInvariant, PTL DEF ReloadMeansSuccess

\* A request is refused for its token only if the cookies changed between the
\* click and its arrival, however many logouts and logins the page has seen.
THEOREM RefusalsNeedARace == Spec => CsrfRefusalNeedsARace
<1>1. PageInv /\ [Next]_vars => [NoFalseRefusal]_vars
  BY NextPage DEF Owed
<1> QED
  BY <1>1, PageInvariant, PTL DEF Spec, CsrfRefusalNeedsARace, NoFalseRefusal
=============================================================================
