-------------------------- MODULE NotificationQueue --------------------------
(***************************************************************************)
(* The durable notification queue: the notification_queue table of          *)
(* internal/store and the delivery loop of internal/notifier, against slow, *)
(* failing and late providers, writes that fail and deaths of the daemon.   *)
(*                                                                         *)
(* Times are countdowns: wait[j] is how far next_attempt_at lies ahead (0   *)
(* when it is due), lease[j] how far lease_until does.  The order of the    *)
(* next_attempt_at values themselves, which ClaimNotification sorts by, is  *)
(* the relation `before'.  Every transaction and every send is one step.    *)
(* Left out: which channels an event matches, the message, the delivery log.*)
(***************************************************************************)
EXTENDS Integers

CONSTANTS
    Jobs,         \* rows of notification_queue
    MaxAttempts,  \* their max_attempts
    Lease,        \* Notifier.lease
    BaseBackoff,  \* Notifier.baseBackoff
    MaxBackoff,   \* Notifier.maxBackoff
    None,         \* no job
    MaxLost,      \* bound: failed statements on a claimed row, deaths of the daemon
    MaxRetries,   \* bound: dead letters that an operator retries
    MaxBelied     \* bound: accepted messages whose send returns an error

ASSUME NoneAssumption == None \notin Jobs
\* EnqueueNotification replaces a limit that is not positive.
ASSUME AttemptsAssumption == MaxAttempts \in Nat \ {0}
ASSUME TimesAssumption ==
    {Lease, BaseBackoff, MaxBackoff} \subseteq Nat \ {0}
ASSUME LimitsAssumption == {MaxLost, MaxRetries, MaxBelied} \subseteq Nat

VARIABLES
    status,    \* the row's status; "none" before it is inserted
    attempts,  \* its attempts
    wait,      \* time until next_attempt_at
    lease,     \* time until lease_until; 0 for NULL as well
    before,    \* pairs of rows, the first with the earlier next_attempt_at
    worker,    \* deliverOne: [pc, job]
    late,      \* sends that outlived their timeout and may still succeed
    accepted,  \* history: sends the provider accepted
    timeouts,  \* history: sends that timed out
    belied,    \* history: sends that were accepted and reported as failed
    lost,      \* history: claims whose outcome never reached the row
    used       \* how much of each bound has been used

vars == <<status, attempts, wait, lease, before, worker, late, accepted,
          timeouts, belied, lost, used>>
times == <<wait, before>>
history == <<accepted, timeouts, belied, lost>>

Statuses == {"none", "pending", "processing", "sent", "dead_letter"}
Resting == [pc |-> "idle", job |-> None]

Init ==
    /\ status = [j \in Jobs |-> "none"]
    /\ attempts = [j \in Jobs |-> 0]
    /\ wait = [j \in Jobs |-> 0]
    /\ lease = [j \in Jobs |-> 0]
    /\ before = {}
    /\ worker = Resting
    /\ late = [j \in Jobs |-> 0]
    /\ accepted = [j \in Jobs |-> 0]
    /\ timeouts = [j \in Jobs |-> 0]
    /\ belied = [j \in Jobs |-> 0]
    /\ lost = [j \in Jobs |-> 0]
    /\ used = [lost |-> 0, retries |-> 0, belied |-> 0]

Spend(b, max) == used[b] < max /\ used' = [used EXCEPT ![b] = @ + 1]

Others(j) == {k \in Jobs \ {j} : status[k] # "none"}

\* next_attempt_at = now + d: behind every row due by then.
reschedule(j, d) ==
    /\ wait' = [wait EXCEPT ![j] = d]
    /\ before' = {p \in before : j \notin {p[1], p[2]}}
                  \cup {<<k, j>> : k \in {k \in Others(j) : wait[k] <= d}}
                  \cup {<<j, k>> : k \in {k \in Others(j) : wait[k] > d}}

-----------------------------------------------------------------------------
(* The store's statements and the worker that uses them.                    *)

EnqueueNotification(j) ==
    /\ status[j] = "none"
    /\ status' = [status EXCEPT ![j] = "pending"]
    /\ reschedule(j, 0)
    /\ UNCHANGED <<attempts, lease, worker, late, history, used>>

\* Mutant: the lease of a worker that died is never given up.
ReadyPending(j) == status[j] = "pending" /\ wait[j] = 0

Ready(j) ==
    \/ status[j] = "pending" /\ wait[j] = 0
    \/ status[j] = "processing" /\ lease[j] = 0

\* The oldest ready row is leased, whoever held it before.  The row that the
\* statement returns may not be readable any more: then it stays leased, and
\* deliverOne has nothing to send.
ClaimNotification ==
    /\ worker.pc = "idle"
    /\ \E j \in Jobs :
         /\ Ready(j)
         /\ \A k \in Jobs : Ready(k) => <<k, j>> \notin before
         /\ status' = [status EXCEPT ![j] = "processing"]
         /\ attempts' = [attempts EXCEPT ![j] = @ + 1]
         /\ lease' = [lease EXCEPT ![j] = Lease]
         /\ \/ /\ worker' = [pc |-> "send", job |-> j]
               /\ UNCHANGED <<lost, used>>
            \/ /\ Spend("lost", MaxLost)
               /\ lost' = [lost EXCEPT ![j] = @ + 1]
               /\ UNCHANGED worker
    /\ UNCHANGED <<times, late, accepted, timeouts, belied>>

\* sendWithTimeout: the send succeeds, or returns an error, which the provider's
\* acceptance may have preceded (a lost or an unexpected reply), or does not
\* return in time, and then goes on without anybody waiting for it.
SendSucceeds ==
    /\ worker.pc = "send"
    /\ accepted' = [accepted EXCEPT ![worker.job] = @ + 1]
    /\ worker' = [worker EXCEPT !.pc = "complete"]
    /\ UNCHANGED <<status, attempts, times, lease, late, timeouts, belied, lost,
                   used>>

SendFails ==
    /\ worker.pc = "send"
    /\ worker' = [worker EXCEPT !.pc = "fail"]
    /\ \/ UNCHANGED <<accepted, belied, used>>
       \/ /\ Spend("belied", MaxBelied)
          /\ accepted' = [accepted EXCEPT ![worker.job] = @ + 1]
          /\ belied' = [belied EXCEPT ![worker.job] = @ + 1]
    /\ UNCHANGED <<status, attempts, times, lease, late, timeouts, lost>>

\* Mutant: a send that timed out is taken for one that went through.
SendTimesOutQuietly ==
    /\ worker.pc = "send"
    /\ late' = [late EXCEPT ![worker.job] = @ + 1]
    /\ timeouts' = [timeouts EXCEPT ![worker.job] = @ + 1]
    /\ worker' = [worker EXCEPT !.pc = "complete"]
    /\ UNCHANGED <<status, attempts, times, lease, accepted, belied, lost, used>>

SendTimesOut ==
    /\ worker.pc = "send"
    /\ late' = [late EXCEPT ![worker.job] = @ + 1]
    /\ timeouts' = [timeouts EXCEPT ![worker.job] = @ + 1]
    /\ worker' = [worker EXCEPT !.pc = "fail"]
    /\ UNCHANGED <<status, attempts, times, lease, accepted, belied, lost, used>>

\* The goroutine left behind by a timeout is done, one way or the other.
LateSend(j) ==
    /\ late[j] > 0
    /\ late' = [late EXCEPT ![j] = @ - 1]
    /\ \/ accepted' = [accepted EXCEPT ![j] = @ + 1]
       \/ UNCHANGED accepted
    /\ UNCHANGED <<status, attempts, times, lease, worker, timeouts, belied, lost,
                   used>>

\* Mutant: the delivered row goes back to the queue.
CompleteToPending ==
    LET j == worker.job IN
    /\ worker.pc = "complete"
    /\ worker' = Resting
    /\ status' = [status EXCEPT ![j] = "pending"]
    /\ lease' = [lease EXCEPT ![j] = 0]
    /\ UNCHANGED <<attempts, times, late, history, used>>

CompleteNotification ==
    LET j == worker.job IN
    /\ worker.pc = "complete" /\ status[j] = "processing"
    /\ worker' = Resting
    /\ status' = [status EXCEPT ![j] = "sent"]
    /\ lease' = [lease EXCEPT ![j] = 0]
    /\ UNCHANGED <<attempts, times, late, history, used>>

backoff(attempt) ==
    LET d == BaseBackoff * 2 ^ (attempt - 1) IN
    IF d > MaxBackoff THEN MaxBackoff ELSE d

\* Mutant: one attempt too many.
ExhaustedLate(j) == attempts[j] > MaxAttempts

Exhausted(j) == attempts[j] >= MaxAttempts

FailNotification ==
    LET j == worker.job IN
    /\ worker.pc = "fail" /\ status[j] = "processing"
    /\ worker' = Resting
    /\ status' = [status EXCEPT ![j] = IF Exhausted(j) THEN "dead_letter"
                                                       ELSE "pending"]
    /\ reschedule(j, backoff(attempts[j]))
    /\ lease' = [lease EXCEPT ![j] = 0]
    /\ UNCHANGED <<attempts, late, history, used>>

\* The update fails, or finds the row in another status: deliverOne returns
\* the error and Run goes on to the next claim.
OutcomeLost ==
    LET j == worker.job IN
    /\ worker.pc \in {"complete", "fail"}
    /\ IF status[j] = "processing" THEN Spend("lost", MaxLost)
                                   ELSE UNCHANGED used
    /\ worker' = Resting
    /\ lost' = [lost EXCEPT ![j] = @ + 1]
    /\ UNCHANGED <<status, attempts, times, lease, late, accepted, timeouts, belied>>

RetryNotification(j) ==
    /\ status[j] = "dead_letter"
    /\ Spend("retries", MaxRetries)
    /\ status' = [status EXCEPT ![j] = "pending"]
    /\ attempts' = [attempts EXCEPT ![j] = 0]
    /\ lease' = [lease EXCEPT ![j] = 0]
    /\ reschedule(j, 0)
    /\ UNCHANGED <<worker, late, history>>

-----------------------------------------------------------------------------
(* Time and the process.                                                    *)

Less(n) == IF n > 0 THEN n - 1 ELSE 0

Tick ==
    /\ \E j \in Jobs : wait[j] > 0 \/ lease[j] > 0
    /\ wait' = [j \in Jobs |-> Less(wait[j])]
    /\ lease' = [j \in Jobs |-> Less(lease[j])]
    /\ UNCHANGED <<status, attempts, before, worker, late, history, used>>

\* The daemon dies, with its worker and the sends it left behind, and starts
\* again; the table is all that survives.
Exit ==
    /\ Spend("lost", MaxLost)
    /\ worker' = Resting
    /\ late' = [j \in Jobs |-> 0]
    /\ lost' = [j \in Jobs |-> IF j = worker.job THEN lost[j] + 1 ELSE lost[j]]
    /\ UNCHANGED <<status, attempts, times, lease, accepted, timeouts, belied>>

deliverOne ==
    \/ ClaimNotification \/ SendSucceeds \/ SendFails \/ SendTimesOut
    \/ CompleteNotification \/ FailNotification \/ OutcomeLost

Next ==
    \/ deliverOne
    \/ \E j \in Jobs : EnqueueNotification(j) \/ LateSend(j)
                          \/ RetryNotification(j)
    \/ Tick \/ Exit

Spec == Init /\ [][Next]_vars

\* Run's loop goes on as long as the process lives: a send returns or times
\* out, a statement returns, the ticker fires; and time passes.
FairSpec == Spec /\ WF_vars(deliverOne) /\ WF_vars(Tick)

-----------------------------------------------------------------------------
(* Properties.                                                              *)

TypeOK ==
    /\ status \in [Jobs -> Statuses]
    /\ {attempts, wait, lease, late, accepted, timeouts, belied, lost}
          \subseteq [Jobs -> Nat]
    /\ before \subseteq Jobs \X Jobs
    /\ \A j, k \in Jobs : j # k /\ "none" \notin {status[j], status[k]} =>
          (<<j, k>> \in before) # (<<k, j>> \in before)
    /\ worker \in [pc : {"idle", "send", "complete", "fail"},
                   job : Jobs \cup {None}]

Working(j) == worker.pc # "idle" /\ worker.job = j

\* The row a delivery is working on stays its own until the delivery records
\* an outcome, even past the lease: no retry, reclaim or restart takes it
\* away, so CompleteNotification and FailNotification find it "processing".
LeaseIsHeld == \A j \in Jobs : Working(j) => status[j] = "processing"

\* "sent" is only ever recorded for a message the provider accepted, whatever
\* timed out, failed or was retried before.
SentWasAccepted == \A j \in Jobs : status[j] = "sent" => accepted[j] > 0

\* Dead-lettering: a row is claimed more often than max_attempts only if that
\* many claims were cut short by a death of the daemon or a failed statement.
AttemptsAreBounded == \A j \in Jobs : attempts[j] <= MaxAttempts + lost[j]

\* At least once, and not more often than it has to be: each delivery of a
\* message beyond the first goes back to a claim that was cut short, to a send
\* that timed out, or to one that reported an error after it was accepted.
DuplicatesAreExplained ==
    \A j \in Jobs : accepted[j] <= 1 + lost[j] + timeouts[j] + belied[j]

\* "DoUpRo resumes pending work after a restart": the queue runs empty again and
\* again, so every accepted message is delivered or dead-lettered in the end, also
\* one whose worker died.
EveryJobSettles ==
    []<>(\A j \in Jobs : status[j] \notin {"pending", "processing"})

\* The inductive invariant: what each status says about the counters.
Delivered(j) ==
    status[j] = "sent" \/ (worker.pc = "complete" /\ worker.job = j)
Budget(j) == IF Delivered(j) THEN 1 + lost[j] + timeouts[j] + belied[j]
                             ELSE lost[j] + timeouts[j] + belied[j]
QueueTypes ==
    /\ status \in [Jobs -> Statuses]
    /\ attempts \in [Jobs -> Nat] /\ late \in [Jobs -> Nat]
    /\ accepted \in [Jobs -> Nat] /\ timeouts \in [Jobs -> Nat]
    /\ lost \in [Jobs -> Nat] /\ belied \in [Jobs -> Nat]
    /\ worker \in [pc : {"idle", "send", "complete", "fail"},
                   job : Jobs \cup {None}]
    /\ worker.pc # "idle" => worker.job \in Jobs
    /\ worker.pc = "idle" => worker.job = None
QueueInv ==
    /\ QueueTypes
    /\ LeaseIsHeld
    /\ \A j \in Jobs :
         /\ status[j] = "none" => attempts[j] = 0
         /\ status[j] = "pending" => attempts[j] < MaxAttempts
         /\ status[j] = "processing" /\ ~Working(j)
                => attempts[j] < MaxAttempts + lost[j]
         /\ attempts[j] <= MaxAttempts + lost[j]
         /\ accepted[j] + late[j] <= Budget(j)
         /\ Delivered(j) => accepted[j] > 0

\* manuals/notifications.md:72: "`dead_letter` means all six automatic attempts
\* failed": none of them reached the provider.
DeadLetterFailed ==
    \A j \in Jobs : status[j] = "dead_letter" => accepted[j] = 0
=============================================================================
