----------------------- MODULE NotificationQueueProofs -----------------------
(***************************************************************************)
(* What the notification queue guarantees for any number of rows, any       *)
(* attempt limit and any number of failures.  QueueInv ties each row's      *)
(* status to its counters: a claim may be the last one allowed, or one that *)
(* takes over a cut-short claim, and only the latter exceeds the limit.     *)
(***************************************************************************)
EXTENDS NotificationQueue, TLAPS

\* The empty queue satisfies the invariant.
LEMMA InitQueue == Init => QueueInv
  BY NoneAssumption, AttemptsAssumption
     DEF Init, QueueInv, QueueTypes, LeaseIsHeld, Working, Delivered, Budget,
         Resting, Statuses

\* The conjunct of QueueInv about one row.
RowInv(j) ==
    /\ status[j] = "none" => attempts[j] = 0
    /\ status[j] = "pending" => attempts[j] < MaxAttempts
    /\ status[j] = "processing" /\ ~Working(j)
           => attempts[j] < MaxAttempts + lost[j]
    /\ attempts[j] <= MaxAttempts + lost[j]
    /\ accepted[j] + late[j] <= Budget(j)
    /\ Delivered(j) => accepted[j] > 0

\* QueueInv row by row.
LEMMA ByRow == QueueInv <=> QueueTypes /\ LeaseIsHeld /\ \A j \in Jobs : RowInv(j)
  BY DEF QueueInv, RowInv

\* ClaimNotification keeps the invariant: only a claim that takes over a
\* cut-short one goes past the limit.
LEMMA ClaimKeepsInv == QueueInv /\ ClaimNotification => QueueInv'
<1> SUFFICES ASSUME QueueInv, ClaimNotification PROVE QueueInv'
  OBVIOUS
<1> USE NoneAssumption, AttemptsAssumption DEF QueueTypes
<1>0. QueueTypes /\ LeaseIsHeld /\ \A j \in Jobs : RowInv(j)
  BY ByRow
<1>1. PICK j \in Jobs : /\ worker.pc = "idle"
                        /\ Ready(j)
                        /\ status' = [status EXCEPT ![j] = "processing"]
                        /\ attempts' = [attempts EXCEPT ![j] = @ + 1]
                        /\ \/ /\ worker' = [pc |-> "send", job |-> j]
                              /\ lost' = lost
                           \/ /\ worker' = worker
                              /\ lost' = [lost EXCEPT ![j] = @ + 1]
                        /\ UNCHANGED <<late, accepted, timeouts, belied>>
  BY DEF ClaimNotification
<1>2. QueueTypes'
  BY <1>0, <1>1 DEF Statuses
<1>3. LeaseIsHeld'
  BY <1>0, <1>1 DEF LeaseIsHeld, Working
<1>4. ASSUME NEW k \in Jobs PROVE RowInv(k)'
  <2>1. RowInv(k)
    BY <1>0
  <2>2. status[j] \in {"pending", "processing"} /\ ~Working(j)
    BY <1>0, <1>1 DEF Ready, Working
  <2>3. CASE k = j
    BY <1>0, <1>1, <2>1, <2>2, <2>3 DEF RowInv, Working, Delivered, Budget
  <2>4. CASE k # j
    BY <1>0, <1>1, <2>1, <2>4 DEF RowInv, Working, Delivered, Budget
  <2> QED
    BY <2>3, <2>4
<1> QED
  BY <1>2, <1>3, <1>4 DEF QueueInv, RowInv

\* The three ways a send ends keep the invariant.
LEMMA SendKeepsInv ==
    QueueInv /\ (SendSucceeds \/ SendFails \/ SendTimesOut) => QueueInv'
<1> SUFFICES ASSUME QueueInv, SendSucceeds \/ SendFails \/ SendTimesOut
             PROVE QueueInv'
  OBVIOUS
<1> USE NoneAssumption, AttemptsAssumption DEF QueueTypes
<1>0. QueueTypes /\ LeaseIsHeld /\ \A j \in Jobs : RowInv(j)
  BY ByRow
<1> DEFINE j == worker.job
<1>1. worker.pc = "send" /\ j \in Jobs /\ status[j] = "processing"
  BY <1>0 DEF SendSucceeds, SendFails, SendTimesOut, LeaseIsHeld, Working
<1>2. CASE SendSucceeds
  <2>1. QueueTypes' /\ LeaseIsHeld'
    BY <1>0, <1>1, <1>2 DEF SendSucceeds, LeaseIsHeld, Working, Statuses
  <2>2. ASSUME NEW k \in Jobs PROVE RowInv(k)'
    <3>1. RowInv(k)
      BY <1>0
    <3> QED
      BY <1>0, <1>1, <1>2, <3>1
         DEF SendSucceeds, RowInv, Working, Delivered, Budget
  <2> QED
    BY <2>1, <2>2 DEF QueueInv, RowInv
<1>3. CASE SendFails
  <2>1. QueueTypes' /\ LeaseIsHeld'
    BY <1>0, <1>1, <1>3 DEF SendFails, LeaseIsHeld, Working, Statuses
  <2>2. ASSUME NEW k \in Jobs PROVE RowInv(k)'
    <3>1. RowInv(k)
      BY <1>0
    <3> QED
      BY <1>0, <1>1, <1>3, <3>1
         DEF SendFails, RowInv, Working, Delivered, Budget
  <2> QED
    BY <2>1, <2>2 DEF QueueInv, RowInv
<1>4. CASE SendTimesOut
  <2>1. QueueTypes' /\ LeaseIsHeld'
    BY <1>0, <1>1, <1>4 DEF SendTimesOut, LeaseIsHeld, Working, Statuses
  <2>2. ASSUME NEW k \in Jobs PROVE RowInv(k)'
    <3>1. RowInv(k)
      BY <1>0
    <3> QED
      BY <1>0, <1>1, <1>4, <3>1
         DEF SendTimesOut, RowInv, Working, Delivered, Budget
  <2> QED
    BY <2>1, <2>2 DEF QueueInv, RowInv
<1> QED
  BY <1>2, <1>3, <1>4

\* Recording the outcome, or failing to, keeps the invariant.
LEMMA OutcomeKeepsInv ==
    QueueInv /\ (CompleteNotification \/ FailNotification \/ OutcomeLost)
        => QueueInv'
<1> SUFFICES ASSUME QueueInv,
                    CompleteNotification \/ FailNotification \/ OutcomeLost
             PROVE QueueInv'
  OBVIOUS
<1> USE NoneAssumption, AttemptsAssumption DEF QueueTypes, Resting
<1>0. QueueTypes /\ LeaseIsHeld /\ \A j \in Jobs : RowInv(j)
  BY ByRow
<1> DEFINE j == worker.job
<1>1. worker.pc \in {"complete", "fail"} /\ j \in Jobs /\ status[j] = "processing"
  BY <1>0 DEF CompleteNotification, FailNotification, OutcomeLost, LeaseIsHeld,
              Working
<1>2. CASE CompleteNotification
  <2>1. QueueTypes' /\ LeaseIsHeld'
    BY <1>0, <1>1, <1>2
       DEF CompleteNotification, history, LeaseIsHeld, Working, Statuses
  <2>2. ASSUME NEW k \in Jobs PROVE RowInv(k)'
    <3>1. RowInv(k)
      BY <1>0
    <3> QED
      BY <1>0, <1>1, <1>2, <3>1
         DEF CompleteNotification, history, RowInv, Working, Delivered, Budget
  <2> QED
    BY <2>1, <2>2 DEF QueueInv, RowInv
<1>3. CASE FailNotification
  <2>1. QueueTypes' /\ LeaseIsHeld'
    BY <1>0, <1>1, <1>3
       DEF FailNotification, history, LeaseIsHeld, Working, Statuses
  <2>2. ASSUME NEW k \in Jobs PROVE RowInv(k)'
    <3>1. RowInv(k)
      BY <1>0
    <3> QED
      BY <1>0, <1>1, <1>3, <3>1
         DEF FailNotification, Exhausted, history, RowInv, Working, Delivered,
             Budget
  <2> QED
    BY <2>1, <2>2 DEF QueueInv, RowInv
<1>4. CASE OutcomeLost
  <2>1. QueueTypes' /\ LeaseIsHeld'
    BY <1>0, <1>1, <1>4 DEF OutcomeLost, LeaseIsHeld, Working, Statuses
  <2>2. ASSUME NEW k \in Jobs PROVE RowInv(k)'
    <3>1. RowInv(k)
      BY <1>0
    <3> QED
      BY <1>0, <1>1, <1>4, <3>1
         DEF OutcomeLost, RowInv, Working, Delivered, Budget
  <2> QED
    BY <2>1, <2>2 DEF QueueInv, RowInv
<1> QED
  BY <1>2, <1>3, <1>4

\* What else happens to a row: it is inserted, delivered late, or retried.
LEMMA RowKeepsInv ==
    ASSUME NEW j \in Jobs, QueueInv,
           EnqueueNotification(j) \/ LateSend(j) \/ RetryNotification(j)
    PROVE  QueueInv'
<1> USE NoneAssumption, AttemptsAssumption DEF QueueTypes
<1>0. QueueTypes /\ LeaseIsHeld /\ \A k \in Jobs : RowInv(k)
  BY ByRow
<1>1. CASE EnqueueNotification(j)
  <2>1. QueueTypes' /\ LeaseIsHeld'
    BY <1>0, <1>1
       DEF EnqueueNotification, history, LeaseIsHeld, Working, Statuses
  <2>2. ASSUME NEW k \in Jobs PROVE RowInv(k)'
    <3>1. RowInv(k)
      BY <1>0
    <3> QED
      BY <1>0, <1>1, <3>1
         DEF EnqueueNotification, history, RowInv, Working, Delivered, Budget
  <2> QED
    BY <2>1, <2>2 DEF QueueInv, RowInv
<1>2. CASE LateSend(j)
  <2>1. QueueTypes' /\ LeaseIsHeld'
    BY <1>0, <1>2 DEF LateSend, LeaseIsHeld, Working, Statuses
  <2>2. ASSUME NEW k \in Jobs PROVE RowInv(k)'
    <3>1. RowInv(k)
      BY <1>0
    <3>2. accepted'[k] + late'[k] <= accepted[k] + late[k]
          /\ accepted'[k] >= accepted[k]
      BY <1>0, <1>2 DEF LateSend
    <3> QED
      BY <1>0, <1>2, <3>1, <3>2, <2>1
         DEF LateSend, RowInv, Working, Delivered, Budget
  <2> QED
    BY <2>1, <2>2 DEF QueueInv, RowInv
<1>3. CASE RetryNotification(j)
  <2>1. QueueTypes' /\ LeaseIsHeld'
    BY <1>0, <1>3
       DEF RetryNotification, history, LeaseIsHeld, Working, Statuses
  <2>2. ASSUME NEW k \in Jobs PROVE RowInv(k)'
    <3>1. RowInv(k)
      BY <1>0
    <3> QED
      BY <1>0, <1>3, <3>1
         DEF RetryNotification, history, RowInv, Working, Delivered, Budget
  <2> QED
    BY <2>1, <2>2 DEF QueueInv, RowInv
<1> QED
  BY <1>1, <1>2, <1>3

\* Time and the death of the daemon.
LEMMA ProcessKeepsInv == QueueInv /\ (Tick \/ Exit) => QueueInv'
<1> SUFFICES ASSUME QueueInv, Tick \/ Exit PROVE QueueInv'
  OBVIOUS
<1> USE NoneAssumption, AttemptsAssumption DEF QueueTypes, Resting
<1>0. QueueTypes /\ LeaseIsHeld /\ \A k \in Jobs : RowInv(k)
  BY ByRow
<1>1. CASE Tick
  BY <1>1 DEF Tick, history, QueueInv, LeaseIsHeld, Working, Delivered, Budget
<1>2. CASE Exit
  <2>1. QueueTypes' /\ LeaseIsHeld'
    BY <1>0, <1>2 DEF Exit, LeaseIsHeld, Working, Statuses
  <2>2. ASSUME NEW k \in Jobs PROVE RowInv(k)'
    <3>1. RowInv(k)
      BY <1>0
    <3> QED
      BY <1>0, <1>2, <3>1 DEF Exit, RowInv, Working, Delivered, Budget
  <2> QED
    BY <2>1, <2>2 DEF QueueInv, RowInv
<1> QED
  BY <1>1, <1>2

\* QueueInv holds in every reachable state: each row's status, attempts and
\* deliveries stay consistent through failures, timeouts and restarts.
THEOREM QueueInvariant == Spec => []QueueInv
<1>1. QueueInv /\ [Next]_vars => QueueInv'
  <2> SUFFICES ASSUME QueueInv, [Next]_vars PROVE QueueInv'
    OBVIOUS
  <2>1. CASE deliverOne
    BY <2>1, ClaimKeepsInv, SendKeepsInv, OutcomeKeepsInv DEF deliverOne
  <2>2. CASE \E j \in Jobs : EnqueueNotification(j) \/ LateSend(j)
                                \/ RetryNotification(j)
    BY <2>2, RowKeepsInv
  <2>3. CASE Tick \/ Exit
    BY <2>3, ProcessKeepsInv
  <2>4. CASE UNCHANGED vars
    BY <2>4 DEF vars, QueueInv, QueueTypes, LeaseIsHeld, Working, Delivered,
                Budget
  <2> QED
    BY <2>1, <2>2, <2>3, <2>4 DEF Next
<1> QED
  BY <1>1, InitQueue, PTL DEF Spec

\* deliverOne's updates always find the row "processing".
THEOREM LeaseHeld == Spec => []LeaseIsHeld
<1>1. QueueInv => LeaseIsHeld
  BY DEF QueueInv
<1> QED
  BY <1>1, QueueInvariant, PTL

\* CompleteNotification is reached only after a send that the provider took.
THEOREM SentIsAccepted == Spec => []SentWasAccepted
<1>1. QueueInv => SentWasAccepted
  BY DEF QueueInv, SentWasAccepted, Delivered
<1> QED
  BY <1>1, QueueInvariant, PTL

\* attempts exceeds max_attempts by at most the claims that were cut short.
THEOREM AttemptsBound == Spec => []AttemptsAreBounded
<1>1. QueueInv => AttemptsAreBounded
  BY DEF QueueInv, AttemptsAreBounded
<1> QED
  BY <1>1, QueueInvariant, PTL

\* Every duplicate delivery goes back to a cut-short claim, a timeout or a send
\* that failed only for the sender.
THEOREM DuplicatesBound == Spec => []DuplicatesAreExplained
<1>1. ASSUME QueueInv, NEW j \in Jobs
      PROVE  accepted[j] <= 1 + lost[j] + timeouts[j] + belied[j]
  <2>1. accepted[j] + late[j] <= Budget(j) /\ QueueTypes
    BY <1>1 DEF QueueInv
  <2>2. Budget(j) \in {lost[j] + timeouts[j] + belied[j],
                       1 + lost[j] + timeouts[j] + belied[j]}
    BY DEF Budget
  <2> QED
    BY <2>1, <2>2 DEF QueueTypes
<1>2. QueueInv => DuplicatesAreExplained
  BY <1>1 DEF DuplicatesAreExplained
<1> QED
  BY <1>2, QueueInvariant, PTL
=============================================================================
