-------------------------- MODULE SelfUpdateProofs --------------------------
(***************************************************************************)
(* What module SelfUpdate promises up to the first overlap of two helpers,  *)
(* proved for any number of helpers, of faults and for both restart         *)
(* policies.  The history `overlapped' is needed: StartSelfUpdate's gate    *)
(* knows nothing of an earlier helper, and with two at work TLC refutes all *)
(* three properties.                                                        *)
(***************************************************************************)
EXTENDS SelfUpdate, TLAPS

\* Docker runs the container or will restart it.
Live(c) == box[c].state \in {"running", "restarting"}

Active(h) == helper[h].pc \notin Settled

OneActive == \A g, h \in Helpers : Active(g) /\ Active(h) => g = h

OneLive == \A c, d \in Containers : Live(c) /\ Live(d) => c = d

\* A process needs its container.
ProcessInRunning == \A c \in Containers : daemon[c] # "down" => Up(c)

\* The replacement exists from Create on, under the name it was planned with.
FreshUntilCreated ==
    \A h \in Helpers :
        /\ helper[h].pc \in {"unused", "inspect", "stop", "rename", "create"} => ~Exists(h)
        /\ helper[h].pc # "unused" => Parent(h) # h
        /\ helper[h].pc \in {"start", "health", "undoRemove", "undoRename", "remove"} /\ Exists(h)
              => box[h].name = helper[h].name

\* Whom the helper has left alive at each of its steps.
LiveAtStep ==
    \A h \in Helpers : \A d \in Containers : Live(d) =>
        /\ helper[h].pc \in {"inspect", "stop"} => d = Parent(h)
        /\ helper[h].pc \in {"health", "remove", "undoRemove", "undoRename"} => d = h
        /\ helper[h].pc \notin {"rename", "create", "start", "undoStart"}

\* The replacement cannot have shut down before the original is removed.
HealthyIsUp ==
    \A h \in Helpers :
        /\ h \in healthy => helper[h].pc \in {"remove", "succeeded", "failed"}
        /\ Active(h) => daemon[h] # "accepted"
        /\ helper[h].pc = "remove" /\ helper[h].wasRunning => h \in healthy /\ Up(h)

\* UndoRename precedes UndoStart.
NameIsBack == \A h \in Helpers : helper[h].pc = "undoStart" => box[Parent(h)].name = helper[h].name

HandOver ==
    /\ OneActive /\ OneLive /\ ProcessInRunning
    /\ FreshUntilCreated /\ LiveAtStep /\ HealthyIsUp /\ NameIsBack

SelfUpdateInv == TypeOK /\ (~overlapped => HandOver)

-----------------------------------------------------------------------------
(* The effect of a step, field by field.                                    *)

HelperGoes(h, pc) ==
    /\ pc \in Steps => helper' \in [Helpers -> Helper]
    /\ \A g \in Helpers :
          /\ helper'[g].pc = IF g = h THEN pc ELSE helper[g].pc
          /\ helper'[g].parent = helper[g].parent
          /\ helper'[g].name = helper[g].name
          /\ helper'[g].wasRunning = helper[g].wasRunning

BoxGoes(c, state, name) ==
    /\ state \in States /\ name \in Names => box' \in [Containers -> Box]
    /\ \A d \in Containers :
          /\ box'[d].state = IF d = c THEN state ELSE box[d].state
          /\ box'[d].name = IF d = c THEN name ELSE box[d].name

DaemonGoes(c, p) ==
    /\ p \in Process => daemon' \in [Containers -> Process]
    /\ \A d \in Containers : daemon'[d] = IF d = c THEN p ELSE daemon[d]

LEMMA GotoEffect ==
    ASSUME TypeOK, NEW h \in Helpers, NEW pc, Goto(h, pc)
    PROVE  HelperGoes(h, pc)
  BY DEF TypeOK, Helper, Goto, HelperGoes

LEMMA StateEffect ==
    ASSUME TypeOK, NEW c \in Containers, NEW s, box' = [box EXCEPT ![c].state = s]
    PROVE  BoxGoes(c, s, box[c].name) /\ box[c].name \in Names
  BY DEF TypeOK, Box, BoxGoes

LEMMA NameEffect ==
    ASSUME TypeOK, NEW c \in Containers, NEW n, box' = [box EXCEPT ![c].name = n]
    PROVE  BoxGoes(c, box[c].state, n) /\ box[c].state \in States
  BY DEF TypeOK, Box, BoxGoes

LEMMA BoxEffect ==
    ASSUME TypeOK, NEW c \in Containers, NEW s, NEW n, box' = [box EXCEPT ![c] = [state |-> s, name |-> n]]
    PROVE  BoxGoes(c, s, n)
  BY DEF TypeOK, Box, BoxGoes

LEMMA DaemonEffect ==
    ASSUME TypeOK, NEW c \in Containers, NEW p, daemon' = [daemon EXCEPT ![c] = p]
    PROVE  DaemonGoes(c, p)
  BY DEF TypeOK, DaemonGoes

-----------------------------------------------------------------------------
LEMMA StopStep ==
    ASSUME TypeOK, NEW h \in Helpers, Stop(h)
    PROVE  TypeOK' /\ (HandOver => HandOver')
<1> DEFINE c == Parent(h)
<1>0. /\ h \in Containers /\ c \in Containers /\ helper[h].pc = "stop"
      /\ UNCHANGED <<policy, overlapped>> /\ healthy' = healthy
  BY DEF TypeOK, Helper, Containers, Parent, At, Stop
<1>1. ASSUME NEW pc \in {"rename", "failed"}, Goto(h, pc),
             box' = [box EXCEPT ![c].state = stopped(c)],
             daemon' = IF stopped(c) = "exited" THEN Down(c) ELSE daemon
      PROVE  TypeOK' /\ (HandOver => HandOver')
  <2>1. /\ HelperGoes(h, pc) /\ BoxGoes(c, stopped(c), box[c].name)
        /\ \/ stopped(c) = "exited" /\ DaemonGoes(c, "down")
           \/ stopped(c) # "exited" /\ UNCHANGED daemon
    BY <1>0, <1>1, GotoEffect, StateEffect, DaemonEffect DEF Down
  <2>2. TypeOK'
    BY <1>0, <1>1, <2>1 DEF TypeOK, HelperGoes, BoxGoes, DaemonGoes, Steps, Settled, Box, States, Process, stopped
  <2> SUFFICES ASSUME HandOver PROVE HandOver'
    BY <2>2
  <2>3. OneActive'
    BY <1>0, <2>1 DEF HandOver, OneActive, Active, Settled, HelperGoes, BoxGoes, DaemonGoes, stopped
  <2>4. OneLive' /\ LiveAtStep'
    BY <1>0, <2>1 DEF HandOver, OneActive, Active, OneLive, LiveAtStep, FreshUntilCreated,
       Live, Exists, Parent, Settled, HelperGoes, BoxGoes, DaemonGoes, stopped
  <2>5. ProcessInRunning'
    BY <1>0, <2>1 DEF HandOver, ProcessInRunning, Up, HelperGoes, BoxGoes, DaemonGoes, stopped
  <2>6. FreshUntilCreated' /\ NameIsBack'
    BY <1>0, <2>1 DEF HandOver, OneActive, Active, Settled, FreshUntilCreated, NameIsBack,
       Exists, Parent, Containers, HelperGoes, BoxGoes, DaemonGoes, stopped
  <2>7. HealthyIsUp'
    BY <1>0, <2>1 DEF HandOver, HealthyIsUp, OneActive, Active, Up, Settled, Containers, ProcessInRunning, FreshUntilCreated, Exists, HelperGoes, BoxGoes, DaemonGoes, stopped
  <2> QED
    BY <2>3, <2>4, <2>5, <2>6, <2>7 DEF HandOver
<1>2. CASE Goto(h, "failed") /\ UNCHANGED <<box, daemon>>
  <2>1. HelperGoes(h, "failed")
    BY <1>0, <1>2, GotoEffect
  <2>2. TypeOK'
    BY <1>0, <1>2, <2>1 DEF TypeOK, HelperGoes, Steps, Settled
  <2>3. HandOver => HandOver'
    BY <1>0, <1>2, <2>1 DEF HandOver, OneActive, OneLive, ProcessInRunning, FreshUntilCreated,
       LiveAtStep, HealthyIsUp, NameIsBack, Active, Live, Up, Exists, Parent, Settled, Containers,
       HelperGoes
  <2> QED
    BY <2>2, <2>3
<1> QED
  BY <1>1, <1>2 DEF Stop, Returns

LEMMA RenameAwayStep ==
    ASSUME TypeOK, NEW h \in Helpers, RenameAway(h)
    PROVE  TypeOK' /\ (HandOver => HandOver')
<1> DEFINE c == Parent(h)
<1>0. /\ h \in Containers /\ c \in Containers /\ helper[h].pc = "rename"
      /\ UNCHANGED <<policy, overlapped>> /\ healthy' = healthy
  BY DEF TypeOK, Helper, Containers, Parent, At, RenameAway
<1>n. box[c].name \in Names /\ Append(helper[h].name, h) \in Names
  <2>1. box[c].name \in Names /\ helper[h].name \in Names
    BY <1>0 DEF TypeOK, Box, Helper
  <2> QED
    BY <2>1 DEF Names
<1>1. ASSUME NEW pc \in {"create", "failed"}, Goto(h, pc), UNCHANGED daemon,
             box' = [box EXCEPT ![c].name = Append(helper[h].name, h)]
      PROVE  TypeOK' /\ (HandOver => HandOver')
  <2>1. HelperGoes(h, pc) /\ BoxGoes(c, box[c].state, Append(helper[h].name, h))
    BY <1>0, <1>1, GotoEffect, NameEffect
  <2>2. TypeOK'
    BY <1>0, <1>n, <1>1, <2>1 DEF TypeOK, HelperGoes, BoxGoes, Steps, Settled, Box, States
  <2>3. HandOver => HandOver'
    BY <1>0, <1>1, <2>1 DEF HandOver, OneActive, OneLive, ProcessInRunning, FreshUntilCreated,
       LiveAtStep, HealthyIsUp, NameIsBack, Active, Live, Up, Exists, Parent, Settled, Containers,
       HelperGoes, BoxGoes
  <2> QED
    BY <2>2, <2>3
<1>2. ASSUME NEW name \in {box[c].name, Append(helper[h].name, h)}, Goto(h, "failed"), Exists(c),
             box' = [box EXCEPT ![c] = [state |-> "running", name |-> name]], daemon' = Booted(c)
      PROVE  TypeOK' /\ (HandOver => HandOver')
  <2>1. HelperGoes(h, "failed") /\ BoxGoes(c, "running", name) /\ DaemonGoes(c, "serving")
    BY <1>0, <1>2, GotoEffect, BoxEffect, DaemonEffect DEF Booted
  <2>0. name \in Names
    BY <1>n
  <2>2. TypeOK'
    BY <1>0, <1>2, <2>0, <2>1 DEF TypeOK, HelperGoes, BoxGoes, DaemonGoes, Steps, Settled, Box, States, Process
  <2> SUFFICES ASSUME HandOver PROVE HandOver'
    BY <2>2
  <2>3. OneActive'
    BY <1>0, <2>1 DEF HandOver, OneActive, Active, Settled, HelperGoes, BoxGoes, DaemonGoes
  <2>4. OneLive' /\ LiveAtStep'
    BY <1>0, <2>1 DEF HandOver, OneActive, Active, OneLive, LiveAtStep, FreshUntilCreated,
       Live, Exists, Parent, Settled, HelperGoes, BoxGoes, DaemonGoes
  <2>5. ProcessInRunning'
    BY <1>0, <2>1 DEF HandOver, ProcessInRunning, Up, HelperGoes, BoxGoes, DaemonGoes
  <2>6. FreshUntilCreated' /\ NameIsBack'
    BY <1>0, <1>2, <2>1 DEF HandOver, OneActive, Active, Settled, FreshUntilCreated, NameIsBack,
       Exists, Parent, Containers, HelperGoes, BoxGoes, DaemonGoes
  <2>7. HealthyIsUp'
    BY <1>0, <2>1 DEF HandOver, HealthyIsUp, OneActive, Active, Up, Settled, Containers, ProcessInRunning, FreshUntilCreated, Exists, HelperGoes, BoxGoes, DaemonGoes
  <2> QED
    BY <2>3, <2>4, <2>5, <2>6, <2>7 DEF HandOver
<1>3. CASE Goto(h, "failed") /\ UNCHANGED <<box, daemon>>
  <2>1. HelperGoes(h, "failed")
    BY <1>0, <1>3, GotoEffect
  <2>2. TypeOK'
    BY <1>0, <1>3, <2>1 DEF TypeOK, HelperGoes, Steps, Settled
  <2>3. HandOver => HandOver'
    BY <1>0, <1>3, <2>1 DEF HandOver, OneActive, OneLive, ProcessInRunning, FreshUntilCreated,
       LiveAtStep, HealthyIsUp, NameIsBack, Active, Live, Up, Exists, Parent, Settled, Containers,
       HelperGoes
  <2> QED
    BY <2>2, <2>3
<1> QED
  BY <1>1, <1>2, <1>3 DEF RenameAway, recovery

LEMMA CreateStep ==
    ASSUME TypeOK, NEW h \in Helpers, Create(h)
    PROVE  TypeOK' /\ (HandOver => HandOver')
<1> DEFINE c == Parent(h)
<1>0. /\ h \in Containers /\ c \in Containers /\ helper[h].pc = "create"
      /\ UNCHANGED <<policy, overlapped>> /\ healthy' = healthy
  BY DEF TypeOK, Helper, Containers, Parent, At, Create
<1>1. ASSUME NEW pc \in {IF helper[h].wasRunning THEN "start" ELSE "remove", "undoRename"},
             Goto(h, pc), UNCHANGED daemon,
             box' = [box EXCEPT ![h] = [state |-> "created", name |-> helper[h].name]]
      PROVE  TypeOK' /\ (HandOver => HandOver')
  <2>1. HelperGoes(h, pc) /\ BoxGoes(h, "created", helper[h].name)
    BY <1>0, <1>1, GotoEffect, BoxEffect
  <2>2. TypeOK'
    BY <1>0, <1>1, <2>1 DEF TypeOK, HelperGoes, BoxGoes, Steps, Settled, Box, States, Helper, Names
  <2>3. HandOver => HandOver'
    BY <1>0, <1>1, <2>1 DEF HandOver, OneActive, OneLive, ProcessInRunning, FreshUntilCreated,
       LiveAtStep, HealthyIsUp, NameIsBack, Active, Live, Up, Exists, Parent, Settled, Containers,
       HelperGoes, BoxGoes
  <2> QED
    BY <2>2, <2>3
<1>2. CASE Goto(h, "undoRename") /\ UNCHANGED <<box, daemon>>
  <2>1. HelperGoes(h, "undoRename")
    BY <1>0, <1>2, GotoEffect
  <2>2. TypeOK'
    BY <1>0, <1>2, <2>1 DEF TypeOK, HelperGoes, Steps, Settled
  <2>3. HandOver => HandOver'
    BY <1>0, <1>2, <2>1 DEF HandOver, OneActive, OneLive, ProcessInRunning, FreshUntilCreated,
       LiveAtStep, HealthyIsUp, NameIsBack, Active, Live, Up, Exists, Parent, Settled, Containers,
       HelperGoes
  <2> QED
    BY <2>2, <2>3
<1> QED
  BY <1>1, <1>2 DEF Create, Returns

LEMMA StartNewStep ==
    ASSUME TypeOK, NEW h \in Helpers, StartNew(h)
    PROVE  TypeOK' /\ (HandOver => HandOver')
<1> DEFINE c == Parent(h)
<1>0. /\ h \in Containers /\ c \in Containers /\ helper[h].pc = "start"
      /\ UNCHANGED <<policy, overlapped>> /\ healthy' = healthy
  BY DEF TypeOK, Helper, Containers, Parent, At, StartNew
<1>1. ASSUME NEW pc \in {"health", "undoRemove"}, Goto(h, pc),
             Exists(h), box' = Started(h), daemon' = Booted(h)
      PROVE  TypeOK' /\ (HandOver => HandOver')
  <2>1. HelperGoes(h, pc) /\ BoxGoes(h, "running", box[h].name) /\ DaemonGoes(h, "serving")
    BY <1>0, <1>1, GotoEffect, StateEffect, DaemonEffect DEF Started, Booted
  <2>2. TypeOK'
    BY <1>0, <1>1, <2>1 DEF TypeOK, HelperGoes, BoxGoes, DaemonGoes, Steps, Settled, Box, States, Process
  <2> SUFFICES ASSUME HandOver PROVE HandOver'
    BY <2>2
  <2>3. OneActive'
    BY <1>0, <2>1 DEF HandOver, OneActive, Active, Settled, HelperGoes, BoxGoes, DaemonGoes
  <2>4. OneLive' /\ LiveAtStep'
    BY <1>0, <2>1 DEF HandOver, OneActive, Active, OneLive, LiveAtStep, FreshUntilCreated,
       Live, Exists, Parent, Settled, HelperGoes, BoxGoes, DaemonGoes
  <2>5. ProcessInRunning'
    BY <1>0, <2>1 DEF HandOver, ProcessInRunning, Up, HelperGoes, BoxGoes, DaemonGoes
  <2>6. FreshUntilCreated' /\ NameIsBack'
    BY <1>0, <1>1, <2>1 DEF HandOver, OneActive, Active, Settled, FreshUntilCreated, NameIsBack,
       Exists, Parent, Containers, HelperGoes, BoxGoes, DaemonGoes
  <2>7. HealthyIsUp'
    BY <1>0, <2>1 DEF HandOver, HealthyIsUp, OneActive, Active, Up, Settled, Containers, ProcessInRunning, FreshUntilCreated, Exists, HelperGoes, BoxGoes, DaemonGoes
  <2> QED
    BY <2>3, <2>4, <2>5, <2>6, <2>7 DEF HandOver
<1>2. CASE Goto(h, "undoRemove") /\ UNCHANGED <<box, daemon>>
  <2>1. HelperGoes(h, "undoRemove")
    BY <1>0, <1>2, GotoEffect
  <2>2. TypeOK'
    BY <1>0, <1>2, <2>1 DEF TypeOK, HelperGoes, Steps, Settled
  <2>3. HandOver => HandOver'
    BY <1>0, <1>2, <2>1 DEF HandOver, OneActive, OneLive, ProcessInRunning, FreshUntilCreated,
       LiveAtStep, HealthyIsUp, NameIsBack, Active, Live, Up, Exists, Parent, Settled, Containers,
       HelperGoes
  <2> QED
    BY <2>2, <2>3
<1> QED
  BY <1>1, <1>2 DEF StartNew, Returns

LEMMA WaitHealthyStep ==
    ASSUME TypeOK, NEW h \in Helpers, WaitHealthy(h)
    PROVE  TypeOK' /\ (HandOver => HandOver')
<1> DEFINE c == Parent(h)
<1>0. /\ h \in Containers /\ c \in Containers /\ helper[h].pc = "health"
      /\ UNCHANGED <<policy, overlapped>> /\ UNCHANGED <<box, daemon>>
  BY DEF TypeOK, Helper, Containers, Parent, At, WaitHealthy
<1>1. CASE box[h].state = "running" /\ healthy' = healthy \cup {h} /\ Goto(h, "remove")
  <2>1. HelperGoes(h, "remove")
    BY <1>0, <1>1, GotoEffect
  <2>2. TypeOK'
    BY <1>0, <1>1, <2>1 DEF TypeOK, HelperGoes, Steps, Settled
  <2>3. HandOver => HandOver'
    BY <1>0, <1>1, <2>1 DEF HandOver, OneActive, OneLive, ProcessInRunning, FreshUntilCreated,
       LiveAtStep, HealthyIsUp, NameIsBack, Active, Live, Up, Exists, Parent, Settled, Containers,
       HelperGoes
  <2> QED
    BY <2>2, <2>3
<1>2. CASE Goto(h, "undoRemove") /\ UNCHANGED healthy
  <2>1. HelperGoes(h, "undoRemove")
    BY <1>0, <1>2, GotoEffect
  <2>2. TypeOK'
    BY <1>0, <1>2, <2>1 DEF TypeOK, HelperGoes, Steps, Settled
  <2>3. HandOver => HandOver'
    BY <1>0, <1>2, <2>1 DEF HandOver, OneActive, OneLive, ProcessInRunning, FreshUntilCreated,
       LiveAtStep, HealthyIsUp, NameIsBack, Active, Live, Up, Exists, Parent, Settled, Containers,
       HelperGoes
  <2> QED
    BY <2>2, <2>3
<1> QED
  BY <1>1, <1>2 DEF WaitHealthy, afterUnhealthy

LEMMA RemoveParentStep ==
    ASSUME TypeOK, NEW h \in Helpers, RemoveParent(h)
    PROVE  TypeOK' /\ (HandOver => HandOver')
<1> DEFINE c == Parent(h)
<1>0. /\ h \in Containers /\ c \in Containers /\ helper[h].pc = "remove"
      /\ UNCHANGED <<policy, overlapped>> /\ healthy' = healthy
  BY DEF TypeOK, Helper, Containers, Parent, At, RemoveParent
<1>1. ASSUME NEW pc \in {"succeeded", "failed"}, Goto(h, pc),
             box' = [box EXCEPT ![c] = Gone], daemon' = Down(c)
      PROVE  TypeOK' /\ (HandOver => HandOver')
  <2>1. HelperGoes(h, pc) /\ BoxGoes(c, "gone", <<>>) /\ DaemonGoes(c, "down")
    BY <1>0, <1>1, GotoEffect, BoxEffect, DaemonEffect DEF Gone, Down
  <2>2. TypeOK'
    BY <1>0, <1>1, <2>1 DEF TypeOK, HelperGoes, BoxGoes, DaemonGoes, Steps, Settled, Box, States, Process, Helper, Names
  <2>3. HandOver => HandOver'
    BY <1>0, <1>1, <2>1 DEF HandOver, OneActive, OneLive, ProcessInRunning, FreshUntilCreated,
       LiveAtStep, HealthyIsUp, NameIsBack, Active, Live, Up, Exists, Parent, Settled, Containers,
       HelperGoes, BoxGoes, DaemonGoes
  <2> QED
    BY <2>2, <2>3
<1>2. CASE Goto(h, "failed") /\ UNCHANGED <<box, daemon>>
  <2>1. HelperGoes(h, "failed")
    BY <1>0, <1>2, GotoEffect
  <2>2. TypeOK'
    BY <1>0, <1>2, <2>1 DEF TypeOK, HelperGoes, Steps, Settled
  <2>3. HandOver => HandOver'
    BY <1>0, <1>2, <2>1 DEF HandOver, OneActive, OneLive, ProcessInRunning, FreshUntilCreated,
       LiveAtStep, HealthyIsUp, NameIsBack, Active, Live, Up, Exists, Parent, Settled, Containers,
       HelperGoes
  <2> QED
    BY <2>2, <2>3
<1> QED
  BY <1>1, <1>2 DEF RemoveParent, Returns

LEMMA UndoRemoveStep ==
    ASSUME TypeOK, NEW h \in Helpers, UndoRemove(h)
    PROVE  TypeOK' /\ (HandOver => HandOver')
<1> DEFINE c == Parent(h)
<1>0. /\ h \in Containers /\ c \in Containers /\ helper[h].pc = "undoRemove"
      /\ UNCHANGED <<policy, overlapped>> /\ healthy' = healthy
  BY DEF TypeOK, Helper, Containers, Parent, At, UndoRemove
<1>1. CASE box' = [box EXCEPT ![h] = Gone] /\ daemon' = Down(h) /\ Goto(h, "undoRename")
  <2>1. HelperGoes(h, "undoRename") /\ BoxGoes(h, "gone", <<>>) /\ DaemonGoes(h, "down")
    BY <1>0, <1>1, GotoEffect, BoxEffect, DaemonEffect DEF Gone, Down
  <2>2. TypeOK'
    BY <1>0, <1>1, <2>1 DEF TypeOK, HelperGoes, BoxGoes, DaemonGoes, Steps, Settled, Box, States, Process, Helper, Names
  <2>3. HandOver => HandOver'
    BY <1>0, <1>1, <2>1 DEF HandOver, OneActive, OneLive, ProcessInRunning, FreshUntilCreated,
       LiveAtStep, HealthyIsUp, NameIsBack, Active, Live, Up, Exists, Parent, Settled, Containers,
       HelperGoes, BoxGoes, DaemonGoes
  <2> QED
    BY <2>2, <2>3
<1>2. CASE Goto(h, "undoRename") /\ UNCHANGED <<box, daemon>>
  <2>1. HelperGoes(h, "undoRename")
    BY <1>0, <1>2, GotoEffect
  <2>2. TypeOK'
    BY <1>0, <1>2, <2>1 DEF TypeOK, HelperGoes, Steps, Settled
  <2>3. HandOver => HandOver'
    BY <1>0, <1>2, <2>1 DEF HandOver, OneActive, OneLive, ProcessInRunning, FreshUntilCreated,
       LiveAtStep, HealthyIsUp, NameIsBack, Active, Live, Up, Exists, Parent, Settled, Containers,
       HelperGoes
  <2> QED
    BY <2>2, <2>3
<1> QED
  BY <1>1, <1>2 DEF UndoRemove

LEMMA UndoRenameStep ==
    ASSUME TypeOK, NEW h \in Helpers, UndoRename(h)
    PROVE  TypeOK' /\ (HandOver => HandOver')
<1> DEFINE c == Parent(h)
<1>0. /\ h \in Containers /\ c \in Containers /\ helper[h].pc = "undoRename"
      /\ UNCHANGED <<policy, overlapped>> /\ healthy' = healthy
  BY DEF TypeOK, Helper, Containers, Parent, At, UndoRename
<1>1. ASSUME NEW pc \in {afterUndo(h), "failed"}, Goto(h, pc), UNCHANGED daemon,
             NameFree(helper[h].name), box' = [box EXCEPT ![c].name = helper[h].name]
      PROVE  TypeOK' /\ (HandOver => HandOver')
  <2>1. HelperGoes(h, pc) /\ BoxGoes(c, box[c].state, helper[h].name)
    BY <1>0, <1>1, GotoEffect, NameEffect
  <2>2. TypeOK'
    BY <1>0, <1>1, <2>1 DEF TypeOK, HelperGoes, BoxGoes, Steps, Settled, Box, States, Helper, Names, afterUndo
  <2>3. HandOver => HandOver'
    BY <1>0, <1>1, <2>1 DEF HandOver, OneActive, OneLive, ProcessInRunning, FreshUntilCreated,
       LiveAtStep, HealthyIsUp, NameIsBack, Active, Live, Up, Exists, Parent, Settled, Containers,
       HelperGoes, BoxGoes, NameFree, afterUndo
  <2> QED
    BY <2>2, <2>3
<1>2. CASE Goto(h, "failed") /\ UNCHANGED <<box, daemon>>
  <2>1. HelperGoes(h, "failed")
    BY <1>0, <1>2, GotoEffect
  <2>2. TypeOK'
    BY <1>0, <1>2, <2>1 DEF TypeOK, HelperGoes, Steps, Settled
  <2>3. HandOver => HandOver'
    BY <1>0, <1>2, <2>1 DEF HandOver, OneActive, OneLive, ProcessInRunning, FreshUntilCreated,
       LiveAtStep, HealthyIsUp, NameIsBack, Active, Live, Up, Exists, Parent, Settled, Containers,
       HelperGoes
  <2> QED
    BY <2>2, <2>3
<1> QED
  BY <1>1, <1>2 DEF UndoRename, Returns, renamedBack

LEMMA UndoStartStep ==
    ASSUME TypeOK, NEW h \in Helpers, UndoStart(h)
    PROVE  TypeOK' /\ (HandOver => HandOver')
<1> DEFINE c == Parent(h)
<1>0. /\ h \in Containers /\ c \in Containers /\ helper[h].pc = "undoStart"
      /\ UNCHANGED <<policy, overlapped>> /\ healthy' = healthy
  BY DEF TypeOK, Helper, Containers, Parent, At, UndoStart
<1>1. ASSUME NEW pc \in {"restored", "failed"}, Goto(h, pc), Exists(c), box' = Started(c),
             daemon' = IF daemon[c] = "down" THEN Booted(c) ELSE daemon
      PROVE  TypeOK' /\ (HandOver => HandOver')
  <2>1. /\ HelperGoes(h, pc) /\ BoxGoes(c, "running", box[c].name)
        /\ DaemonGoes(c, "serving") \/ UNCHANGED daemon
    BY <1>0, <1>1, GotoEffect, StateEffect, DaemonEffect DEF Started, Booted
  <2>2. TypeOK'
    BY <1>0, <1>1, <2>1 DEF TypeOK, HelperGoes, BoxGoes, DaemonGoes, Steps, Settled, Box, States, Process
  <2> SUFFICES ASSUME HandOver PROVE HandOver'
    BY <2>2
  <2>3. OneActive'
    BY <1>0, <2>1 DEF HandOver, OneActive, Active, Settled, HelperGoes, BoxGoes, DaemonGoes
  <2>4. OneLive' /\ LiveAtStep'
    BY <1>0, <2>1 DEF HandOver, OneActive, Active, OneLive, LiveAtStep, FreshUntilCreated,
       Live, Exists, Parent, Settled, HelperGoes, BoxGoes, DaemonGoes
  <2>5. ProcessInRunning'
    BY <1>0, <2>1 DEF HandOver, ProcessInRunning, Up, HelperGoes, BoxGoes, DaemonGoes
  <2>6. FreshUntilCreated' /\ NameIsBack'
    BY <1>0, <1>1, <2>1 DEF HandOver, OneActive, Active, Settled, FreshUntilCreated, NameIsBack,
       Exists, Parent, Containers, HelperGoes, BoxGoes, DaemonGoes
  <2>7. HealthyIsUp'
    BY <1>0, <2>1 DEF HandOver, HealthyIsUp, OneActive, Active, Up, Settled, Containers, ProcessInRunning, FreshUntilCreated, Exists, HelperGoes, BoxGoes, DaemonGoes
  <2> QED
    BY <2>3, <2>4, <2>5, <2>6, <2>7 DEF HandOver
<1>2. CASE Goto(h, "failed") /\ UNCHANGED <<box, daemon>>
  <2>1. HelperGoes(h, "failed")
    BY <1>0, <1>2, GotoEffect
  <2>2. TypeOK'
    BY <1>0, <1>2, <2>1 DEF TypeOK, HelperGoes, Steps, Settled
  <2>3. HandOver => HandOver'
    BY <1>0, <1>2, <2>1 DEF HandOver, OneActive, OneLive, ProcessInRunning, FreshUntilCreated,
       LiveAtStep, HealthyIsUp, NameIsBack, Active, Live, Up, Exists, Parent, Settled, Containers,
       HelperGoes
  <2> QED
    BY <2>2, <2>3
<1> QED
  BY <1>1, <1>2 DEF UndoStart, Returns

LEMMA InspectStep ==
    ASSUME TypeOK, NEW h \in Helpers, Inspect(h)
    PROVE  TypeOK' /\ (HandOver => HandOver')
<1> DEFINE c == Parent(h)
<1>0. c \in Containers /\ helper[h].pc = "inspect" /\ UNCHANGED <<policy, overlapped, box, daemon, healthy>>
  BY DEF TypeOK, Helper, Parent, At, Inspect
<1>1. CASE box[c].state \in {"running", "exited", "created"}
  <2>1. wasRunning(c) \in BOOLEAN /\ box[c].name \in Names
    BY <1>0 DEF TypeOK, Box, wasRunning
  <2> DEFINE pc == IF wasRunning(c) THEN "stop" ELSE "rename"
  <2>2. helper' = [helper EXCEPT ![h].pc = pc, ![h].name = box[c].name, ![h].wasRunning = wasRunning(c)]
    BY <1>1 DEF Inspect
  <2>3. pc \in Steps
    BY DEF Steps
  <2>4. helper' \in [Helpers -> Helper]
    <3> HIDE DEF pc
    <3> QED
      BY <2>1, <2>2, <2>3 DEF TypeOK, Helper
  <2>5. \A g \in Helpers :
           /\ helper'[g].pc = IF g = h THEN (IF wasRunning(c) THEN "stop" ELSE "rename") ELSE helper[g].pc
           /\ helper'[g].parent = helper[g].parent
           /\ g # h => helper'[g].name = helper[g].name /\ helper'[g].wasRunning = helper[g].wasRunning
    BY <2>2 DEF TypeOK, Helper
  <2>6. TypeOK'
    BY <1>0, <2>4 DEF TypeOK
  <2>7. HandOver => HandOver'
    BY <1>0, <1>1, <2>5 DEF HandOver, OneActive, OneLive, ProcessInRunning, FreshUntilCreated,
       LiveAtStep, HealthyIsUp, NameIsBack, Active, Live, Up, Exists, Parent, Settled, Containers, wasRunning
  <2> QED
    BY <2>6, <2>7
<1>2. CASE Goto(h, "failed")
  <2>1. HelperGoes(h, "failed")
    BY <1>2, GotoEffect
  <2>2. TypeOK'
    BY <1>0, <2>1 DEF TypeOK, HelperGoes, Steps, Settled
  <2>3. HandOver => HandOver'
    BY <1>0, <2>1 DEF HandOver, OneActive, OneLive, ProcessInRunning, FreshUntilCreated,
       LiveAtStep, HealthyIsUp, NameIsBack, Active, Live, Up, Exists, Parent, Settled, Containers, HelperGoes
  <2> QED
    BY <2>2, <2>3
<1> QED
  BY <1>1, <1>2 DEF Inspect

LEMMA HelperDiesStep ==
    ASSUME TypeOK, NEW h \in Helpers, HelperDies(h)
    PROVE  TypeOK' /\ (HandOver => HandOver')
<1>1. Active(h) /\ UNCHANGED <<policy, overlapped, box, daemon, healthy>>
  BY DEF HelperDies, Active
<1>2. HelperGoes(h, "failed")
  BY GotoEffect DEF HelperDies
<1>3. TypeOK'
  BY <1>1, <1>2 DEF TypeOK, HelperGoes, Steps, Settled
<1>4. HandOver => HandOver'
  BY <1>1, <1>2 DEF HandOver, OneActive, OneLive, ProcessInRunning, FreshUntilCreated,
     LiveAtStep, HealthyIsUp, NameIsBack, Active, Live, Up, Exists, Parent, Settled, Containers, HelperGoes
<1> QED
  BY <1>3, <1>4

\* The one step that needs the history: no other helper works.
LEMMA StartHelperStep ==
    ASSUME TypeOK, NEW c \in Containers, NEW h \in Helpers, StartHelper(c, h)
    PROVE  TypeOK' /\ (~overlapped' /\ HandOver => HandOver')
<1>0. overlapped' \in BOOLEAN /\ (~overlapped' => \A g \in Helpers : ~Active(g))
  BY Zenon DEF StartHelper, Active
<1>1. /\ helper[h].pc = "unused" /\ daemon[c] = "gated" /\ UNCHANGED <<policy, box, healthy>>
  BY DEF StartHelper, Unused
<1>2. /\ helper' \in [Helpers -> Helper]
      /\ \A g \in Helpers :
            /\ helper'[g].pc = IF g = h THEN "inspect" ELSE helper[g].pc
            /\ helper'[g].parent = IF g = h THEN c ELSE helper[g].parent
            /\ helper'[g].name = helper[g].name /\ helper'[g].wasRunning = helper[g].wasRunning
  BY DEF StartHelper, TypeOK, Helper, Steps
<1>3. DaemonGoes(c, "accepted")
  BY DaemonEffect DEF StartHelper
<1>4. TypeOK'
  BY <1>0, <1>1, <1>2, <1>3 DEF TypeOK, DaemonGoes, Process
<1>5. ASSUME ~overlapped', HandOver PROVE HandOver'
  <2>1. Up(c) /\ c # h
    BY <1>1, <1>5 DEF HandOver, ProcessInRunning, FreshUntilCreated, Up, Exists
  <2> QED
    BY <1>0, <1>1, <1>2, <1>3, <1>5, <2>1 DEF HandOver, OneActive, OneLive, ProcessInRunning, FreshUntilCreated,
       LiveAtStep, HealthyIsUp, NameIsBack, Active, Live, Up, Exists, Parent, Settled, Containers, DaemonGoes
<1> QED
  BY <1>4, <1>5

\* What the daemon and Docker do by themselves.
LEMMA DaemonStep ==
    ASSUME TypeOK, NEW c \in Containers,
           Restarts(c) \/ CloseGate(c) \/ Release(c) \/ shutdown(c)
    PROVE  TypeOK' /\ (HandOver => HandOver')
<1>0. UNCHANGED <<policy, overlapped, helper, healthy>>
  BY DEF Restarts, CloseGate, Release, shutdown
<1>1. CASE Restarts(c)
  <2>1. /\ BoxGoes(c, "running", box[c].name) /\ box[c].name \in Names
        /\ DaemonGoes(c, "serving") /\ box[c].state = "restarting"
    BY <1>1, StateEffect, DaemonEffect DEF Restarts, Started, Booted
  <2>2. TypeOK'
    BY <1>0, <2>1 DEF TypeOK, BoxGoes, DaemonGoes, States, Process
  <2>3. HandOver => HandOver'
    BY <1>0, <2>1 DEF HandOver, OneActive, OneLive, ProcessInRunning, FreshUntilCreated,
       LiveAtStep, HealthyIsUp, NameIsBack, Active, Live, Up, Exists, Parent, Settled, Containers, BoxGoes, DaemonGoes
  <2> QED
    BY <2>2, <2>3
<1>2. CASE CloseGate(c)
  <2>1. DaemonGoes(c, "gated") /\ UNCHANGED box /\ daemon[c] = "serving"
    BY <1>2, DaemonEffect DEF CloseGate
  <2>2. TypeOK'
    BY <1>0, <2>1 DEF TypeOK, DaemonGoes, Process
  <2>3. HandOver => HandOver'
    BY <1>0, <2>1 DEF HandOver, OneActive, OneLive, ProcessInRunning, FreshUntilCreated,
       LiveAtStep, HealthyIsUp, NameIsBack, Active, Live, Up, Exists, Parent, Settled, Containers, DaemonGoes
  <2> QED
    BY <2>2, <2>3
<1>3. CASE Release(c)
  <2>1. DaemonGoes(c, "serving") /\ UNCHANGED box /\ daemon[c] = "gated"
    BY <1>3, DaemonEffect DEF Release
  <2>2. TypeOK'
    BY <1>0, <2>1 DEF TypeOK, DaemonGoes, Process
  <2>3. HandOver => HandOver'
    BY <1>0, <2>1 DEF HandOver, OneActive, OneLive, ProcessInRunning, FreshUntilCreated,
       LiveAtStep, HealthyIsUp, NameIsBack, Active, Live, Up, Exists, Parent, Settled, Containers, DaemonGoes
  <2> QED
    BY <2>2, <2>3
<1>4. CASE shutdown(c)
  <2>1. /\ BoxGoes(c, IF policy THEN "restarting" ELSE "exited", box[c].name) /\ box[c].name \in Names
        /\ DaemonGoes(c, "down") /\ daemon[c] = "accepted"
    BY <1>4, StateEffect, DaemonEffect DEF shutdown, Down
  <2>2. TypeOK'
    BY <1>0, <2>1 DEF TypeOK, BoxGoes, DaemonGoes, States, Process
  <2>3. HandOver => HandOver'
    BY <1>0, <2>1 DEF HandOver, OneActive, OneLive, ProcessInRunning, FreshUntilCreated,
       LiveAtStep, HealthyIsUp, NameIsBack, Active, Live, Up, Exists, Parent, Settled, Containers, BoxGoes, DaemonGoes
  <2> QED
    BY <2>2, <2>3
<1> QED
  BY <1>1, <1>2, <1>3, <1>4

-----------------------------------------------------------------------------
LEMMA InitHandsOver == Init => SelfUpdateInv
<1> SUFFICES ASSUME Init PROVE SelfUpdateInv
  OBVIOUS
<1>1. /\ \A c \in Containers : box[c].state = IF c = Original THEN "running" ELSE "gone"
      /\ \A c \in Containers : daemon[c] = IF c = Original THEN "serving" ELSE "down"
      /\ \A h \in Helpers : helper[h].pc = "unused"
      /\ healthy = {}
  BY DEF Init, Gone, Unused
<1>0. overlapped \in BOOLEAN
  BY DEF Init
<1>2. TypeOK
  BY <1>0, SelfUpdateAssumption DEF Init, TypeOK, Gone, Unused, Steps, Settled, Containers,
     Box, Process, Helper, Names, States
<1>3. HandOver
  BY <1>1, SelfUpdateAssumption DEF HandOver, OneActive, OneLive, ProcessInRunning, FreshUntilCreated,
     LiveAtStep, HealthyIsUp, NameIsBack, Active, Live, Up, Exists, Parent, Settled, Containers
<1> QED
  BY <1>2, <1>3 DEF SelfUpdateInv

LEMMA OverlapStays ==
    ASSUME TypeOK, overlapped, [Next]_vars
    PROVE  overlapped'
<1>1. ASSUME NEW h \in Helpers, HelperStep(h) \/ HelperDies(h) PROVE overlapped'
  BY <1>1 DEF HelperStep, HelperDies, Inspect, Stop, RenameAway, Create, StartNew, WaitHealthy,
     RemoveParent, UndoRemove, UndoRename, UndoStart
<1>2. ASSUME NEW h \in Helpers, NEW c \in Containers, StartHelper(c, h) PROVE overlapped'
  BY <1>2 DEF StartHelper
<1>3. ASSUME NEW c \in Containers, Restarts(c) \/ CloseGate(c) \/ Release(c) \/ shutdown(c)
      PROVE  overlapped'
  BY <1>3 DEF Restarts, CloseGate, Release, shutdown
<1>4. CASE UNCHANGED vars
  BY <1>4 DEF vars
<1> QED
  BY <1>1, <1>2, <1>3, <1>4 DEF Next

LEMMA SelfUpdateStep ==
    ASSUME TypeOK, [Next]_vars
    PROVE  TypeOK' /\ (~overlapped' /\ HandOver => HandOver')
<1>1. ASSUME NEW h \in Helpers, HelperStep(h) PROVE TypeOK' /\ (HandOver => HandOver')
  BY <1>1, InspectStep, StopStep, RenameAwayStep, CreateStep, StartNewStep, WaitHealthyStep,
     RemoveParentStep, UndoRemoveStep, UndoRenameStep, UndoStartStep DEF HelperStep
<1>2. CASE UNCHANGED vars
  <2>1. UNCHANGED <<policy, overlapped, box, daemon, helper, healthy>>
    BY <1>2 DEF vars
  <2>2. TypeOK'
    BY <2>1 DEF TypeOK
  <2>3. HandOver => HandOver'
    BY <2>1 DEF HandOver, OneActive, OneLive, ProcessInRunning, FreshUntilCreated,
       LiveAtStep, HealthyIsUp, NameIsBack, Active, Live, Up, Exists, Parent, Settled, Containers
  <2> QED
    BY <2>2, <2>3
<1>3. ASSUME NEW h \in Helpers, HelperDies(h) PROVE TypeOK' /\ (HandOver => HandOver')
  BY <1>3, HelperDiesStep
<1>4. ASSUME NEW h \in Helpers, NEW c \in Containers, StartHelper(c, h)
      PROVE  TypeOK' /\ (~overlapped' /\ HandOver => HandOver')
  BY <1>4, StartHelperStep
<1>5. ASSUME NEW c \in Containers, Restarts(c) \/ CloseGate(c) \/ Release(c) \/ shutdown(c)
      PROVE  TypeOK' /\ (HandOver => HandOver')
  BY <1>5, DaemonStep
<1> QED
  BY <1>1, <1>2, <1>3, <1>4, <1>5 DEF Next

-----------------------------------------------------------------------------
\* The types of the self-update's state, however the helpers overlap.
THEOREM SelfUpdateTypeCorrect == Spec => []TypeOK
<1>1. Init => TypeOK
  BY InitHandsOver DEF SelfUpdateInv
<1>2. TypeOK /\ [Next]_vars => TypeOK'
  BY SelfUpdateStep
<1> QED
  BY <1>1, <1>2, PTL DEF Spec

\* The hand-over invariant: until StartSelfUpdate starts a helper beside another,
\* each step of RunSelfUpdateHelper knows which container may be alive.
THEOREM HandOverInvariant == Spec => []SelfUpdateInv
<1>1. SelfUpdateInv /\ [Next]_vars => SelfUpdateInv'
  BY SelfUpdateStep, OverlapStays DEF SelfUpdateInv
<1> QED
  BY <1>1, InitHandsOver, PTL DEF Spec

\* RunSelfUpdateHelper never runs two daemons beside each other, whatever call
\* fails and whenever the helper dies or Docker restarts the old daemon.
THEOREM OneDaemonAtATime == Spec => []OneDaemon
<1>1. SelfUpdateInv => OneDaemon
  BY DEF SelfUpdateInv, HandOver, OneLive, OneDaemon, Live, Up
<1> QED
  BY <1>1, HandOverInvariant, PTL

-----------------------------------------------------------------------------
(* What a step may not do.                                                  *)

LEMMA OnlyRemovesRemove ==
    ASSUME TypeOK, NEW c \in Containers, Exists(c), box'[c] = Gone, [Next]_vars
    PROVE  \/ \E h \in Helpers : RemoveParent(h) /\ Parent(h) = c
           \/ c \in Helpers /\ UndoRemove(c)
<1>0. box'[c].state = "gone" /\ box[c].state # "gone"
  BY DEF Gone, Exists
<1>1. ASSUME UNCHANGED box PROVE FALSE
  BY <1>0, <1>1
<1>2. ASSUME NEW d \in Containers, NEW s, box' = [box EXCEPT ![d].state = s], s # "gone" PROVE FALSE
  <2>1. BoxGoes(d, s, box[d].name)
    BY <1>2, StateEffect
  <2> QED
    BY <1>0, <1>2, <2>1 DEF BoxGoes
<1>3. ASSUME NEW d \in Containers, NEW n, box' = [box EXCEPT ![d].name = n] PROVE FALSE
  BY <1>0, <1>3, NameEffect DEF BoxGoes
<1>4. ASSUME NEW d \in Containers, NEW n, NEW s \in {"created", "running"},
             box' = [box EXCEPT ![d] = [state |-> s, name |-> n]]
      PROVE  FALSE
  BY <1>0, <1>4, BoxEffect DEF BoxGoes
<1>5. ASSUME NEW d \in Containers, box' = [box EXCEPT ![d] = Gone] PROVE d = c
  BY <1>0, <1>5, BoxEffect DEF BoxGoes, Gone
<1>6. ASSUME NEW h \in Helpers, HelperStep(h)
      PROVE  (RemoveParent(h) /\ Parent(h) = c) \/ (h = c /\ UndoRemove(h))
  <2>0. h \in Containers /\ Parent(h) \in Containers
    BY DEF TypeOK, Helper, Parent, Containers
  <2>1. CASE Inspect(h) \/ WaitHealthy(h)
    BY <1>1, <2>1 DEF Inspect, WaitHealthy
  <2>2. CASE Stop(h)
    BY <1>1, <1>2, <2>0, <2>2 DEF Stop, stopped, Exists
  <2>3. CASE RenameAway(h)
    BY <1>1, <1>3, <1>4, <2>0, <2>3 DEF RenameAway
  <2>4. CASE Create(h)
    BY <1>1, <1>4, <2>0, <2>4 DEF Create
  <2>5. CASE StartNew(h)
    BY <1>1, <1>2, <2>0, <2>5 DEF StartNew, Started
  <2>6. CASE RemoveParent(h)
    BY <1>1, <1>5, <2>0, <2>6 DEF RemoveParent
  <2>7. CASE UndoRemove(h)
    BY <1>1, <1>5, <2>0, <2>7 DEF UndoRemove
  <2>8. CASE UndoRename(h)
    BY <1>1, <1>3, <2>0, <2>8 DEF UndoRename, renamedBack
  <2>9. CASE UndoStart(h)
    BY <1>1, <1>2, <2>0, <2>9 DEF UndoStart, Started
  <2> QED
    BY <1>6, <2>1, <2>2, <2>3, <2>4, <2>5, <2>6, <2>7, <2>8, <2>9 DEF HelperStep
<1>7. ASSUME NEW d \in Containers, Restarts(d) \/ CloseGate(d) \/ Release(d) \/ shutdown(d) PROVE FALSE
  <2>1. CASE Restarts(d)
    BY <1>2, <2>1 DEF Restarts, Started
  <2>2. CASE CloseGate(d) \/ Release(d)
    BY <1>1, <2>2 DEF CloseGate, Release
  <2>3. CASE shutdown(d)
    BY <1>2, <2>3 DEF shutdown
  <2> QED
    BY <1>7, <2>1, <2>2, <2>3
<1>8. ASSUME NEW h \in Helpers, HelperDies(h) \/ \E d \in Containers : StartHelper(d, h) PROVE FALSE
  BY <1>1, <1>8 DEF HelperDies, StartHelper
<1>9. CASE UNCHANGED vars
  BY <1>1, <1>9 DEF vars
<1> QED
  BY <1>6, <1>7, <1>8, <1>9 DEF Next

\* removeReplacedDaemon comes after WaitHealthy: a daemon's container disappears
\* only in favour of a replacement that was healthy and still runs.
THEOREM OriginalIsKept == Spec => OriginalKeptUntilHealthy
<1> DEFINE Kept ==
      ~overlapped => \A c \in Containers : Exists(c) /\ box'[c] = Gone =>
          \/ c \in Helpers \ healthy
          \/ \E h \in Helpers : At(h, "remove") /\ Parent(h) = c
                                  /\ (helper[h].wasRunning => h \in healthy /\ Up(h))
<1>1. SelfUpdateInv /\ [Next]_vars => [Kept]_vars
  <2> SUFFICES ASSUME SelfUpdateInv, ~overlapped, [Next]_vars, NEW c \in Containers, Exists(c), box'[c] = Gone
               PROVE  \/ c \in Helpers \ healthy
                      \/ \E h \in Helpers : At(h, "remove") /\ Parent(h) = c
                                              /\ (helper[h].wasRunning => h \in healthy /\ Up(h))
    OBVIOUS
  <2>1. \/ \E h \in Helpers : RemoveParent(h) /\ Parent(h) = c
        \/ c \in Helpers /\ UndoRemove(c)
    BY OnlyRemovesRemove DEF SelfUpdateInv
  <2>2. CASE c \in Helpers /\ UndoRemove(c)
    BY <2>2 DEF UndoRemove, At, SelfUpdateInv, HandOver, HealthyIsUp
  <2>3. CASE \E h \in Helpers : RemoveParent(h) /\ Parent(h) = c
    BY <2>3 DEF RemoveParent, At, SelfUpdateInv, HandOver, HealthyIsUp
  <2> QED
    BY <2>1, <2>2, <2>3
<1> QED
  BY <1>1, HandOverInvariant, PTL DEF Spec, OriginalKeptUntilHealthy

LEMMA OnlyUndoRestores ==
    ASSUME TypeOK, NEW h \in Helpers, helper'[h].pc = "restored", helper[h].pc # "restored", [Next]_vars
    PROVE  \/ UndoRename(h) /\ box' = renamedBack(h) /\ ~helper[h].wasRunning
           \/ UndoStart(h) /\ box' = Started(Parent(h))
<1>1. ASSUME UNCHANGED helper PROVE FALSE
  BY <1>1
<1>2. ASSUME NEW g \in Helpers, NEW pc, Goto(g, pc) PROVE g = h /\ pc = "restored"
  BY <1>2, GotoEffect DEF HelperGoes
<1>3. ASSUME NEW g \in Helpers, HelperStep(g)
      PROVE  g = h /\ \/ UndoRename(g) /\ box' = renamedBack(g) /\ ~helper[g].wasRunning
                      \/ UndoStart(g) /\ box' = Started(Parent(g))
  <2>1. CASE Inspect(g)
    <3>1. helper'[h].pc \in {helper[h].pc, "stop", "rename", "failed"}
      BY <2>1 DEF Inspect, Goto, TypeOK, Helper
    <3> QED
      BY <3>1
  <2>2. CASE Stop(g)
    BY <1>2, <2>2 DEF Stop, Returns
  <2>3. CASE RenameAway(g)
    BY <1>2, <2>3 DEF RenameAway
  <2>4. CASE Create(g)
    BY <1>2, <2>4 DEF Create, Returns
  <2>5. CASE StartNew(g)
    BY <1>2, <2>5 DEF StartNew, Returns
  <2>6. CASE WaitHealthy(g)
    BY <1>2, <2>6 DEF WaitHealthy, afterUnhealthy
  <2>7. CASE RemoveParent(g)
    BY <1>2, <2>7 DEF RemoveParent, Returns
  <2>8. CASE UndoRemove(g)
    BY <1>2, <2>8 DEF UndoRemove
  <2>9. CASE UndoRename(g)
    BY <1>2, <2>9 DEF UndoRename, Returns, afterUndo
  <2>10. CASE UndoStart(g)
    BY <1>2, <2>10 DEF UndoStart, Returns
  <2> QED
    BY <1>3, <2>1, <2>2, <2>3, <2>4, <2>5, <2>6, <2>7, <2>8, <2>9, <2>10 DEF HelperStep
<1>4. ASSUME NEW g \in Helpers, HelperDies(g) PROVE FALSE
  BY <1>2, <1>4 DEF HelperDies
<1>5. ASSUME NEW g \in Helpers, NEW d \in Containers, StartHelper(d, g) PROVE FALSE
  BY <1>5 DEF StartHelper, TypeOK, Helper
<1>6. ASSUME NEW d \in Containers, Restarts(d) \/ CloseGate(d) \/ Release(d) \/ shutdown(d) PROVE FALSE
  BY <1>1, <1>6 DEF Restarts, CloseGate, Release, shutdown
<1>7. CASE UNCHANGED vars
  BY <1>1, <1>7 DEF vars
<1> QED
  BY <1>3, <1>4, <1>5, <1>6, <1>7 DEF Next

\* "original container was restored": when RunSelfUpdateHelper records it, the
\* original has its name back and runs if it ran when the helper inspected it.
THEOREM RestoredMeansRestored == Spec => RestoredIsRestored
<1> DEFINE Restored ==
      ~overlapped => \A h \in Helpers : helper'[h].pc = "restored" /\ helper[h].pc # "restored" =>
          /\ box'[Parent(h)].name = helper[h].name
          /\ helper[h].wasRunning => box'[Parent(h)].state = "running"
<1>1. SelfUpdateInv /\ [Next]_vars => [Restored]_vars
  <2> SUFFICES ASSUME SelfUpdateInv, ~overlapped, [Next]_vars, NEW h \in Helpers,
                      helper'[h].pc = "restored", helper[h].pc # "restored"
               PROVE  /\ box'[Parent(h)].name = helper[h].name
                      /\ helper[h].wasRunning => box'[Parent(h)].state = "running"
    OBVIOUS
  <2>0. TypeOK /\ Parent(h) \in Containers
    BY DEF SelfUpdateInv, TypeOK, Helper, Parent
  <2>1. CASE UndoRename(h) /\ box' = renamedBack(h) /\ ~helper[h].wasRunning
    <3>1. BoxGoes(Parent(h), box[Parent(h)].state, helper[h].name)
      BY <2>0, <2>1, NameEffect DEF renamedBack
    <3> QED
      BY <2>0, <2>1, <3>1 DEF BoxGoes
  <2>2. CASE UndoStart(h) /\ box' = Started(Parent(h))
    <3>1. box[Parent(h)].name = helper[h].name
      BY <2>2 DEF UndoStart, At, SelfUpdateInv, HandOver, NameIsBack
    <3>2. BoxGoes(Parent(h), "running", box[Parent(h)].name)
      BY <2>0, <2>2, StateEffect DEF Started
    <3> QED
      BY <2>0, <3>1, <3>2 DEF BoxGoes
  <2> QED
    BY <2>0, <2>1, <2>2, OnlyUndoRestores
<1> QED
  BY <1>1, HandOverInvariant, PTL DEF Spec, RestoredIsRestored
=============================================================================
