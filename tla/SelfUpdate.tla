----------------------------- MODULE SelfUpdate -----------------------------
(***************************************************************************)
(* The daemon replaces itself (internal/updater/self_update.go): it closes  *)
(* its gate, starts a helper container and shuts down; the helper, a        *)
(* process of its own, stops and renames the daemon's container, creates    *)
(* the replacement and removes the old one, or puts it back.  Daemon,       *)
(* helper and Docker's restart policy run side by side, and nothing makes   *)
(* the helper wait for the daemon or the daemon for the helper.             *)
(*                                                                         *)
(* A container is the Original or the replacement a helper creates, under   *)
(* the helper's own name.  A recovery name is the name it replaces with the *)
(* helper's token at its end, so names are sequences of helpers and <<>> is *)
(* the one the daemon was deployed under.  What StartSelfUpdate asks of the *)
(* schedules is in module Schedules.  A Docker call that returns an error    *)
(* may have had no effect, or all of it.                                     *)
(***************************************************************************)
EXTENDS Naturals, Sequences

CONSTANTS
    Original,    \* the daemon's first container
    Helpers,     \* the helpers, one for each accepted self-update
    Policies,    \* restart policies tried: TRUE when Docker restarts an exit 0
    MaxFaults    \* bound on Docker calls that fail and helpers that die

Containers == Helpers \cup {Original}

ASSUME SelfUpdateAssumption ==
    Original \notin Helpers /\ Policies \subseteq BOOLEAN /\ MaxFaults \in Nat

VARIABLES
    policy,   \* the restart policy of the deployment
    box,      \* box[c]: what Docker knows of container c
    daemon,   \* daemon[c]: the DoUpRo process in c
    helper,   \* helper[h]: the process of RunSelfUpdateHelper
    healthy,  \* the replacements WaitHealthy has passed
    overlapped,  \* history: a self-update was accepted while a helper worked
    faults

vars == <<policy, box, daemon, helper, healthy, overlapped, faults>>

Gone == [state |-> "gone", name |-> <<>>]
Unused == [pc |-> "unused", parent |-> Original, name |-> <<>>, wasRunning |-> FALSE]

Init ==
    /\ policy \in Policies
    /\ box = [c \in Containers |-> IF c = Original THEN [state |-> "running", name |-> <<>>] ELSE Gone]
    /\ daemon = [c \in Containers |-> IF c = Original THEN "serving" ELSE "down"]
    /\ helper = [h \in Helpers |-> Unused]
    /\ healthy = {}
    /\ overlapped = FALSE
    /\ faults = 0

Fault == faults < MaxFaults /\ faults' = faults + 1
NoFault == UNCHANGED faults

-----------------------------------------------------------------------------
(* Docker's calls, on the table of containers.                              *)

Exists(c) == box[c].state # "gone"
NameFree(name) == \A c \in Containers : Exists(c) => box[c].name # name

Started(c) == [box EXCEPT ![c].state = "running"]
Booted(c) == [daemon EXCEPT ![c] = "serving"]
Down(c) == [daemon EXCEPT ![c] = "down"]

\* The restart policy; a container stopped through the API is left alone.
Restarts(c) ==
    /\ box[c].state = "restarting"
    /\ box' = Started(c) /\ daemon' = Booted(c)
    /\ UNCHANGED <<policy, overlapped, helper, healthy, faults>>

-----------------------------------------------------------------------------
(* StartSelfUpdate.                                                         *)

CloseGate(c) ==
    /\ daemon[c] = "serving"
    /\ daemon' = [daemon EXCEPT ![c] = "gated"]
    /\ UNCHANGED <<policy, overlapped, box, helper, healthy, faults>>

\* Refused or failed before the helper runs: the deferred endMaintenance.
Release(c) ==
    /\ daemon[c] = "gated"
    /\ daemon' = [daemon EXCEPT ![c] = "serving"]
    /\ UNCHANGED <<policy, overlapped, box, helper, healthy, faults>>

Settled == {"unused", "succeeded", "restored", "failed"}

\* The helper is started; the gate stays closed.  The gate is this process's own
\* and knows nothing of the helper of an earlier one.
StartHelper(c, h) ==
    /\ daemon[c] = "gated" /\ helper[h] = Unused
    /\ daemon' = [daemon EXCEPT ![c] = "accepted"]
    /\ helper' = [helper EXCEPT ![h].pc = "inspect", ![h].parent = c]
    /\ overlapped' = (overlapped \/ \E other \in Helpers : helper[other].pc \notin Settled)
    /\ UNCHANGED <<policy, box, healthy, faults>>

\* A second later the daemon shuts down, with exit code 0.
shutdown(c) ==
    /\ daemon[c] = "accepted"
    /\ daemon' = Down(c)
    /\ box' = [box EXCEPT ![c].state = IF policy THEN "restarting" ELSE "exited"]
    /\ UNCHANGED <<policy, overlapped, helper, healthy, faults>>

-----------------------------------------------------------------------------
(* RunSelfUpdateHelper, one action per Docker call.                         *)

At(h, pc) == helper[h].pc = pc
Goto(h, pc) == helper' = [helper EXCEPT ![h].pc = pc]
Parent(h) == helper[h].parent

\* What follows a call that has taken effect: it returns, or reports an error
\* all the same.
Returns(h, next, onError) ==
    \/ NoFault /\ Goto(h, next)
    \/ Fault /\ Goto(h, onError)

\* Mutants: the daemon is not stopped; a failed health check is not noticed;
\* the original keeps its recovery name, or is not started again.
stoppedNot(c) == box[c].state
afterUnhealthyRemove(h) == "remove"
renamedBackNot(h) == box
afterUndoDone(h) == "restored"

\* buildRecreationPlan's wasRunning.
wasRunning(c) == box[c].state = "running"

\* Inspect and buildRecreationPlan, which refuses any state but these three.
Inspect(h) ==
    /\ At(h, "inspect")
    /\ IF box[Parent(h)].state \in {"running", "exited", "created"}
       THEN helper' = [helper EXCEPT ![h].pc = IF wasRunning(Parent(h)) THEN "stop" ELSE "rename",
                                     ![h].name = box[Parent(h)].name,
                                     ![h].wasRunning = wasRunning(Parent(h))]
       ELSE Goto(h, "failed")
    /\ UNCHANGED <<policy, overlapped, box, daemon, healthy, faults>>

\* Docker's Stop, which also ends the restarts.
stopped(c) == IF box[c].state \in {"running", "restarting"} THEN "exited" ELSE box[c].state

Stop(h) ==
    LET c == Parent(h)
    IN  /\ At(h, "stop")
        /\ \/ /\ Exists(c)
              /\ box' = [box EXCEPT ![c].state = stopped(c)]
              /\ daemon' = IF stopped(c) = "exited" THEN Down(c) ELSE daemon
              /\ Returns(h, "rename", "failed")
           \/ /\ IF Exists(c) THEN Fault ELSE NoFault
              /\ Goto(h, "failed") /\ UNCHANGED <<box, daemon>>
        /\ UNCHANGED <<policy, overlapped, healthy>>

recovery(h) == Append(helper[h].name, h)

\* Rename to the recovery name.  When it fails the daemon is started again, if
\* that works, under the name it then has.
RenameAway(h) ==
    LET c == Parent(h)
    IN  /\ At(h, "rename")
        /\ \/ /\ Exists(c) /\ NoFault
              /\ box' = [box EXCEPT ![c].name = recovery(h)]
              /\ Goto(h, "create") /\ UNCHANGED daemon
           \/ /\ IF Exists(c) THEN Fault ELSE NoFault
              /\ Goto(h, "failed")
              /\ \/ /\ Exists(c) /\ helper[h].wasRunning /\ daemon' = Booted(c)
                    /\ \E name \in {box[c].name, recovery(h)} :
                          box' = [box EXCEPT ![c] = [state |-> "running", name |-> name]]
                 \/ /\ Exists(c) /\ UNCHANGED daemon
                    /\ box' = [box EXCEPT ![c].name = recovery(h)]
                 \/ UNCHANGED <<box, daemon>>
        /\ UNCHANGED <<policy, overlapped, healthy>>

Create(h) ==
    /\ At(h, "create")
    /\ \/ /\ NameFree(helper[h].name)
          /\ box' = [box EXCEPT ![h] = [state |-> "created", name |-> helper[h].name]]
          /\ Returns(h, IF helper[h].wasRunning THEN "start" ELSE "remove", "undoRename")
       \/ /\ IF NameFree(helper[h].name) THEN Fault ELSE NoFault
          /\ Goto(h, "undoRename") /\ UNCHANGED box
    /\ UNCHANGED <<policy, overlapped, daemon, healthy>>

\* Start: a target image may not start at all.
StartNew(h) ==
    /\ At(h, "start")
    /\ \/ /\ Exists(h) /\ box' = Started(h) /\ daemon' = Booted(h)
          /\ Returns(h, "health", "undoRemove")
       \/ NoFault /\ Goto(h, "undoRemove") /\ UNCHANGED <<box, daemon>>
    /\ UNCHANGED <<policy, overlapped, healthy>>

\* What a failed health check leads to.
afterUnhealthy(h) == "undoRemove"

\* WaitHealthy passes, for a container that runs, or times out.
WaitHealthy(h) ==
    /\ At(h, "health")
    /\ \/ /\ box[h].state = "running" /\ healthy' = healthy \cup {h}
          /\ Goto(h, "remove")
       \/ Goto(h, afterUnhealthy(h)) /\ UNCHANGED healthy
    /\ UNCHANGED <<policy, overlapped, box, daemon, faults>>

RemoveParent(h) ==
    LET c == Parent(h)
    IN  /\ At(h, "remove")
        /\ \/ /\ Exists(c)
              /\ box' = [box EXCEPT ![c] = Gone] /\ daemon' = Down(c)
              /\ Returns(h, "succeeded", "failed")
           \/ /\ IF Exists(c) THEN Fault ELSE NoFault
              /\ Goto(h, "failed") /\ UNCHANGED <<box, daemon>>
        /\ UNCHANGED <<policy, overlapped, healthy>>

\* The replacement is removed; an error is ignored.
UndoRemove(h) ==
    /\ At(h, "undoRemove")
    /\ \/ NoFault /\ box' = [box EXCEPT ![h] = Gone] /\ daemon' = Down(h)
       \/ Fault /\ UNCHANGED <<box, daemon>>
    /\ Goto(h, "undoRename")
    /\ UNCHANGED <<policy, overlapped, healthy>>

\* What follows the rename.
afterUndo(h) == IF helper[h].wasRunning THEN "undoStart" ELSE "restored"

\* The table once the original has its name back.
renamedBack(h) == [box EXCEPT ![Parent(h)].name = helper[h].name]

UndoRename(h) ==
    LET c == Parent(h)  possible == Exists(c) /\ NameFree(helper[h].name)
    IN  /\ At(h, "undoRename")
        /\ \/ /\ possible
              /\ box' = renamedBack(h)
              /\ Returns(h, afterUndo(h), "failed")
           \/ /\ IF possible THEN Fault ELSE NoFault
              /\ Goto(h, "failed") /\ UNCHANGED box
        /\ UNCHANGED <<policy, overlapped, daemon, healthy>>

UndoStart(h) ==
    LET c == Parent(h)
    IN  /\ At(h, "undoStart")
        /\ \/ /\ Exists(c)
              /\ box' = Started(c)
              /\ daemon' = IF daemon[c] = "down" THEN Booted(c) ELSE daemon
              /\ Returns(h, "restored", "failed")
           \/ /\ IF Exists(c) THEN Fault ELSE NoFault
              /\ Goto(h, "failed") /\ UNCHANGED <<box, daemon>>
        /\ UNCHANGED <<policy, overlapped, healthy>>

\* The helper itself is killed: it is removed and never runs again.
HelperDies(h) ==
    /\ helper[h].pc \notin Settled /\ Fault
    /\ Goto(h, "failed")
    /\ UNCHANGED <<policy, overlapped, box, daemon, healthy>>

HelperStep(h) ==
    \/ Inspect(h) \/ Stop(h) \/ RenameAway(h) \/ Create(h) \/ StartNew(h) \/ WaitHealthy(h)
    \/ RemoveParent(h) \/ UndoRemove(h) \/ UndoRename(h) \/ UndoStart(h)

Next ==
    \/ \E h \in Helpers : HelperStep(h) \/ HelperDies(h) \/ \E c \in Containers : StartHelper(c, h)
    \/ \E c \in Containers : Restarts(c) \/ CloseGate(c) \/ Release(c) \/ shutdown(c)

Spec == Init /\ [][Next]_vars

\* Every call of the helper returns, the daemon does shut down, Docker restarts.
FairSpec ==
    /\ Spec
    /\ \A h \in Helpers : WF_vars(HelperStep(h))
    /\ \A c \in Containers : WF_vars(Restarts(c)) /\ WF_vars(shutdown(c))

-----------------------------------------------------------------------------
Names == Seq(Helpers)
States == {"gone", "created", "running", "restarting", "exited"}
Box == [state : States, name : Names]
Process == {"down", "serving", "gated", "accepted"}
Steps == Settled \cup {"inspect", "stop", "rename", "create", "start", "health", "remove",
                       "undoRemove", "undoRename", "undoStart"}
Helper == [pc : Steps, parent : Containers, name : Names, wasRunning : BOOLEAN]

TypeOK ==
    /\ policy \in BOOLEAN
    /\ box \in [Containers -> Box]
    /\ daemon \in [Containers -> Process]
    /\ helper \in [Helpers -> Helper]
    /\ healthy \subseteq Helpers
    /\ overlapped \in BOOLEAN

Up(c) == box[c].state = "running"
PlannedDown == \E h \in Helpers : helper[h].pc \notin {"unused", "inspect"} /\ ~helper[h].wasRunning

\* The helper stops the old daemon before it starts the new one and starts the
\* old one again only under the name the new one has given up: two daemons never
\* work on the one database and the one Docker host, unless a self-update was
\* accepted while the helper of another was at work, which the gate of a new
\* process does not prevent.
OneDaemon == ~overlapped => \A c, d \in Containers : Up(c) /\ Up(d) => c = d

\* "The original container remains intact under a recovery name until the
\* replacement is healthy" (self_update.go:171-173), whatever call fails or
\* helper dies: a container other than a failed replacement disappears only in
\* favour of one that has been healthy and runs, if its daemon ran when the
\* helper inspected it.  Again up to the first overlap.
OriginalKeptUntilHealthy ==
    [][~overlapped => \A c \in Containers : Exists(c) /\ box'[c] = Gone =>
          \/ c \in Helpers \ healthy
          \/ \E h \in Helpers : At(h, "remove") /\ Parent(h) = c
                                  /\ (helper[h].wasRunning => h \in healthy /\ Up(h))]_vars

\* RunSelfUpdateHelper's last event, "original container was restored": at that
\* moment the original has its name and runs if it ran before, up to the first
\* overlap.
RestoredIsRestored ==
    [][~overlapped => \A h \in Helpers : helper'[h].pc = "restored" /\ helper[h].pc # "restored" =>
          /\ box'[Parent(h)].name = helper[h].name
          /\ helper[h].wasRunning => box'[Parent(h)].state = "running"]_vars

\* respondSelfUpdate: "If it fails, the previous instance will be restored
\* automatically".  However the target image behaves, a daemon comes back, as
\* long as Docker does what it is asked, no two self-updates overlap and the
\* helper planned for a running daemon.
ServiceComesBack ==
    []<>(faults > 0 \/ overlapped \/ PlannedDown \/ \E c \in Containers : Up(c))

-----------------------------------------------------------------------------
\* What the code's words promise and the code does not keep.
\* "If it fails, the previous instance will be restored automatically"
\* (respondSelfUpdate, api.go:438), with no Docker call failing: not when a second
\* self-update is accepted by the replacement while the first helper still waits
\* for its health.
PreviousIsRestored == []<>(\E c \in Containers : Up(c))

\* "The original container remains intact under a recovery name until the
\* replacement is healthy" (self_update.go:171-173): not when the daemon has shut
\* down before the helper inspects it.
ReplacementIsHealthy == \A h \in Helpers : helper[h].pc = "succeeded" => h \in healthy
=============================================================================
