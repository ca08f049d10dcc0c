--------------------------- MODULE ReleaseStaging ---------------------------
(***************************************************************************)
(* The release manager's install and activate-existing commands on the     *)
(* directories below /opt/shreks/releases.  An install stages: it unpacks  *)
(* and verifies in a temporary directory, renames that to the release's    *)
(* name, and only then creates the virtualenv and installs the wheel into  *)
(* it; a failure removes what it made, a kill or a reboot leaves it.  A    *)
(* staged release is activated, with a rollback to the release before.     *)
(* The deploy workflow runs one install at a time, an administrator may    *)
(* run a command beside it; nothing on the host excludes the two.          *)
(***************************************************************************)
EXTENDS Naturals

CONSTANTS Managers,     \* the commands that may run at the same time
          ReleaseNames,
          Nothing,      \* no release
          MaxFailures,  \* bound: steps that fail
          MaxDeaths     \* bound: kills and reboots

ASSUME StagingAssumption ==
    Nothing \notin ReleaseNames /\ MaxFailures \in Nat /\ MaxDeaths \in Nat

VARIABLES dir,       \* what stands under a release's name
          linked,    \* the release the current link names, or Nothing
          running,   \* the release whose units run, or Nothing
          pc, op, prev,   \* per command: its step, its release, the one before
          failures, deaths,
          overlapped \* history: two commands ever ran at the same time
stagingVars == <<dir, linked, running, pc, op, prev, failures, deaths, overlapped>>

\* "payload": renamed into place; "venv": with a Python, the wheel not or
\* half installed; "complete": installed.
Contents == {"absent", "payload", "venv", "complete"}
Steps == {"idle", "unpack", "publish", "venv", "wheel", "cleanup", "remove",
          "preflight", "stop", "switch", "start", "health", "rollback", "restore"}

StagingInit ==
    /\ dir = [r \in ReleaseNames |-> "absent"]
    /\ linked = Nothing /\ running = Nothing
    /\ pc = [m \in Managers |-> "idle"]
    /\ op = [m \in Managers |-> Nothing] /\ prev = [m \in Managers |-> Nothing]
    /\ failures = 0 /\ deaths = 0 /\ overlapped = FALSE

Goto(m, step) == pc' = [pc EXCEPT ![m] = step]
At(m, step) == pc[m] = step
Fail == failures < MaxFailures /\ failures' = failures + 1
\* The current link and the units are left alone, and so are the directories.
StagingOnly == UNCHANGED <<linked, running, op, prev, deaths, overlapped>>
ActivationOnly == UNCHANGED <<dir, op, deaths, overlapped>>

\* A command starts.
Begins(m, r) ==
    /\ At(m, "idle")
    /\ op' = [op EXCEPT ![m] = r]
    /\ overlapped' = (overlapped \/ \E n \in Managers : pc[n] # "idle")

-----------------------------------------------------------------------------
(* Staging. *)

\* What the manager can tell of a release: its payload, and that a Python
\* is there.  The installed wheel is not among the files it verifies.
Verifies(r) == dir[r] \in {"venv", "complete"}

\* Install: a directory that exists is verified and returned, or refused.
Install(m, r) ==
    /\ Begins(m, r)
    /\ IF dir[r] = "absent" THEN Goto(m, "unpack")
       ELSE Goto(m, IF Verifies(r) THEN "preflight" ELSE "idle")
    /\ UNCHANGED <<dir, linked, running, prev, failures, deaths>>

\* Unpacking and verifying in the temporary directory, or its removal.
Unpack(m) ==
    /\ At(m, "unpack")
    /\ \/ Goto(m, "publish") /\ UNCHANGED failures
       \/ Goto(m, "idle") /\ Fail
    /\ UNCHANGED dir /\ StagingOnly

\* Mutant: finding the name taken is cleaned up as if the payload was ours.
PublishCleansUp(m) ==
    /\ At(m, "publish")
    /\ IF dir[op[m]] = "absent"
       THEN dir' = [dir EXCEPT ![op[m]] = "payload"] /\ Goto(m, "venv")
       ELSE dir' = dir /\ Goto(m, "cleanup")
    /\ UNCHANGED failures /\ StagingOnly
\* The rename; a name taken meanwhile costs only the temporary directory.
Publish(m) ==
    /\ At(m, "publish")
    /\ IF dir[op[m]] = "absent"
       THEN dir' = [dir EXCEPT ![op[m]] = "payload"] /\ Goto(m, "venv")
       ELSE dir' = dir /\ Goto(m, "idle")
    /\ UNCHANGED failures /\ StagingOnly

MakeVenv(m) ==
    /\ At(m, "venv")
    /\ \/ /\ dir' = [dir EXCEPT ![op[m]] = "venv"]
          /\ Goto(m, "wheel") /\ UNCHANGED failures
       \/ dir' = dir /\ Goto(m, "cleanup") /\ Fail
    /\ StagingOnly

\* pip, and the verification of the whole.
InstallWheel(m) ==
    /\ At(m, "wheel")
    /\ \/ /\ dir' = [dir EXCEPT ![op[m]] = "complete"]
          /\ Goto(m, "preflight") /\ UNCHANGED failures
       \/ dir' = dir /\ Goto(m, "cleanup") /\ Fail
    /\ StagingOnly

\* Mutant: a failed staging leaves its directory.
CleanupNothing(m) ==
    /\ At(m, "cleanup")
    /\ Goto(m, "idle")
    /\ UNCHANGED <<dir, failures>> /\ StagingOnly
\* Refused when current names the release, and otherwise removed, later.
Cleanup(m) ==
    /\ At(m, "cleanup")
    /\ Goto(m, IF linked = op[m] THEN "idle" ELSE "remove")
    /\ UNCHANGED <<dir, failures>> /\ StagingOnly

Remove(m) ==
    /\ At(m, "remove")
    /\ dir' = [dir EXCEPT ![op[m]] = "absent"]
    /\ Goto(m, "idle")
    /\ UNCHANGED failures /\ StagingOnly

-----------------------------------------------------------------------------
(* Activation. *)

\* activate-existing: the release manager's other command.
ActivateExisting(m, r) ==
    /\ Begins(m, r)
    /\ Goto(m, "preflight")
    /\ UNCHANGED <<dir, linked, running, prev, failures, deaths>>

Preflight(m) ==
    /\ At(m, "preflight")
    /\ IF Verifies(op[m]) /\ (linked = Nothing \/ Verifies(linked))
       THEN prev' = [prev EXCEPT ![m] = linked] /\ Goto(m, "stop")
       ELSE prev' = prev /\ Goto(m, "idle")
    /\ UNCHANGED <<linked, running, failures>> /\ ActivationOnly

StopRuntime(m) ==
    /\ At(m, "stop")
    /\ \/ /\ running' = IF prev[m] = Nothing THEN running ELSE Nothing
          /\ Goto(m, "switch") /\ UNCHANGED failures
       \/ running' = running /\ Goto(m, "rollback") /\ Fail
    /\ UNCHANGED <<linked, prev>> /\ ActivationOnly

\* The units are installed and the link is replaced.
Switch(m) ==
    /\ At(m, "switch")
    /\ \/ linked' = op[m] /\ Goto(m, "start") /\ UNCHANGED failures
       \/ linked' = linked /\ Goto(m, "rollback") /\ Fail
    /\ UNCHANGED <<running, prev>> /\ ActivationOnly

\* systemd starts what current names; a release whose wheel is missing is
\* active until its process ends, so that both verdicts are possible.
Start(m) ==
    /\ At(m, "start")
    /\ \/ /\ running' = IF running = Nothing THEN linked ELSE running
          /\ Goto(m, "health") /\ UNCHANGED failures
       \/ running' = running /\ Goto(m, "rollback") /\ Fail
    /\ UNCHANGED <<linked, prev>> /\ ActivationOnly

Health(m) ==
    /\ At(m, "health")
    /\ \/ running = op[m] /\ Goto(m, "idle") /\ UNCHANGED failures
       \/ running # op[m] /\ Goto(m, "rollback") /\ UNCHANGED failures
       \/ Goto(m, "rollback") /\ Fail
    /\ UNCHANGED <<linked, running, prev>> /\ ActivationOnly

\* The rollback: stop, and without a release before remove the link.  When
\* it fails the command reports that and ends.
Rollback(m) ==
    /\ At(m, "rollback")
    /\ \/ /\ prev[m] # Nothing
          /\ running' = Nothing /\ linked' = linked
          /\ Goto(m, "restore") /\ UNCHANGED failures
       \/ /\ prev[m] = Nothing
          /\ running' = Nothing /\ linked' = IF linked = op[m] THEN Nothing ELSE linked
          /\ Goto(m, "idle") /\ UNCHANGED failures
       \/ Goto(m, "idle") /\ Fail /\ UNCHANGED <<running, linked>>
    /\ UNCHANGED prev /\ ActivationOnly

\* Mutant: the rollback starts the release before without its link.
RestoreWithoutSwitch(m) ==
    /\ At(m, "restore")
    /\ IF Verifies(prev[m])
       THEN running' = prev[m] /\ linked' = linked
       ELSE UNCHANGED <<linked, running>>
    /\ Goto(m, "idle")
    /\ UNCHANGED <<prev, failures>> /\ ActivationOnly
\* The release before is verified, linked and started, or not started.
Restore(m) ==
    /\ At(m, "restore")
    /\ \/ /\ Verifies(prev[m])
          /\ running' = prev[m] /\ linked' = prev[m] /\ UNCHANGED failures
       \/ Verifies(prev[m]) /\ linked' = prev[m] /\ running' = running /\ Fail
       \/ ~Verifies(prev[m]) /\ UNCHANGED <<linked, running, failures>>
    /\ Goto(m, "idle")
    /\ UNCHANGED prev /\ ActivationOnly

-----------------------------------------------------------------------------
\* A command is killed, or the host reboots and systemd starts the units.
CommandKilled(m) ==
    /\ pc[m] # "idle" /\ deaths < MaxDeaths /\ deaths' = deaths + 1
    /\ Goto(m, "idle")
    /\ UNCHANGED <<dir, linked, running, op, prev, failures, overlapped>>
HostReboots ==
    /\ deaths < MaxDeaths /\ deaths' = deaths + 1
    /\ pc' = [m \in Managers |-> "idle"]
    /\ running' = linked
    /\ UNCHANGED <<dir, linked, op, prev, failures, overlapped>>

Stages(m) == Unpack(m) \/ Publish(m) \/ MakeVenv(m) \/ InstallWheel(m)
             \/ Cleanup(m) \/ Remove(m)
Activates(m) == Preflight(m) \/ StopRuntime(m) \/ Switch(m) \/ Start(m) \/ Health(m)
                \/ Rollback(m) \/ Restore(m)
StagingNext ==
    \/ \E m \in Managers, r \in ReleaseNames : Install(m, r) \/ ActivateExisting(m, r)
    \/ \E m \in Managers : Stages(m) \/ Activates(m) \/ CommandKilled(m)
    \/ HostReboots
StagingSpec == StagingInit /\ [][StagingNext]_stagingVars

(***************************************************************************)
(* A command that was started runs on, and the operator installs every     *)
(* release again as long as the manager gives the command back.            *)
(***************************************************************************)
LiveSpec ==
    /\ StagingSpec
    /\ \A m \in Managers : WF_stagingVars(Stages(m) \/ Activates(m))
    /\ \A r \in ReleaseNames : SF_stagingVars(\E m \in Managers : Install(m, r))

-----------------------------------------------------------------------------
(* The type invariant. *)
StagingTypeOK ==
    /\ dir \in [ReleaseNames -> Contents]
    /\ linked \in ReleaseNames \cup {Nothing} /\ running \in ReleaseNames \cup {Nothing}
    /\ pc \in [Managers -> Steps]
    /\ op \in [Managers -> ReleaseNames \cup {Nothing}]
    /\ prev \in [Managers -> ReleaseNames \cup {Nothing}]
    /\ \A m \in Managers : pc[m] \in {"venv", "wheel", "cleanup", "remove"} =>
           dir[op[m]] # "absent"
    /\ failures \in 0..MaxFailures /\ deaths \in 0..MaxDeaths

(* With one command at a time, whatever is killed or fails, current names  *)
(* a release with its payload and a Python (release_manager.py 538-560).   *)
CurrentHasPython == ~overlapped /\ linked # Nothing => Verifies(linked)

(* A release that was staged to the end stays as it is, whoever stages,    *)
(* activates or cleans up beside it (release_manager.py 286-344).          *)
CompleteStays ==
    [][\A r \in ReleaseNames : dir[r] = "complete" => dir'[r] = "complete"]_stagingVars

(* Between commands the units that run are those of the release the link   *)
(* names, whichever step of an activation or of its rollback failed or was *)
(* the last before a kill (release_manager.py 509-560).                    *)
RunsWhatItNames ==
    (\A m \in Managers : pc[m] = "idle") /\ running # Nothing /\ ~overlapped
        => running = linked

(* A release whose staging failed is staged in the end by installing it    *)
(* again, unless a kill or a second command left its directory.            *)
FailedStagingRetryable ==
    \A r \in ReleaseNames : <>(dir[r] = "complete" \/ deaths > 0 \/ overlapped)

(* Refuted by TLC (README), what the documents and the code say: a running *)
(* release has its wheel, current is not removed, and installing again     *)
(* completes a release whose staging was interrupted.                      *)
ActivatedIsInstalled ==
    \A m \in Managers : pc[m] = "switch" => dir[op[m]] = "complete"
CurrentNotRemoved ==
    [][\A r \in ReleaseNames :
         dir'[r] # dir[r] /\ dir'[r] = "absent" => linked # r]_stagingVars
InterruptedStagingRetryable == \A r \in ReleaseNames : <>(dir[r] = "complete")

(* The host runs what it names, and what it names can run.                 *)
HostRuns == StagingTypeOK /\ CurrentHasPython /\ RunsWhatItNames
=============================================================================
