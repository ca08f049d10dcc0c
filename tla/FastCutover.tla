---------------------------- MODULE FastCutover ----------------------------
(***************************************************************************)
(* Who holds PAPER authority on the host, and how it moves.                *)
(*                                                                         *)
(* Three root tools change it: the release manager (activate_release), the *)
(* physical cutover from the legacy score runtime to the Fast runtime      *)
(* (activate_fast_paper_physical_cutover) and the Fast release upgrade     *)
(* (activate_fast_paper_release).  They work on the same files - the       *)
(* current symlink, the PAPER systemd unit, the authority files, the       *)
(* authorization - and on the same SQLite runs, with no lock between them. *)
(* Any step of a tool can fail, before or after it took effect, and a tool *)
(* or the host can die between two steps.  A step that takes effect and is *)
(* then reported failed looks like the one after it failing, unless it was *)
(* to set a flag that the recovery asks for: those are CutBreaks and       *)
(* UpgBreaks.  Evidence files, payloads and fingerprints are abstracted to *)
(* the release or run they are bound to; the economic content of a run is  *)
(* the number of cycles its checkpoint has booked.                         *)
(***************************************************************************)
EXTENDS Naturals, Sequences, FiniteSets

CONSTANTS
  Releases,        \* staged releases
  FirstRelease,    \* the release that is current at the start
  FinalRuns,       \* final Fast run ids the operator supplies to a cutover
  NoRelease,       \* stands for "none"
  MaxBooks,        \* bound: economic cycles booked in all
  MaxFaults,       \* bound: failing steps injected in all
  MaxCrashes,      \* bound: tool kills and host reboots in all
  MaxAttempts,     \* bound: tool invocations in all
  MaxUndoFaults,   \* bound: failing steps of rollbacks and recoveries
  OneToolAtATime   \* TRUE when the operator never overlaps two tools

ASSUME CutoverAssumption ==
  /\ FirstRelease \in Releases
  /\ NoRelease \notin Releases
  /\ FinalRuns \cap (Releases \cup {"legacy", "provisional"}) = {}
  /\ {"legacy", "provisional"} \cap Releases = {}
  /\ \A bound \in {MaxBooks, MaxFaults, MaxCrashes, MaxAttempts} : bound \in Nat
  /\ MaxUndoFaults \in Nat /\ OneToolAtATime \in BOOLEAN

\* fast-paper-release-<sha>: the run of an upgrade is named by its release.
Run == {"legacy", "provisional"} \cup FinalRuns \cup Releases
Kind == {"legacy", "fast"}

\* A run: its latest checkpoint (seq), the cycles booked in it, the learned
\* decision it executed last (0 for none), the release its binding names, the
\* legacy checkpoint it descends from and the checkpoint it was copied from.
NoRun  == [seq |-> 0, books |-> 0, executed |-> 0, rel |-> NoRelease,
           legacy |-> 0, origin |-> <<>>]
Down   == [kind |-> "none", rel |-> NoRelease, run |-> "legacy"]
NoAuth == [state |-> "ABSENT", rel |-> NoRelease, run |-> "legacy"]
Idle   == [pc |-> "idle"]

\* The authority files, in the order _rotate_authorities replaces them.
Rotation == <<"manifest", "policy", "writer", "decision", "run", "authorization">>
\* Two of the six release-bound source roots _archive_release_bound_sources moves.
EvidenceRoots == <<"decision", "execution">>

VARIABLES
  current,   \* the release /opt/shreks/current points to
  unit,      \* the installed shreks-paper-campaign.service
  loaded,    \* the unit systemd has loaded
  wanted,    \* systemd keeps the unit up (Restart=on-failure)
  service,   \* the running PAPER process, or Down
  files,     \* authority files: the release or run each is bound to
  auth,      \* the production authorization file
  db,        \* PAPER runs in the observer database
  roots,     \* run whose evidence each source root holds, or NoRelease
  archive,   \* members moved to history/<run>/: <<run, root>>
  history,   \* runs that have a history directory
  receipts,  \* receipts written: [tool, rel, ok]
  rm, cut, upg,  \* the three tools
  booked, fastStarted, faults, undoFaults, crashes, attempts, \* history and bounds
  broken,    \* history: cutover steps done, reported failed and not undone
  crossed \* history: an activation and a cutover were at work at once

hostVars == <<current, unit, loaded, wanted, service>>
authorityVars == <<files, auth, db>>
evidenceVars == <<roots, archive, history>>
boundVars == <<booked, faults, undoFaults, crashes, attempts, broken, crossed>>
cutoverVars == <<hostVars, authorityVars, evidenceVars, receipts, rm, cut, upg,
          fastStarted, boundVars>>

-----------------------------------------------------------------------------
(* systemd and the PAPER process                                           *)

\* bootstrap_fast_paper_authoritative_runtime: every authority file is bound
\* to the manifest's release, and the run it names has a checkpoint whose
\* binding is that release's.
Bootstraps ==
  /\ \A name \in {"policy", "writer", "decision"} : files[name] = files.manifest
  /\ db[files.run].rel = files.manifest

\* read_and_verify_fast_paper_production_authorization.
Authorized ==
  /\ auth.state = "ACTIVE"
  /\ auth.rel = files.manifest
  /\ auth.run = files.run

\* What "systemctl start" brings up: the loaded unit, run from the current
\* release; a Fast process that does not authenticate exits at once.
Started ==
  IF service # Down THEN service
  ELSE IF loaded.kind = "legacy"
       THEN [kind |-> "legacy", rel |-> current, run |-> "legacy"]
  ELSE IF Bootstraps /\ Authorized
       THEN [kind |-> "fast", rel |-> current, run |-> files.run]
  ELSE Down

SystemctlStart ==
  /\ wanted' = TRUE
  /\ service' = Started
  /\ fastStarted' = (fastStarted \/ Started.kind = "fast")
  /\ UNCHANGED <<current, unit, loaded>>

SystemctlStop ==
  /\ wanted' = FALSE
  /\ service' = Down
  /\ UNCHANGED <<current, unit, loaded, fastStarted>>

DaemonReload ==
  /\ loaded' = unit
  /\ UNCHANGED <<current, unit, wanted, service, fastStarted>>

InstallUnit(content) ==
  /\ unit' = content
  /\ UNCHANGED <<current, loaded, wanted, service, fastStarted>>

SwitchTo(release) ==
  /\ current' = release
  /\ UNCHANGED <<unit, loaded, wanted, service, fastStarted>>

HostUnchanged == UNCHANGED <<hostVars, fastStarted>>

\* Restart=on-failure (and the start of the enabled target after a reboot).
SystemdRestart ==
  /\ wanted
  /\ service = Down
  /\ Started # Down
  /\ SystemctlStart
  /\ UNCHANGED <<authorityVars, evidenceVars, receipts, rm, cut, upg, boundVars>>

ServiceDies ==
  /\ service # Down
  /\ faults < MaxFaults
  /\ faults' = faults + 1
  /\ service' = Down
  /\ UNCHANGED <<current, unit, loaded, wanted, authorityVars, evidenceVars,
                 receipts, rm, cut, upg, fastStarted, booked, undoFaults, crashes, attempts,
                 broken, crossed>>

\* A legacy campaign cycle books one checkpoint of the legacy run.
LegacyCycle ==
  /\ service.kind = "legacy"
  /\ booked < MaxBooks
  /\ booked' = booked + 1
  /\ db' = [db EXCEPT !["legacy"].seq = @ + 1, !["legacy"].books = @ + 1]
  /\ UNCHANGED <<hostVars, files, auth, evidenceVars, receipts, rm, cut, upg,
                 fastStarted, faults, undoFaults, crashes, attempts, broken, crossed>>

\* _execution_sequence_for_cycle: before the first execution of a run, a
\* decision is waiting exactly when the evidence root holds one.
DecisionWaits(run) ==
  IF db[run].executed = 0 THEN roots["decision"] = run
                          ELSE db[run].executed # files.cursor

\* A Fast cycle appends a learned decision (evidence, then cursor) ...
FastDecide ==
  /\ service.kind = "fast"
  /\ ~DecisionWaits(service.run)
  /\ booked < MaxBooks
  /\ files' = [files EXCEPT !.cursor = @ + 1]
  /\ roots' = [roots EXCEPT !["decision"] = service.run]
  /\ UNCHANGED <<hostVars, auth, db, archive, history, receipts, rm, cut, upg,
                 fastStarted, boundVars>>

\* ... and a later cycle executes it and books the next checkpoint.
FastExecute ==
  /\ service.kind = "fast"
  /\ DecisionWaits(service.run)
  /\ roots["decision"] = service.run
  /\ booked < MaxBooks
  /\ booked' = booked + 1
  /\ db' = [db EXCEPT ![service.run].seq = @ + 1, ![service.run].books = @ + 1,
                       ![service.run].executed = files.cursor]
  /\ roots' = [roots EXCEPT !["execution"] = service.run]
  /\ UNCHANGED <<hostVars, files, auth, archive, history, receipts, rm, cut, upg,
                 fastStarted, faults, undoFaults, crashes, attempts, broken, crossed>>

-----------------------------------------------------------------------------
(* Steps common to the tools                                               *)

ToolsIdle == rm = Idle /\ cut = Idle /\ upg = Idle

\* The operator runs a tool; nothing in the code keeps two from overlapping.
Invoke ==
  /\ attempts < MaxAttempts
  /\ attempts' = attempts + 1
  /\ OneToolAtATime => ToolsIdle
  /\ UNCHANGED <<hostVars, fastStarted, authorityVars, evidenceVars, receipts,
                 booked, faults, undoFaults, crashes, broken>>

Counts(undoing) ==
  /\ IF undoing
     THEN undoFaults < MaxUndoFaults /\ undoFaults' = undoFaults + 1 /\ UNCHANGED faults
     ELSE faults < MaxFaults /\ faults' = faults + 1 /\ UNCHANGED undoFaults
  /\ UNCHANGED <<booked, crashes, attempts, crossed>>

Inject(undoing) == Counts(undoing) /\ UNCHANGED broken

HostOnly == UNCHANGED <<authorityVars, evidenceVars, receipts>>

-----------------------------------------------------------------------------
(* The release manager: activate_release and its rollback                  *)

RmStep(p, q) ==
  /\ rm.pc = p
  /\ rm' = [rm EXCEPT !.pc = q]
  /\ UNCHANGED <<cut, upg, boundVars>>
  /\ HostOnly

\* Mutant: the legacy path does not look for the Fast authorization.
RmActivateUnguarded(release) ==
  /\ rm = Idle
  /\ Invoke /\ crossed' = (crossed \/ cut # Idle)
  /\ rm' = [pc |-> "stop", to |-> release, previous |-> current]
  /\ UNCHANGED <<cut, upg>>

RmActivate(release) ==
  /\ rm = Idle
  /\ auth = NoAuth                 \* _require_no_active_fast_paper_cutover
  /\ Invoke /\ crossed' = (crossed \/ cut # Idle)
  /\ rm' = [pc |-> "stop", to |-> release, previous |-> current]
  /\ UNCHANGED <<cut, upg>>

RmStop   == RmStep("stop", "units") /\ SystemctlStop
RmUnits  == RmStep("units", "switch") /\ InstallUnit([kind |-> "legacy", rel |-> rm.to])
RmSwitch == RmStep("switch", "reload") /\ SwitchTo(rm.to)
RmReload == RmStep("reload", "start") /\ DaemonReload
RmStart  == RmStep("start", "health") /\ SystemctlStart

RmHealthy ==
  /\ rm.pc = "health"
  /\ service.rel = rm.to
  /\ rm' = Idle
  /\ UNCHANGED <<hostVars, fastStarted, cut, upg, boundVars>>
  /\ HostOnly

RmRollback ==
  \/ RmStep("undo-stop", "undo-units") /\ SystemctlStop
  \/ RmStep("undo-units", "undo-switch")
       /\ InstallUnit([kind |-> "legacy", rel |-> rm.previous])
  \/ RmStep("undo-switch", "undo-reload") /\ SwitchTo(rm.previous)
  \/ RmStep("undo-reload", "undo-start") /\ DaemonReload
  \/ RmStep("undo-start", "undo-health") /\ SystemctlStart
  \/ /\ rm.pc = "undo-health"
     /\ rm' = Idle
     /\ UNCHANGED <<hostVars, fastStarted, cut, upg, boundVars>>
     /\ HostOnly

RmForward == {"stop", "units", "switch", "reload", "start", "health"}

\* A step of the activation fails, or the health check does; a failing step
\* of the rollback ends the tool.
RmFails ==
  /\ rm # Idle
  /\ IF rm.pc = "health" /\ service.rel # rm.to
     THEN UNCHANGED boundVars ELSE Inject(rm.pc \notin RmForward)
  /\ rm' = IF rm.pc \in RmForward
           THEN [rm EXCEPT !.pc = "undo-stop"]
           ELSE Idle
  /\ UNCHANGED <<cut, upg>>
  /\ HostUnchanged /\ HostOnly

-----------------------------------------------------------------------------
(* The physical cutover: activate_fast_paper_physical_cutover              *)

CutStep(p, q) ==
  /\ cut.pc = p
  /\ cut' = [cut EXCEPT !.pc = q]
  /\ UNCHANGED <<rm, upg, boundVars, evidenceVars>>

Pristine ==
  /\ \A root \in DOMAIN roots : roots[root] = NoRelease
  /\ db[files.run].seq = 0
  /\ db[files.run].executed = 0

\* preflight_fast_paper_physical_cutover
CutPreflight(run) ==
  /\ cut = Idle
  /\ {r \in receipts : r.tool = "cutover" /\ r.to = current} = {}
  /\ unit = [kind |-> "legacy", rel |-> current]
  /\ service = [kind |-> "legacy", rel |-> current, run |-> "legacy"]
  /\ auth = NoAuth
  /\ Bootstraps /\ files.manifest = current
  /\ files.run # run /\ db[run] = NoRun
  /\ Pristine
  /\ Invoke /\ crossed' = (crossed \/ rm # Idle)
  /\ cut' = [pc |-> "stop", rel |-> current, run |-> run, config |-> files.run,
             created |-> FALSE, installed |-> FALSE, attempted |-> FALSE]
  /\ UNCHANGED <<rm, upg>>

\* The check the code makes before it takes the step at this point.
CutCheck ==
  CASE cut.pc = "handoff"   -> service = Down /\ db[cut.run] = NoRun
    [] cut.pc = "authorize" -> /\ auth = NoAuth
                               /\ Pristine
                               /\ db[cut.run].legacy = db["legacy"].seq
    [] cut.pc = "observe"   -> service = [kind |-> "fast", rel |-> cut.rel, run |-> cut.run]
    [] OTHER                -> TRUE

CutStop == CutStep("stop", "handoff") /\ SystemctlStop /\ HostOnly

\* initialize_fast_paper_authoritative_handoff: one transaction.
CutHandoff ==
  /\ CutStep("handoff", "retarget")
  /\ service = Down /\ db[cut.run] = NoRun
  /\ db' = [db EXCEPT ![cut.run] =
              [seq |-> 0, books |-> db["legacy"].books, executed |-> 0,
               rel |-> files.manifest, legacy |-> db["legacy"].seq,
               origin |-> <<"legacy", db["legacy"].seq>>]]
  /\ UNCHANGED <<files, auth, receipts>>
  /\ HostUnchanged

CutRetarget ==
  /\ CutStep("retarget", "authorize")
  /\ files' = [files EXCEPT !.run = cut.run]
  /\ UNCHANGED <<auth, db, receipts>>
  /\ HostUnchanged

\* The final preflight, then _write_authorization_no_replace.
CutAuthorize ==
  /\ CutCheck
  /\ cut.pc = "authorize"
  /\ cut' = [cut EXCEPT !.pc = "unit", !.created = TRUE]
  /\ auth' = [state |-> "ACTIVE", rel |-> cut.rel, run |-> cut.run]
  /\ UNCHANGED <<files, db, receipts, rm, upg, boundVars, evidenceVars>>
  /\ HostUnchanged

CutUnit ==
  /\ cut.pc = "unit"
  /\ cut' = [cut EXCEPT !.pc = "reload", !.installed = TRUE]
  /\ InstallUnit([kind |-> "fast", rel |-> cut.rel])
  /\ UNCHANGED <<rm, upg, boundVars>>
  /\ HostOnly

\* fast_start_attempted is set between the reload and the start.
CutReload ==
  /\ cut.pc = "reload"
  /\ cut' = [cut EXCEPT !.pc = "start", !.attempted = TRUE]
  /\ DaemonReload
  /\ UNCHANGED <<rm, upg, boundVars>>
  /\ HostOnly

CutStart == CutStep("start", "observe") /\ SystemctlStart /\ HostOnly

CutReceipt(ok) == [tool |-> "cutover", from |-> cut.rel, to |-> cut.rel, ok |-> ok]

CutComplete ==
  /\ cut.pc = "observe" /\ CutCheck
  /\ cut' = Idle
  /\ receipts' = receipts \cup {CutReceipt(TRUE)}
  /\ UNCHANGED <<authorityVars, evidenceVars, rm, upg, boundVars>>
  /\ HostUnchanged

\* _recover_failed_cutover
CutRevoke ==
  /\ cut.pc = "undo-auth" /\ cut.attempted
  /\ CutStep("undo-auth", "undo-receipt")
  /\ auth' = [auth EXCEPT !.state = "REVOKED"]
  /\ UNCHANGED <<files, db, receipts>>
  /\ HostUnchanged

CutRemoveAuthorization ==
  /\ cut.pc = "undo-auth" /\ ~cut.attempted
  /\ CutStep("undo-auth", IF cut.installed THEN "undo-unit" ELSE "undo-config")
  /\ auth' = IF cut.created THEN NoAuth ELSE auth
  /\ UNCHANGED <<files, db, receipts>>
  /\ HostUnchanged

CutRestore ==
  \/ CutStep("undo-unit", "undo-reload")
       /\ InstallUnit([kind |-> "legacy", rel |-> cut.rel]) /\ HostOnly
  \/ CutStep("undo-reload", "undo-config") /\ DaemonReload /\ HostOnly
  \/ /\ CutStep("undo-config", "undo-start")
     /\ files' = [files EXCEPT !.run = cut.config]
     /\ UNCHANGED <<auth, db, receipts>>
     /\ HostUnchanged
  \/ /\ cut.pc = "undo-start"
     /\ cut' = Idle
     /\ SystemctlStart
     /\ UNCHANGED <<rm, upg, boundVars>>
     /\ HostOnly

CutFailureReceipt ==
  /\ cut.pc = "undo-receipt"
  /\ cut' = Idle
  /\ receipts' = receipts \cup {CutReceipt(FALSE)}
  /\ UNCHANGED <<authorityVars, evidenceVars, rm, upg, boundVars>>
  /\ HostUnchanged

CutUndoStop == CutStep("undo-stop", "undo-auth") /\ SystemctlStop /\ HostOnly

CutForward == {"stop", "handoff", "retarget", "authorize", "unit", "reload", "start", "observe"}

\* A failing step of the ceremony starts the recovery - except the stop of
\* legacy, before which nothing is undone; the recovery ignores a failing
\* stop and is abandoned at any other failing step.
CutFails ==
  /\ cut # Idle
  /\ IF CutCheck THEN Inject(cut.pc \notin CutForward) ELSE UNCHANGED boundVars
  /\ cut' = CASE cut.pc = "undo-stop" -> [cut EXCEPT !.pc = "undo-auth"]
              [] cut.pc \in CutForward \ {"stop"} -> [cut EXCEPT !.pc = "undo-stop"]
              [] OTHER -> Idle
  /\ UNCHANGED <<rm, upg>>
  /\ HostUnchanged /\ HostOnly

\* A step takes effect and is reported failed: systemctl answers late or
\* complains, a file is replaced and the sync of its directory fails.  Its
\* flag is not set: a stop that is not noted is not recovered from, a unit
\* not noted stays, a reload not noted is no attempted start.
CutBreaks ==
  /\ CutCheck
  /\ \/ cut.pc = "stop" /\ SystemctlStop /\ cut' = Idle /\ HostOnly
     \/ /\ cut.pc # "stop"
        /\ cut' = [cut EXCEPT !.pc = "undo-stop"]
        /\ \/ /\ cut.pc = "unit"
              /\ InstallUnit([kind |-> "fast", rel |-> cut.rel]) /\ HostOnly
           \/ cut.pc = "reload" /\ DaemonReload /\ HostOnly
           \/ /\ cut.pc = "observe"
              /\ receipts' = receipts \cup {CutReceipt(TRUE)}
              /\ HostUnchanged /\ UNCHANGED <<authorityVars, evidenceVars>>
  /\ Counts(FALSE) /\ broken' = broken \cup ({cut.pc} \cap {"stop", "unit"})
  /\ UNCHANGED <<rm, upg>>

-----------------------------------------------------------------------------
(* The Fast release upgrade: activate_fast_paper_release                   *)

UpgStep(p, q) ==
  /\ upg.pc = p
  /\ upg' = [upg EXCEPT !.pc = q]
  /\ UNCHANGED <<rm, cut, boundVars>>

\* _require_clean_handoff_boundary: the two learned cursors are equal (a run
\* that executed nothing has no execution cursor to compare).
CleanBoundary(run) == db[run].executed = files.cursor

\* activate_fast_release hands over to the source release's upgrade tool,
\* which checks the running source runtime before it touches anything.
UpgBegin(release) ==
  /\ upg = Idle
  /\ release # current
  /\ Bootstraps /\ Authorized /\ files.manifest = current
  /\ unit = [kind |-> "fast", rel |-> current]
  /\ service = [kind |-> "fast", rel |-> current, run |-> files.run]
  /\ CleanBoundary(files.run)
  /\ files.run \notin history
  /\ {r \in receipts : r.tool = "upgrade" /\ r.from = current /\ r.to = release} = {}
  /\ Invoke /\ UNCHANGED crossed
  /\ upg' = [pc |-> "stop", to |-> release, from |-> current, run |-> files.run,
             i |-> 1, saved |-> <<>>, moved |-> {}, attempted |-> FALSE, cursor |-> 0]
  /\ UNCHANGED <<rm, cut>>

\* The rows initialize_fast_paper_authoritative_release_handoff inserts: a
\* copy of the stopped source's latest checkpoint at sequence 0.
Successor ==
  [seq |-> 0, books |-> db[upg.run].books, executed |-> db[upg.run].executed,
   rel |-> upg.to, legacy |-> db[upg.run].legacy,
   origin |-> <<upg.run, db[upg.run].seq>>]

UpgCheck ==
  CASE upg.pc = "boundary" -> service = Down /\ Bootstraps /\ CleanBoundary(upg.run)
    [] upg.pc = "handoff"  -> /\ db["legacy"].seq = db[upg.run].legacy
                              /\ db[upg.to] \in {NoRun, Successor}
    [] upg.pc = "verify"   -> /\ service = [kind |-> "fast", rel |-> upg.to, run |-> upg.to]
                              /\ db[upg.to].seq = 0
                              /\ files.cursor = upg.cursor
    [] upg.pc = "observe"  -> service = [kind |-> "fast", rel |-> upg.to, run |-> upg.to]
    [] OTHER               -> TRUE

UpgStop == UpgStep("stop", "boundary") /\ SystemctlStop /\ HostOnly

\* Reload the stopped source, then _snapshot_protected_files.
UpgSnapshot ==
  /\ upg.pc = "boundary" /\ UpgCheck
  /\ upg' = [upg EXCEPT !.pc = "handoff", !.saved = <<files, auth>>, !.cursor = files.cursor]
  /\ UNCHANGED <<rm, cut, boundVars>>
  /\ HostUnchanged /\ HostOnly

\* Mutant: an existing successor namespace is taken as it is.
UpgHandoffOntoOld ==
  /\ UpgStep("handoff", "archive")
  /\ db' = [db EXCEPT ![upg.to] = IF @ = NoRun THEN Successor ELSE @]
  /\ UNCHANGED <<files, auth, evidenceVars, receipts>>
  /\ HostUnchanged

UpgHandoff ==
  /\ upg.pc = "handoff" /\ UpgCheck
  /\ UpgStep("handoff", "archive")
  /\ db' = [db EXCEPT ![upg.to] = Successor]
  /\ UNCHANGED <<files, auth, evidenceVars, receipts>>
  /\ HostUnchanged

\* _archive_release_bound_sources moves the members root by root; the list
\* of what moved is returned only when all of them have.
ArchiveRoot ==
  LET root == EvidenceRoots[upg.i] IN
  /\ history' = history \cup {upg.run}
  /\ archive' = archive \cup
        (IF roots[root] = NoRelease THEN {} ELSE {<<upg.run, root, roots[root]>>})
  /\ roots' = [roots EXCEPT ![root] = NoRelease]
  /\ UNCHANGED <<authorityVars, receipts>>
  /\ HostUnchanged

UpgArchive ==
  /\ upg.pc = "archive"
  /\ ArchiveRoot
  /\ upg' = IF upg.i = Len(EvidenceRoots)
            THEN [upg EXCEPT !.pc = "rotate", !.i = 1,
                             !.moved = {m \in archive' : m[1] = upg.run}]
            ELSE [upg EXCEPT !.i = @ + 1]
  /\ UNCHANGED <<rm, cut, boundVars>>

\* _rotate_authorities replaces the six files one after the other.
UpgRotate ==
  LET name == Rotation[upg.i] IN
  /\ upg.pc = "rotate"
  /\ upg' = IF upg.i = Len(Rotation) THEN [upg EXCEPT !.pc = "units", !.i = 1]
                                     ELSE [upg EXCEPT !.i = @ + 1]
  /\ IF name = "authorization"
     THEN /\ auth' = [state |-> "ACTIVE", rel |-> upg.to, run |-> upg.to]
          /\ UNCHANGED files
     ELSE /\ files' = [files EXCEPT ![name] = upg.to]
          /\ UNCHANGED auth
  /\ UNCHANGED <<db, evidenceVars, receipts, rm, cut, boundVars>>
  /\ HostUnchanged

UpgUnits  ==
  /\ UpgStep("units", "switch")
  /\ InstallUnit([kind |-> "fast", rel |-> upg.to]) /\ HostOnly
UpgSwitch == UpgStep("switch", "reload") /\ SwitchTo(upg.to) /\ HostOnly

\* target_start_attempted is set between the reload and the start.
UpgReload ==
  /\ upg.pc = "reload"
  /\ upg' = [upg EXCEPT !.pc = "start", !.attempted = TRUE]
  /\ DaemonReload
  /\ UNCHANGED <<rm, cut, boundVars>>
  /\ HostOnly

UpgStart == UpgStep("start", "verify") /\ SystemctlStart /\ HostOnly

\* The started target must still equal the handoff.
UpgVerify ==
  /\ UpgCheck
  /\ UpgStep("verify", "observe")
  /\ HostUnchanged /\ HostOnly

UpgReceipt(ok) ==
  /\ receipts' = receipts \cup {[tool |-> "upgrade", from |-> upg.from, to |-> upg.to, ok |-> ok]}
  /\ UNCHANGED <<authorityVars, evidenceVars, rm, cut>>
  /\ HostUnchanged

UpgComplete ==
  /\ upg.pc = "observe" /\ UpgCheck
  /\ upg' = Idle
  /\ UpgReceipt(TRUE)
  /\ UNCHANGED boundVars

UpgFailureReceipt ==
  /\ upg.pc = "undo-receipt"
  /\ upg' = Idle
  /\ UpgReceipt(FALSE)
  /\ UNCHANGED boundVars

\* Mutant: the failed upgrade revokes without stopping the runtime.
UpgUndoWithoutStop ==
  /\ UpgStep("undo-stop", IF upg.attempted THEN "undo-auth" ELSE "undo-files")
  /\ HostUnchanged /\ HostOnly

UpgUndoStop ==
  /\ UpgStep("undo-stop", IF upg.attempted THEN "undo-auth" ELSE "undo-files")
  /\ SystemctlStop /\ HostOnly

\* Mutant: the revocation names the release it upgraded from.
UpgRevokeSource ==
  /\ UpgStep("undo-auth", "undo-receipt")
  /\ auth' = [state |-> "REVOKED", rel |-> upg.from, run |-> upg.run]
  /\ UNCHANGED <<files, db, evidenceVars, receipts>>
  /\ HostUnchanged

\* _write_revoked_authorization
UpgRevoke ==
  /\ UpgStep("undo-auth", "undo-receipt")
  /\ auth' = [state |-> "REVOKED", rel |-> upg.to, run |-> upg.to]
  /\ UNCHANGED <<files, db, evidenceVars, receipts>>
  /\ HostUnchanged

\* _restore_pre_start: the protected files one by one ...
UpgRestoreFile ==
  LET name == Rotation[upg.i] IN
  /\ upg.pc = "undo-files" /\ upg.saved # <<>>
  /\ upg' = IF upg.i = Len(Rotation)
            THEN [upg EXCEPT !.pc = "undo-archive", !.i = 1]
            ELSE [upg EXCEPT !.i = @ + 1]
  /\ IF name = "authorization"
     THEN auth' = upg.saved[2] /\ UNCHANGED files
     ELSE files' = [files EXCEPT ![name] = upg.saved[1][name]] /\ UNCHANGED auth
  /\ UNCHANGED <<db, evidenceVars, receipts, rm, cut, boundVars>>
  /\ HostUnchanged

\* ... then the members the archive step returned; _remove_empty_archive
\* drops the history directory when nothing is left in it.
PutBack(members) ==
  /\ roots' = [root \in DOMAIN roots |->
                 IF \E m \in members : m[2] = root
                 THEN (CHOOSE m \in members : m[2] = root)[3] ELSE roots[root]]
  /\ archive' = archive \ members
  /\ UNCHANGED <<authorityVars, receipts, rm, cut>>
  /\ HostUnchanged

UpgUnarchive ==
  /\ upg.pc = "undo-archive" \/ (upg.pc = "undo-files" /\ upg.saved = <<>>)
  /\ upg' = [upg EXCEPT !.pc = "undo-units"]
  /\ PutBack(upg.moved)
  /\ history' = {run \in history : \E m \in archive' : m[1] = run}
  /\ UNCHANGED boundVars

\* Mutant: the rollback does not start the source release again.
UpgRestoreWithoutStart ==
  /\ \/ UpgStep("undo-units", "undo-switch")
          /\ InstallUnit([kind |-> "fast", rel |-> upg.from])
     \/ UpgStep("undo-switch", "undo-reload") /\ SwitchTo(upg.from)
     \/ UpgStep("undo-reload", "undo-start") /\ DaemonReload
     \/ /\ upg.pc = "undo-start"
        /\ upg' = Idle
        /\ HostUnchanged
        /\ UNCHANGED <<rm, cut, boundVars>>
  /\ HostOnly

UpgRestore ==
  /\ \/ UpgStep("undo-units", "undo-switch")
          /\ InstallUnit([kind |-> "fast", rel |-> upg.from])
     \/ UpgStep("undo-switch", "undo-reload") /\ SwitchTo(upg.from)
     \/ UpgStep("undo-reload", "undo-start") /\ DaemonReload
     \/ /\ upg.pc = "undo-start"
        /\ upg' = Idle
        /\ SystemctlStart
        /\ UNCHANGED <<rm, cut, boundVars>>
  /\ HostOnly

UpgForward == {"stop", "boundary", "handoff", "archive", "rotate", "units",
               "switch", "reload", "start", "verify", "observe"}

\* A failing step starts the undo; the undo ignores a failing stop and is
\* abandoned at any other failing step.
UpgFails ==
  /\ upg # Idle
  /\ IF UpgCheck THEN Inject(upg.pc \notin UpgForward) ELSE UNCHANGED boundVars
  /\ upg' = CASE upg.pc = "undo-stop" ->
                   [upg EXCEPT !.pc = IF upg.attempted THEN "undo-auth" ELSE "undo-files"]
              [] upg.pc \in UpgForward -> [upg EXCEPT !.pc = "undo-stop", !.i = 1]
              [] OTHER -> Idle
  /\ UNCHANGED <<rm, cut>>
  /\ HostUnchanged /\ HostOnly

\* A step takes effect and is reported failed.  An archive step that fails
\* once its members have moved returns no list of them; a rollback that
\* fails among the members has put some of them back.
UpgBreaks ==
  \/ /\ \/ /\ upg.pc = "archive" /\ upg.i = Len(EvidenceRoots)
           /\ ArchiveRoot /\ UNCHANGED <<rm, cut>>
        \/ upg.pc = "reload" /\ DaemonReload /\ HostOnly /\ UNCHANGED <<rm, cut>>
        \/ upg.pc = "observe" /\ UpgCheck /\ UpgReceipt(TRUE)
     /\ upg' = [upg EXCEPT !.pc = "undo-stop", !.i = 1]
     /\ Inject(FALSE)
  \/ /\ upg.pc = "undo-archive"
     /\ upg' = Idle
     /\ Inject(TRUE)
     /\ \E members \in SUBSET upg.moved : PutBack(members)
     /\ UNCHANGED history

-----------------------------------------------------------------------------
(* Crashes                                                                 *)

Crash ==
  /\ crashes < MaxCrashes
  /\ crashes' = crashes + 1
  /\ rm' = Idle /\ cut' = Idle /\ upg' = Idle
  /\ UNCHANGED <<authorityVars, evidenceVars, receipts, fastStarted, booked, faults, undoFaults,
                 attempts, broken, crossed>>

\* The tool is killed between two steps: its in-memory rollback state is gone.
ToolDies == ~ToolsIdle /\ Crash /\ UNCHANGED hostVars

\* The host reboots: systemd reads the unit files again and starts the target.
Reboot ==
  /\ Crash
  /\ loaded' = unit
  /\ wanted' = TRUE
  /\ service' = Down
  /\ UNCHANGED <<current, unit>>

-----------------------------------------------------------------------------
CutInit ==
  /\ current = FirstRelease
  /\ unit = [kind |-> "legacy", rel |-> FirstRelease]
  /\ loaded = unit
  /\ wanted = TRUE
  /\ service = [kind |-> "legacy", rel |-> FirstRelease, run |-> "legacy"]
  /\ files = [manifest |-> FirstRelease, policy |-> FirstRelease, writer |-> FirstRelease,
              decision |-> FirstRelease, run |-> "provisional", cursor |-> 1]
  /\ auth = NoAuth
  /\ db = [[run \in Run |-> NoRun] EXCEPT !["provisional"].rel = FirstRelease]
  /\ roots = [root \in {EvidenceRoots[i] : i \in DOMAIN EvidenceRoots} |-> NoRelease]
  /\ archive = {} /\ history = {} /\ receipts = {}
  /\ rm = Idle /\ cut = Idle /\ upg = Idle
  /\ booked = 0 /\ faults = 0 /\ undoFaults = 0 /\ crashes = 0 /\ attempts = 0
  /\ broken = {} /\ crossed = FALSE /\ fastStarted = FALSE

RmNext ==
  \/ RmStop \/ RmUnits \/ RmSwitch \/ RmReload \/ RmStart \/ RmHealthy
  \/ RmRollback

CutNext ==
  \/ CutStop \/ CutHandoff \/ CutRetarget \/ CutAuthorize \/ CutUnit \/ CutReload
  \/ CutStart \/ CutComplete
  \/ CutUndoStop \/ CutRevoke \/ CutRemoveAuthorization \/ CutRestore
  \/ CutFailureReceipt

UpgNext ==
  \/ UpgStop \/ UpgSnapshot \/ UpgHandoff \/ UpgArchive \/ UpgRotate \/ UpgUnits
  \/ UpgSwitch \/ UpgReload \/ UpgStart \/ UpgVerify \/ UpgComplete
  \/ UpgUndoStop \/ UpgRevoke \/ UpgFailureReceipt \/ UpgRestoreFile
  \/ UpgUnarchive \/ UpgRestore

\* What a tool does once invoked, a refused check included.
Progress ==
  \/ RmNext \/ CutNext \/ UpgNext
  \/ RmFails \/ CutFails \/ UpgFails \/ CutBreaks \/ UpgBreaks

CutoverNext ==
  \/ \E release \in Releases : RmActivate(release) \/ UpgBegin(release)
  \/ \E run \in FinalRuns : CutPreflight(run)
  \/ Progress
  \/ SystemdRestart \/ ServiceDies \/ LegacyCycle \/ FastDecide \/ FastExecute
  \/ ToolDies \/ Reboot

CutoverSpec == CutInit /\ [][CutoverNext]_cutoverVars

\* A tool that was invoked runs on, and systemd restarts a failed service.
CutoverFairness == WF_cutoverVars(Progress) /\ WF_cutoverVars(SystemdRestart)

CutoverFairSpec == CutoverSpec /\ CutoverFairness

-----------------------------------------------------------------------------
(* Properties                                                              *)

HostTypeOK ==
  /\ current \in Releases
  /\ unit \in [kind : Kind, rel : Releases] /\ loaded \in [kind : Kind, rel : Releases]
  /\ service \in [kind : Kind, rel : Releases, run : Run] \cup {Down}
  /\ files \in [manifest : Releases, policy : Releases, writer : Releases,
                decision : Releases, run : Run, cursor : Nat]
  /\ auth \in [state : {"ACTIVE", "REVOKED"}, rel : Releases, run : Run] \cup {NoAuth}
  /\ \A run \in Run : db[run].rel \in Releases \cup {NoRelease}
  /\ \A root \in DOMAIN roots : roots[root] \in Run \cup {NoRelease}
  /\ history \subseteq Run
  /\ receipts \subseteq
        [tool : {"cutover", "upgrade"}, from : Releases, to : Releases, ok : BOOLEAN]

\* The process that holds PAPER authority trades on the complete books: the
\* run it works on has every cycle any authority booked before it, whatever
\* failed, died or was rolled back on the way.
AuthorityHoldsTheBooks == service # Down => db[service.run].books = booked

\* Once a Fast process has held authority the legacy score runtime never
\* starts again (activate_release is "blocked after Fast PAPER cutover") -
\* unless an activation was at work during the cutover: it looks for the
\* authorization only before it begins.
LegacyNeverReturns ==
  [][fastStarted /\ ~crossed' /\ service'.kind = "legacy"
       => service.kind = "legacy"]_cutoverVars

\* A running Fast process authenticates against the authority files and works
\* on the run they name, whatever died or failed; and it works under an
\* authorization in force that names its run.  (A rollback whose own stop
\* fails revokes regardless: README, divergences.)
FastOnlyUnderAuthority ==
  service.kind = "fast" =>
    /\ Bootstraps /\ files.run = service.run
    /\ undoFaults = 0 => auth.state = "ACTIVE" /\ auth.run = service.run

\* Refuted by TLC (README).  After a failure receipt PAPER is down and stays
\* down ("PAPER remains stopped for manual recovery").
ReceiptMeansStopped ==
  \A r \in receipts : ~r.ok /\ ToolsIdle => service = Down

\* A cutover whose installation of the Fast unit was reported failed restores
\* legacy as systemd still has it loaded, and leaves the Fast unit installed.
StrayUnit ==
  /\ "unit" \in broken
  /\ loaded.kind = "legacy" /\ unit = [kind |-> "fast", rel |-> current]

\* At rest, a running PAPER process is the unit systemd has loaded, of the
\* current release, and a Fast one has the authority files of that release;
\* the unit is the installed one but for a stray one.
AtRestConsistent ==
  ToolsIdle /\ service # Down /\ crashes = 0 =>
    /\ loaded = [kind |-> service.kind, rel |-> service.rel]
    /\ service.rel = current
    /\ unit = loaded \/ StrayUnit
    /\ service.kind = "fast" => files.manifest = current

\* Refuted by TLC (README).  "failed before Fast start; legacy PAPER authority
\* restored": at rest what runs is the installed unit, which a reboot would
\* start again.
InstalledIsWhatRuns ==
  ToolsIdle /\ service # Down /\ crashes = 0 =>
    unit = [kind |-> service.kind, rel |-> service.rel]

\* assess_fast_paper_manual_recovery finds its evidence: after a failure
\* receipt the retained runtime authenticates and matches the revocation.
Assessable(r) ==
  /\ auth.state = "REVOKED" /\ auth.rel = r.to
  /\ service = Down
  /\ Bootstraps /\ files.manifest = auth.rel /\ current = auth.rel
  /\ r.tool = "upgrade" => files.run = r.to /\ db[r.to].origin # <<>>
  /\ \/ db[files.run].executed \in {0, files.cursor}
     \/ files.cursor = db[files.run].executed + 1

RecoveryAssessable ==
  \A r \in receipts : ~r.ok /\ ToolsIdle /\ undoFaults = 0 => Assessable(r)

\* Refuted by TLC (README).  "Before target start, rollback restores every
\* archived file exactly": a run never executes while its own evidence sits
\* in the history archive.
EvidenceWithItsRun ==
  service.kind = "fast" => \A m \in archive : m[1] # service.run

\* Refuted by TLC (README).  "A pre-start retry reuses the same append-only
\* successor namespace": an upgrade never meets its own earlier namespace as
\* a collision.
RetryReusesNamespace == upg.pc = "handoff" => db[upg.to] \in {NoRun, Successor}

\* A failing step never leaves PAPER silently down: it runs again, or a failure
\* receipt asks for manual recovery, as long as the rollback itself does not
\* fail, nothing is killed, and the stop of legacy was not reported failed
\* after it took effect.
PaperComesBack ==
  service = Down ~> \/ service # Down
                    \/ \E r \in receipts : ~r.ok
                    \/ undoFaults > 0 \/ crashes > 0
                    \/ "stop" \in broken

\* Refuted by TLC (README).  The same of a stop that was: nothing is recovered
\* and no receipt is written.
StopIsRecovered ==
  service = Down ~> \/ service # Down
                    \/ \E r \in receipts : ~r.ok
                    \/ undoFaults > 0 \/ crashes > 0

\* Every tool that was invoked ends.
ToolsEnd == ~ToolsIdle ~> ToolsIdle

\* At every moment the host is in one of the states its files describe, and
\* what runs is what is installed and authorized.
HostConsistent == HostTypeOK /\ AtRestConsistent /\ FastOnlyUnderAuthority

\* PAPER operation comes back or its failure is on record, and tools end.
OperationResumes == PaperComesBack /\ ToolsEnd
=============================================================================
