----------------------------- MODULE HostProofs -----------------------------
(***************************************************************************)
(* What root tools may change on the host, for every value of the          *)
(* constants: the risk control file an operator edits, PAPER authority,    *)
(* which the release manager, the physical cutover and the release upgrade *)
(* move, and the directories in which releases are staged.  The three share*)
(* no state; each has its own inductive invariant.                         *)
(*                                                                         *)
(* ControlInv (RiskControl) says what the lock of the control file         *)
(* protects: a command decided and not yet written was decided on the      *)
(* state that is still in the file.                                        *)
(*                                                                         *)
(* CutoverInv (FastCutover) says of the host which era it is in and what   *)
(* its files are bound to (Host), and of each tool what it has done by     *)
(* every one of its steps, forward and back (RmTable, CutTable, UpgTable). *)
(* A step is then shown to be of one tool (OnlyCut, OnlyUpg), to keep Host *)
(* by what kind of step it is (StartKeeps ... RevokeKeeps) and to meet the *)
(* next row of the table.  It assumes that no two tools overlap; LegacyInv *)
(* does without: of what the tools rely on it keeps only what decides which*)
(* kind of process a start can bring up.                                   *)
(*                                                                         *)
(* StagingInv (ReleaseStaging) has two halves.  Owned needs no assumption  *)
(* on the operator: a command that fills a directory is the only one to do *)
(* so, and finds it as it left it.  Alone says what a command may rely on  *)
(* as long as it was always the only one.                                  *)
(***************************************************************************)
EXTENDS RiskControl, FastCutover, ReleaseStaging, TLAPS

-----------------------------------------------------------------------------
(* The risk control file.                                                  *)

\* What `a' decided is one revision on the current file, and relaxes it only
\* as a host may.
Current(a) ==
    /\ control # None
    /\ seen[a] = control.revision
    /\ job[a].revision = control.revision + 1
    /\ job[a].updated >= control.updated
    /\ job[a].kill => job[a].halt
    /\ control.kill => job[a].halt
    /\ control.halt /\ ~job[a].halt => a \in Hosts
    /\ control.kill /\ ~job[a].kill => a \in Hosts

ControlInv ==
    /\ TypeOK
    /\ \A a \in Actors : job[a] # None => Current(a)

\* A sentinel is none of the states a file may have.
LEMMA NoneIsNoState == None \notin ControlStates
BY ActorAssumption DEF ControlStates

\* What a command makes of a file that satisfies the invariant.
LEMMA AfterShape ==
    ASSUME control \in ControlStates, control.kill => control.halt,
           NEW command \in Commands, NEW at \in Nat, NEW a \in Actors,
           Accepts(a, command, at)
    PROVE  /\ After(command, at) \in ControlStates
           /\ After(command, at).revision = control.revision + 1
           /\ After(command, at).updated = at
           /\ at >= control.updated
           /\ After(command, at).kill => After(command, at).halt
           /\ control.kill => After(command, at).halt
           /\ control.halt /\ ~After(command, at).halt => a \in Hosts
           /\ control.kill /\ ~After(command, at).kill => a \in Hosts
BY DEF Accepts, After, ControlStates, Commands, Relaxing

LEMMA ControlInit == Init => ControlInv
BY DEF Init, ControlInv, TypeOK

\* Initialization happens only without a file, when nothing can be decided.
LEMMA InitializeInv ==
    ASSUME ControlInv, NEW a \in Actors, NEW at \in Times, Initialize(a, at)
    PROVE  ControlInv'
<1>1. /\ control' = [revision |-> 0, halt |-> FALSE, kill |-> FALSE, updated |-> at]
      /\ holder' = holder /\ seen' = seen /\ job' = job
  BY DEF Initialize
<1>2. \A b \in Actors : job[b] = None
  BY DEF ControlInv, Current, Initialize
<1>3. at \in Nat
  BY ActorAssumption
<1>4. control' \in ControlStates /\ ~control'.kill
  BY <1>1, <1>3 DEF ControlStates
<1>5. TypeOK'
  BY <1>1, <1>4 DEF ControlInv, TypeOK
<1> QED
  BY <1>1, <1>2, <1>5 DEF ControlInv

\* Reading changes what an actor expects only to what the file holds.
LEMMA LookInv ==
    ASSUME ControlInv, NEW a \in Actors, Look(a)
    PROVE  ControlInv'
<1>1. /\ control # None /\ control' = control /\ holder' = holder /\ job' = job
      /\ seen' = [seen EXCEPT ![a] = control.revision]
  BY DEF Look
<1>2. control \in ControlStates /\ control.revision \in Nat
  BY <1>1 DEF ControlInv, TypeOK, ControlStates
<1>3. TypeOK'
  BY <1>1, <1>2 DEF ControlInv, TypeOK
<1>4. ASSUME NEW b \in Actors, job'[b] # None
      PROVE  Current(b)'
  <2>1. Current(b)
    BY <1>1, <1>4 DEF ControlInv
  <2>2. seen'[b] = control.revision
    BY <1>1, <2>1 DEF Current, ControlInv, TypeOK
  <2> QED
    BY <1>1, <2>1, <2>2 DEF Current
<1> QED
  BY <1>3, <1>4 DEF ControlInv

\* The lock is free, so nobody else has decided anything.
LEMMA DecideInv ==
    ASSUME ControlInv, NEW a \in Actors, NEW command \in Commands, NEW at \in Times,
           Decide(a, command, at)
    PROVE  ControlInv'
<1>1. /\ holder = None /\ Accepts(a, command, at)
      /\ holder' = a /\ job' = [job EXCEPT ![a] = After(command, at)]
      /\ control' = control /\ seen' = seen
  BY DEF Decide
<1>2. /\ control \in ControlStates /\ control # None
      /\ control.kill => control.halt
      /\ seen[a] = control.revision
  BY <1>1 DEF ControlInv, TypeOK, Accepts
<1>3. at \in Nat
  BY ActorAssumption
<1>4. \A b \in Actors : job[b] = None
  BY <1>1, ActorAssumption DEF ControlInv, TypeOK, Actors
<1> DEFINE next == After(command, at)
<1>5. /\ next \in ControlStates
      /\ next.revision = control.revision + 1
      /\ next.updated >= control.updated
      /\ next.kill => next.halt
      /\ control.kill => next.halt
      /\ control.halt /\ ~next.halt => a \in Hosts
      /\ control.kill /\ ~next.kill => a \in Hosts
  BY <1>1, <1>2, <1>3, AfterShape
<1> HIDE DEF next
<1>6. job' = [job EXCEPT ![a] = next]
  BY <1>1 DEF next
<1>7. /\ job'[a] = next
      /\ \A b \in Actors : b # a => job'[b] = None
      /\ job' \in [Actors -> ControlStates \cup {None}]
  BY <1>4, <1>5, <1>6 DEF ControlInv, TypeOK
<1>8. TypeOK'
  BY <1>1, <1>7 DEF ControlInv, TypeOK
<1>9. Current(a)'
  BY <1>1, <1>2, <1>5, <1>7 DEF Current
<1> QED
  BY <1>7, <1>8, <1>9 DEF ControlInv

\* Nobody else has decided anything on the file that is replaced.
LEMMA ReplaceInv ==
    ASSUME ControlInv, NEW a \in Actors, Replace(a)
    PROVE  ControlInv'
<1>1. /\ job[a] # None /\ control' = job[a]
      /\ job' = [job EXCEPT ![a] = None]
      /\ holder' = None /\ seen' = seen
  BY DEF Replace
<1>2. \A b \in Actors : job'[b] = None
  BY <1>1, ActorAssumption DEF ControlInv, TypeOK, Actors
<1>3. control' \in ControlStates /\ (control'.kill => control'.halt)
  BY <1>1 DEF ControlInv, TypeOK, Current
<1>4. job' \in [Actors -> ControlStates \cup {None}]
  BY <1>1 DEF ControlInv, TypeOK
<1>5. TypeOK'
  BY <1>1, <1>2, <1>3, <1>4 DEF ControlInv, TypeOK
<1> QED
  BY <1>2, <1>5 DEF ControlInv

LEMMA AbandonInv ==
    ASSUME ControlInv, NEW a \in Actors, Abandon(a)
    PROVE  ControlInv'
<1>1. /\ job[a] # None /\ control' = control
      /\ job' = [job EXCEPT ![a] = None]
      /\ holder' = None /\ seen' = seen
  BY DEF Abandon
<1>2. \A b \in Actors : job'[b] = None
  BY <1>1, ActorAssumption DEF ControlInv, TypeOK, Actors
<1>3. job' \in [Actors -> ControlStates \cup {None}]
  BY <1>1 DEF ControlInv, TypeOK
<1>4. TypeOK'
  BY <1>1, <1>2, <1>3 DEF ControlInv, TypeOK
<1> QED
  BY <1>2, <1>4 DEF ControlInv

LEMMA ControlStep == ControlInv /\ [Next]_vars => ControlInv'
<1> SUFFICES ASSUME ControlInv, [Next]_vars PROVE ControlInv'
  OBVIOUS
<1>1. CASE \E a \in Actors, at \in Times : Initialize(a, at)
  BY <1>1, InitializeInv
<1>2. CASE \E a \in Actors : Look(a)
  BY <1>2, LookInv
<1>3. CASE \E a \in Actors, command \in Commands, at \in Times :
               Decide(a, command, at)
  BY <1>3, DecideInv
<1>4. CASE \E a \in Actors : Replace(a)
  BY <1>4, ReplaceInv
<1>5. CASE \E a \in Actors : Abandon(a)
  BY <1>5, AbandonInv
<1>6. CASE UNCHANGED vars
  BY <1>6 DEF vars, ControlInv, TypeOK, Current
<1> QED
  BY <1>1, <1>2, <1>3, <1>4, <1>5, <1>6 DEF Next

LEMMA ControlInvariance == Spec => []ControlInv
BY ControlInit, ControlStep, PTL DEF Spec

\* A change of the file is its initialization or the replacement by what one
\* actor decided on the state it holds.
LEMMA FileChanges ==
    ASSUME ControlInv, [Next]_vars, control' # control
    PROVE  \/ control = None
           \/ \E a \in Actors : Replace(a) /\ holder = a /\ Current(a)
<1>1. CASE \E a \in Actors, at \in Times : Initialize(a, at)
  BY <1>1 DEF Initialize
<1>2. CASE \E a \in Actors : Replace(a)
  BY <1>2 DEF Replace, ControlInv, TypeOK
<1> QED
  BY <1>1, <1>2 DEF Next, Look, Decide, Abandon, vars

\* The control file always is a state its constructor accepts; in it the kill
\* switch implies the entry halt (risk_control/models.py).
THEOREM ControlTypeCorrect == Spec => []TypeOK
<1>1. ControlInv => TypeOK
  BY DEF ControlInv
<1> QED
  BY <1>1, ControlInvariance, PTL

\* Safety is relaxed only by the host, one flag at a time, by an actor that
\* read the state it relaxes (risk_control/state.py).
THEOREM RelaxesKnowingly == Spec => RelaxedKnowingly
<1>1. ControlInv /\ [Next]_vars =>
        [(Halted /\ ~Halted') \/ (Killed /\ ~Killed') =>
            /\ holder \in Hosts
            /\ seen[holder] = control.revision
            /\ Killed => Halted']_vars
  <2> SUFFICES ASSUME ControlInv, [Next]_vars,
                      (Halted /\ ~Halted') \/ (Killed /\ ~Killed')
               PROVE  /\ holder \in Hosts
                      /\ seen[holder] = control.revision
                      /\ Killed => Halted'
    OBVIOUS
  <2>1. control # None /\ control' # control
    BY DEF Halted, Killed
  <2>2. PICK a \in Actors : Replace(a) /\ holder = a /\ Current(a)
    BY <2>1, FileChanges
  <2>3. control' = job[a] /\ control' # None
    BY <2>2, NoneIsNoState DEF Replace
  <2> QED
    BY <2>2, <2>3 DEF Current, Halted, Killed
<1> QED
  BY <1>1, ControlInvariance, PTL DEF Spec, RelaxedKnowingly

\* Every change is one revision on the one before: commands are serialized and
\* none is overwritten unseen (risk_control/state.py).
THEOREM LosesNothing == Spec => NothingLost
<1>1. ControlInv /\ [Next]_vars =>
        [control # None /\ control' # control =>
            /\ control' # None
            /\ control'.revision = control.revision + 1
            /\ control'.updated >= control.updated]_vars
  <2> SUFFICES ASSUME ControlInv, [Next]_vars, control # None, control' # control
               PROVE  /\ control' # None
                      /\ control'.revision = control.revision + 1
                      /\ control'.updated >= control.updated
    OBVIOUS
  <2>1. PICK a \in Actors : Replace(a) /\ holder = a /\ Current(a)
    BY FileChanges
  <2> QED
    BY <2>1 DEF Replace, Current
<1> QED
  BY <1>1, ControlInvariance, PTL DEF Spec, NothingLost

\* The flags of the file implement the operator controls the campaign relies on.
THEOREM ImplementsOperatorControls == Spec => ImplementsControls
<1>1. Init => Flags!Init
  BY DEF Init, Flags!Init, Halted, Killed
<1>2. ControlInv /\ ControlInv' /\ [Next]_vars => [Flags!Next]_<<Halted, Killed>>
  <2> SUFFICES ASSUME ControlInv, ControlInv', [Next]_vars,
                      ~ (Halted' = Halted /\ Killed' = Killed)
               PROVE  Flags!Next
    OBVIOUS
  <2>1. control' # control
    BY DEF Halted, Killed
  <2>2. CASE control = None
    <3>1. ~Halted /\ ~Killed
      BY <2>2 DEF Halted, Killed
    <3>2. \E a \in Actors, at \in Times : Initialize(a, at)
      BY <2>1, <2>2 DEF Next, Look, Decide, Replace, Abandon, vars, ControlInv, Current
    <3>3. ~Halted' /\ ~Killed'
      BY <3>2 DEF Initialize, Halted, Killed
    <3> QED
      BY <3>1, <3>3 DEF Halted, Killed
  <2>3. CASE \E a \in Actors : Replace(a) /\ holder = a /\ Current(a)
    <3>1. Killed => Halted
      BY DEF ControlInv, TypeOK, Killed, Halted
    <3>2. Killed' => Halted'
      BY DEF ControlInv, TypeOK, Killed, Halted
    <3>3. Killed => Halted'
      <4>1. PICK a \in Actors : Replace(a) /\ Current(a)
        BY <2>3
      <4> QED
        BY <4>1 DEF Replace, Current, Killed, Halted
    <3>4. /\ Halted \in BOOLEAN /\ Killed \in BOOLEAN
          /\ Halted' \in BOOLEAN /\ Killed' \in BOOLEAN
      BY DEF ControlInv, TypeOK, ControlStates, Halted, Killed
    <3> QED
      BY <3>1, <3>2, <3>3, <3>4 DEF Flags!Next, Flags!HaltNewEntries,
         Flags!EmergencyKill, Flags!ResetKillSwitch, Flags!ClearEntryHalt
  <2> QED
    BY <2>1, <2>2, <2>3, FileChanges
<1> QED
  BY <1>1, <1>2, ControlInvariance, PTL DEF Spec, ImplementsControls, Flags!Spec

-----------------------------------------------------------------------------
(* PAPER authority: what the constants are.                                *)

LEMMA Names ==
    /\ FirstRelease \in Releases /\ NoRelease \notin Releases
    /\ FinalRuns \subseteq Run /\ Releases \subseteq Run
    /\ "legacy" \in Run /\ "provisional" \in Run
    /\ "legacy" \notin FinalRuns /\ "legacy" \notin Releases
    /\ "provisional" \notin FinalRuns /\ "provisional" \notin Releases
    /\ FinalRuns \cap Releases = {}
    /\ MaxBooks \in Nat /\ MaxFaults \in Nat /\ MaxCrashes \in Nat
    /\ MaxAttempts \in Nat /\ MaxUndoFaults \in Nat
BY CutoverAssumption DEF CutoverAssumption, Run
-----------------------------------------------------------------------------
(* Shapes. *)

RmBackward == {"undo-stop", "undo-units", "undo-switch", "undo-reload", "undo-start",
               "undo-health"}
CutBackward == {"undo-stop", "undo-auth", "undo-receipt", "undo-unit", "undo-reload",
                "undo-config", "undo-start"}
UpgBackward == {"undo-stop", "undo-auth", "undo-receipt", "undo-files", "undo-archive",
                "undo-units", "undo-switch", "undo-reload", "undo-start"}

Units == [kind : Kind, rel : Releases]
Services == [kind : Kind, rel : Releases, run : Run] \cup {Down}
Files == [manifest : Releases, policy : Releases, writer : Releases,
          decision : Releases, run : Run, cursor : Nat]
Granted == [state : {"ACTIVE", "REVOKED"}, rel : Releases, run : Run]
Bindings == Releases \cup {NoRelease}
Origins == {<<>>} \cup (Run \X Nat)
RunStates == [seq : Nat, books : Nat, executed : Nat, rel : Bindings,
              legacy : Nat, origin : Origins]
RootNames == {"decision", "execution"}
Members == Run \X RootNames \X (Run \cup {NoRelease})
Receipts == [tool : {"cutover", "upgrade"}, from : Releases, to : Releases, ok : BOOLEAN]

RmStates == [pc : RmForward \cup RmBackward, to : Releases, previous : Releases]
CutStates == [pc : CutForward \cup CutBackward, rel : Releases, run : FinalRuns,
              config : Run, created : BOOLEAN, installed : BOOLEAN, attempted : BOOLEAN]
Snapshots == {<<>>} \cup (Files \X Granted)
UpgStates == [pc : UpgForward \cup UpgBackward, to : Releases, from : Releases,
              run : Run, i : 1..6, saved : Snapshots,
              moved : SUBSET Members, attempted : BOOLEAN, cursor : Nat]

HostShape ==
    /\ current \in Releases /\ unit \in Units /\ loaded \in Units
    /\ wanted \in BOOLEAN /\ service \in Services /\ fastStarted \in BOOLEAN
BoundShape ==
    /\ booked \in Nat /\ faults \in Nat /\ undoFaults \in Nat
    /\ crashes \in Nat /\ attempts \in Nat
    /\ broken \subseteq {"stop", "unit"} /\ crossed \in BOOLEAN
AuthorityShape ==
    /\ files \in Files /\ auth \in Granted \cup {NoAuth}
    /\ db \in [Run -> RunStates]
EvidenceShape ==
    /\ roots \in [RootNames -> Run \cup {NoRelease}]
    /\ archive \subseteq Members /\ history \subseteq Run
    /\ receipts \subseteq Receipts
ToolShape ==
    /\ rm \in RmStates \cup {Idle}
    /\ cut \in CutStates \cup {Idle}
    /\ upg \in UpgStates \cup {Idle}
    /\ rm = Idle \/ cut = Idle
    /\ rm = Idle \/ upg = Idle
    /\ cut = Idle \/ upg = Idle
StateShape == HostShape /\ AuthorityShape /\ EvidenceShape /\ BoundShape

-----------------------------------------------------------------------------
(* The host. *)

\* Nothing of PAPER runs, and systemd will not start it.
Stopped == service = Down /\ ~wanted

\* The legacy era ends with the first start of a Fast process: from then on
\* the Fast unit is installed and what it will run has all the books.
Era ==
    /\ fastStarted =>
          /\ service.kind # "legacy"
          /\ unit.kind = "fast" /\ loaded.kind = "fast" /\ auth # NoAuth
          /\ db[files.run].books = booked
    /\ ~fastStarted =>
          /\ service.kind # "fast"
          /\ db["legacy"].books = booked
          /\ auth # NoAuth /\ loaded.kind = "fast" => unit.kind = "fast"
          /\ auth # NoAuth /\ unit.kind = "fast" =>
                /\ service = Down
                /\ loaded.kind = "legacy" => ~wanted
                /\ db[files.run].books = booked
    /\ service.kind = "legacy" => service.run = "legacy" /\ loaded.kind = "legacy"

\* A Fast process works on the run the files name, and as long as every stop
\* of a rollback was obeyed, under the authorization in force.
FastHolds ==
    service.kind = "fast" =>
        /\ service.run = files.run /\ Bootstraps
        /\ undoFaults = 0 => auth.state = "ACTIVE" /\ auth.run = files.run

\* Until something was killed, what runs or is to run is what systemd has
\* loaded, and that is what is installed but for a stray unit.
LoadedFits ==
    /\ loaded = unit \/ StrayUnit
    /\ unit.rel = current /\ loaded.rel = current
    /\ loaded.kind = "fast" => files.manifest = current
Installed ==
    crashes = 0 /\ ~Stopped =>
        /\ LoadedFits
        /\ service # Down => service.kind = loaded.kind /\ service.rel = current

\* The cursor of the learned decisions is at the one executed last, or at
\* the next one.
CursorFollows ==
    db[files.run].executed \in {0, files.cursor} \/ files.cursor = db[files.run].executed + 1

\* Every authority file is bound to the release r, and the run is that of r.
BoundTo(r, run) ==
    /\ files.manifest = r /\ files.policy = r /\ files.writer = r /\ files.decision = r
    /\ files.run = run /\ db[run].rel = r

-----------------------------------------------------------------------------
(* What holds at each step of a tool. *)

RmTable ==
    rm # Idle =>
        /\ auth = NoAuth
        /\ rm.pc \in {"units", "switch", "reload", "start", "undo-units", "undo-switch",
                      "undo-reload", "undo-start"} => Stopped
        /\ rm.pc \in {"switch", "reload", "start"} => unit = [kind |-> "legacy", rel |-> rm.to]
        /\ rm.pc \in {"reload", "start"} => current = rm.to
        /\ rm.pc = "start" => loaded = unit
        /\ rm.pc \in {"undo-switch", "undo-reload", "undo-start"} =>
              unit = [kind |-> "legacy", rel |-> rm.previous]
        /\ rm.pc \in {"undo-reload", "undo-start"} => current = rm.previous
        /\ rm.pc = "undo-start" => loaded = unit

\* The Fast unit a recovery does not know of, and a reload of the Fast unit
\* it does not know of and has not undone yet.
UnitUnnoticed ==
    /\ "unit" \in broken /\ cut.pc \in CutBackward
    /\ unit = [kind |-> "fast", rel |-> cut.rel]
ReloadUnnoticed ==
    cut.installed /\ cut.pc \in {"undo-stop", "undo-auth", "undo-unit", "undo-reload"}

CutTable ==
    cut # Idle =>
        /\ current = cut.rel
        /\ files.manifest = cut.rel /\ files.policy = cut.rel
        /\ files.writer = cut.rel /\ files.decision = cut.rel
        /\ cut.pc = "stop" => files.run = cut.config
        /\ db[cut.config].executed = 0 /\ cut.config # cut.run
        /\ ~cut.attempted =>
              /\ ~fastStarted
              /\ loaded.kind = "legacy" \/ ReloadUnnoticed
              /\ crashes = 0 => loaded = [kind |-> "legacy", rel |-> cut.rel] \/ ReloadUnnoticed
              /\ cut.pc # "stop" => Stopped
              /\ ~cut.installed => unit = [kind |-> "legacy", rel |-> cut.rel] \/ UnitUnnoticed
              /\ cut.installed => cut.created
              /\ ~cut.created => auth = NoAuth
              /\ cut.pc \in CutForward => /\ cut.created <=> cut.pc \in {"unit", "reload"}
                                          /\ cut.installed <=> cut.pc = "reload"
              /\ cut.pc \notin {"undo-receipt", "start", "observe"}
              /\ cut.pc \in {"undo-unit", "undo-reload", "undo-config", "undo-start"} =>
                    auth = NoAuth
              /\ cut.pc \in {"undo-reload", "undo-config", "undo-start"} =>
                    \/ unit = [kind |-> "legacy", rel |-> cut.rel]
                    \/ cut.pc # "undo-reload" /\ UnitUnnoticed
        /\ cut.attempted =>
              /\ cut.pc \in {"start", "observe", "undo-stop", "undo-auth", "undo-receipt"}
              /\ loaded = unit
              /\ cut.created /\ cut.installed
              /\ cut.pc \in {"undo-auth", "undo-receipt"} /\ undoFaults = 0 => Stopped
        /\ cut.pc \in {"retarget", "authorize"} => db[cut.run].executed = 0
        /\ cut.pc \in {"retarget", "authorize", "unit", "reload"} =>
              db[cut.run].books = booked /\ db[cut.run].rel = cut.rel
        /\ cut.pc \in {"authorize", "unit", "reload"} \/ (cut.created /\ auth # NoAuth) =>
              files.run = cut.run /\ db[cut.run].rel = cut.rel
        /\ cut.created /\ cut.pc \in CutForward \cup {"undo-stop", "undo-auth"} =>
              auth = [state |-> "ACTIVE", rel |-> cut.rel, run |-> cut.run]
        /\ cut.attempted \/ cut.pc = "reload" => unit = [kind |-> "fast", rel |-> cut.rel]
        /\ cut.pc = "undo-receipt" =>
              auth = [state |-> "REVOKED", rel |-> cut.rel, run |-> cut.run]

\* The first n - 1 files of the rotation are bound to the release r.
RotatedTo(r, run, n) ==
    /\ n > 1 => files.manifest = r
    /\ n > 2 => files.policy = r
    /\ n > 3 => files.writer = r
    /\ n > 4 => files.decision = r
    /\ n > 5 => files.run = run

UpgTable ==
    upg # Idle =>
        /\ fastStarted /\ upg.to # upg.from
        /\ db[upg.run].rel = upg.from
        /\ upg.pc = "archive" => upg.i \in 1..2
        /\ upg.pc \in UpgForward \ {"archive", "rotate"} \/ upg.pc = "undo-stop" => upg.i = 1
        /\ upg.saved # <<>> =>
              /\ upg.saved[1].manifest = upg.from /\ upg.saved[1].policy = upg.from
              /\ upg.saved[1].writer = upg.from /\ upg.saved[1].decision = upg.from
              /\ upg.saved[1].run = upg.run
              /\ upg.saved[2] = [state |-> "ACTIVE", rel |-> upg.from, run |-> upg.run]
              /\ ~upg.attempted => /\ Stopped
                                   /\ db[upg.run].books = booked
                                   /\ db[upg.run].executed = files.cursor
        /\ upg.saved = <<>> =>
              /\ ~upg.attempted
              /\ upg.pc \in {"stop", "boundary", "undo-stop"} \cup UpgBackward
              /\ upg.pc = "boundary" => Stopped
              /\ BoundTo(upg.from, upg.run) /\ current = upg.from
              /\ unit = [kind |-> "fast", rel |-> upg.from]
              /\ auth = [state |-> "ACTIVE", rel |-> upg.from, run |-> upg.run]
        /\ upg.pc \in {"stop", "boundary"} => upg.saved = <<>>
        /\ upg.pc = "handoff" => files.run = upg.run
        /\ upg.pc \in {"archive", "rotate", "units", "switch", "reload"} =>
              /\ db[upg.to].books = booked
              /\ db[upg.to].executed = files.cursor
              /\ db[upg.to].rel = upg.to /\ db[upg.to].origin # <<>>
        /\ upg.pc = "rotate" => RotatedTo(upg.to, upg.to, upg.i)
        /\ upg.pc \in {"units", "switch", "reload"} \/ upg.attempted =>
              BoundTo(upg.to, upg.to)
        /\ upg.pc \in {"units", "switch", "reload"} \/ (upg.attempted /\ upg.pc # "undo-receipt") =>
              auth = [state |-> "ACTIVE", rel |-> upg.to, run |-> upg.to]
        /\ upg.pc \in {"switch", "reload"} \/ upg.attempted =>
              unit = [kind |-> "fast", rel |-> upg.to]
        /\ upg.pc = "reload" \/ upg.attempted => current = upg.to
        /\ upg.attempted =>
              /\ upg.saved # <<>>
              /\ loaded = unit /\ db[upg.to].origin # <<>>
              /\ upg.pc \in {"start", "verify", "observe", "undo-stop", "undo-auth", "undo-receipt"}
              /\ upg.pc \in {"undo-auth", "undo-receipt"} /\ undoFaults = 0 => Stopped
        /\ ~upg.attempted =>
              upg.pc \notin {"start", "verify", "observe", "undo-auth", "undo-receipt"}
        /\ upg.pc = "undo-receipt" =>
              auth = [state |-> "REVOKED", rel |-> upg.to, run |-> upg.to]
        /\ upg.pc = "undo-files" /\ upg.saved # <<>> => RotatedTo(upg.from, upg.run, upg.i)
        /\ upg.pc \in {"undo-archive", "undo-units", "undo-switch", "undo-reload", "undo-start"} =>
              BoundTo(upg.from, upg.run)
        /\ upg.pc \in {"undo-switch", "undo-reload", "undo-start"} =>
              unit = [kind |-> "fast", rel |-> upg.from]
        /\ upg.pc \in {"undo-reload", "undo-start"} => current = upg.from
        /\ upg.pc = "undo-start" => loaded = unit

\* A failure receipt is the last thing a tool writes on the host.
Failures ==
    \A r \in receipts : ~r.ok =>
        /\ ToolsIdle /\ auth.state = "REVOKED"
        /\ unit.kind = "fast" /\ loaded.kind = "fast"
        /\ undoFaults = 0 => Assessable(r)

Host == StateShape /\ Era /\ FastHolds /\ Installed /\ CursorFollows
Tables == RmTable /\ CutTable /\ UpgTable
CutoverInv == Host /\ ToolShape /\ Tables /\ Failures
-----------------------------------------------------------------------------
(* What the host's own operations do to the invariant. *)

LEMMA StartedShape ==
    ASSUME StateShape
    PROVE  Started \in Services
BY DEF StateShape, HostShape, AuthorityShape, Started, Services, Units, Files, Kind, Run

\* What a step may count without disturbing the host.
Counted ==
    /\ BoundShape' /\ UNCHANGED <<booked, crashes>>
    /\ undoFaults' >= undoFaults /\ broken \subseteq broken'

LEMMA NothingCounted ==
    ASSUME Host, UNCHANGED boundVars
    PROVE  Counted /\ BoundShape'
<1>1. UNCHANGED <<booked, faults, undoFaults, crashes, attempts, broken, crossed>>
  BY DEF boundVars
<1>2. BoundShape
  BY DEF Host, StateShape
<1>3. BoundShape'
  BY <1>1, <1>2 DEF BoundShape
<1>4. undoFaults' >= undoFaults
  BY <1>1, <1>2 DEF BoundShape
<1> QED BY <1>1, <1>3, <1>4 DEF Counted

\* What is loaded fits as long as it, the unit, the release and the authority
\* files stay: a broken step stays broken.
LEMMA LoadedFitsOn ==
    ASSUME LoadedFits, UNCHANGED <<current, unit, loaded>>,
           files'.manifest = files.manifest, broken \subseteq broken'
    PROVE  LoadedFits'
BY DEF LoadedFits, StrayUnit

LEMMA StartKeeps ==
    ASSUME Host, SystemctlStart, UNCHANGED <<authorityVars, evidenceVars, boundVars>>,
           receipts' \subseteq Receipts,
           crashes = 0 => LoadedFits,
           auth # NoAuth /\ unit.kind = "fast" => loaded.kind = "fast"
    PROVE  Host'
<1>1. StateShape'
  BY StartedShape, NothingCounted DEF Host, StateShape, HostShape, AuthorityShape, EvidenceShape,
     SystemctlStart, authorityVars, evidenceVars
<1>2. \/ service' = service
      \/ /\ loaded.kind = "legacy" /\ service = Down
         /\ service' = [kind |-> "legacy", rel |-> current, run |-> "legacy"]
      \/ /\ loaded.kind = "fast" /\ Bootstraps /\ Authorized /\ service = Down
         /\ service' = [kind |-> "fast", rel |-> current, run |-> files.run]
  BY DEF SystemctlStart, Started, Host, StateShape, HostShape, Units, Kind
<1>3. Bootstraps' = Bootstraps
  BY DEF Bootstraps, authorityVars
<1>4. CursorFollows'
  BY DEF CursorFollows, authorityVars, Host
<1>5. FastHolds'
  BY <1>2, <1>3 DEF FastHolds, Host, Authorized, authorityVars, boundVars
<1>6. fastStarted' = (fastStarted \/ service'.kind = "fast")
  BY DEF SystemctlStart
<1>7. Era'
  <2>1. UNCHANGED <<unit, loaded, auth, db, files, booked>>
    BY DEF SystemctlStart, authorityVars, boundVars
  <2>2. CASE service' = service
    BY <2>1, <2>2, <1>6 DEF Era, Host
  <2>3. CASE /\ loaded.kind = "legacy" /\ service = Down
             /\ service' = [kind |-> "legacy", rel |-> current, run |-> "legacy"]
    BY <2>1, <2>3, <1>6 DEF Era, Host
  <2>4. CASE /\ loaded.kind = "fast" /\ Authorized
             /\ service' = [kind |-> "fast", rel |-> current, run |-> files.run]
    <3>1. auth # NoAuth
      BY <2>4 DEF Authorized, NoAuth
    <3>2. unit.kind = "fast" /\ db[files.run].books = booked
      BY <3>1, <2>4 DEF Era, Host
    <3>3. fastStarted' /\ service'.kind = "fast"
      BY <1>6, <2>4
    <3> QED BY <2>1, <2>4, <3>1, <3>2, <3>3 DEF Era
  <2> QED BY <1>2, <2>2, <2>3, <2>4
<1>8. Installed'
  <2> SUFFICES ASSUME crashes = 0, ~Stopped'
               PROVE  /\ LoadedFits'
                      /\ service' # Down => service'.kind = loaded'.kind /\ service'.rel = current'
    BY DEF Installed, boundVars
  <2>1. LoadedFits'
    BY LoadedFitsOn DEF SystemctlStart, authorityVars, boundVars
  <2>2. UNCHANGED <<loaded, current>>
    BY DEF SystemctlStart
  <2>3. CASE service' = service
    BY <2>1, <2>2, <2>3 DEF Installed, Host, Stopped
  <2>4. CASE service' # service
    BY <1>2, <2>1, <2>2, <2>4
  <2> QED BY <2>3, <2>4
<1> QED BY <1>1, <1>4, <1>5, <1>7, <1>8 DEF Host

LEMMA StopCounted ==
    ASSUME Host, SystemctlStop, UNCHANGED <<authorityVars, evidenceVars>>, Counted,
           receipts' \subseteq Receipts
    PROVE  Host' /\ Stopped'
<1>1. StateShape'
  BY DEF Host, StateShape, HostShape, AuthorityShape, EvidenceShape,
     SystemctlStop, authorityVars, evidenceVars, Counted, Services
<1>2. CursorFollows' /\ FastHolds' /\ Installed' /\ Stopped'
  BY DEF CursorFollows, FastHolds, Installed, Stopped, authorityVars, Host, SystemctlStop, Down
<1>3. Era'
  BY DEF Era, Host, SystemctlStop, authorityVars, Counted, Down
<1> QED BY <1>1, <1>2, <1>3 DEF Host

LEMMA StopKeeps ==
    ASSUME Host, SystemctlStop, UNCHANGED <<authorityVars, evidenceVars, boundVars>>,
           receipts' \subseteq Receipts
    PROVE  Host' /\ Stopped'
BY NothingCounted, StopCounted

LEMMA ReloadCounted ==
    ASSUME Host, DaemonReload, UNCHANGED <<authorityVars, evidenceVars>>, Counted,
           receipts' \subseteq Receipts,
           service.kind = "legacy" => unit.kind = "legacy",
           fastStarted => unit.kind = "fast",
           Stopped \/ (unit.kind = loaded.kind /\ unit.rel = current /\ files.manifest = current)
    PROVE  Host' /\ (Stopped => Stopped')
<1>1. StateShape'
  BY DEF Host, StateShape, HostShape, AuthorityShape, EvidenceShape, Counted,
     DaemonReload, authorityVars, evidenceVars
<1>2. Stopped => Stopped'
  BY DEF Stopped, DaemonReload
<1>3. CursorFollows' /\ FastHolds'
  BY DEF CursorFollows, FastHolds, authorityVars, Host, DaemonReload, Stopped, Down, Counted,
     Bootstraps, StateShape, BoundShape
<1>a. Installed'
  <2>1. CASE Stopped
    BY <1>2, <2>1 DEF Installed
  <2>2. CASE unit.kind = loaded.kind /\ unit.rel = current /\ files.manifest = current
    BY <2>2 DEF Host, Installed, LoadedFits, DaemonReload, Counted, authorityVars, Stopped
  <2> QED BY <2>1, <2>2
<1>4. Era'
  BY DEF Era, Host, DaemonReload, authorityVars, Counted
<1> QED BY <1>1, <1>2, <1>3, <1>4, <1>a DEF Host

LEMMA ReloadKeeps ==
    ASSUME Host, DaemonReload, UNCHANGED <<authorityVars, evidenceVars, boundVars>>,
           receipts' \subseteq Receipts,
           service.kind = "legacy" => unit.kind = "legacy",
           fastStarted => unit.kind = "fast",
           Stopped \/ (unit.kind = loaded.kind /\ unit.rel = current /\ files.manifest = current)
    PROVE  Host'
BY NothingCounted, ReloadCounted

LEMMA InstallCounted ==
    ASSUME Host, NEW content \in Units, InstallUnit(content),
           UNCHANGED <<authorityVars, evidenceVars>>, Counted,
           receipts' \subseteq Receipts,
           Stopped \/ (content = unit /\ UNCHANGED boundVars),
           fastStarted => content.kind = "fast",
           auth # NoAuth /\ content.kind = "fast" => db[files.run].books = booked,
           auth # NoAuth /\ content.kind = "legacy" => loaded.kind = "legacy"
    PROVE  Host'
<1>1. StateShape'
  BY DEF Host, StateShape, HostShape, AuthorityShape, EvidenceShape, Counted,
     InstallUnit, authorityVars, evidenceVars
<1>2. CursorFollows' /\ FastHolds'
  BY DEF CursorFollows, FastHolds, authorityVars, Host, InstallUnit, Bootstraps, Counted, Stopped,
     Down, StateShape, BoundShape, boundVars
<1>3. Era'
  BY DEF Era, Host, InstallUnit, authorityVars, Counted, Stopped, Units, Kind
<1>4. Installed'
  BY LoadedFitsOn DEF Installed, Host, InstallUnit, authorityVars, Counted, Stopped
<1> QED BY <1>1, <1>2, <1>3, <1>4 DEF Host

LEMMA InstallKeeps ==
    ASSUME Host, NEW content \in Units, InstallUnit(content),
           UNCHANGED <<authorityVars, evidenceVars, boundVars>>,
           receipts' \subseteq Receipts,
           Stopped \/ content = unit,
           fastStarted => content.kind = "fast",
           auth # NoAuth /\ content.kind = "fast" => db[files.run].books = booked,
           auth # NoAuth /\ content.kind = "legacy" => loaded.kind = "legacy"
    PROVE  Host'
BY NothingCounted, InstallCounted

LEMMA SwitchKeeps ==
    ASSUME Host, NEW release \in Releases, SwitchTo(release),
           UNCHANGED <<authorityVars, evidenceVars, boundVars>>,
           receipts' \subseteq Receipts,
           Stopped \/ release = current
    PROVE  Host'
<1>1. StateShape'
  BY NothingCounted DEF Host, StateShape, HostShape, AuthorityShape, EvidenceShape,
     SwitchTo, authorityVars, evidenceVars
<1>2. CursorFollows' /\ FastHolds'
  BY DEF CursorFollows, FastHolds, authorityVars, Host, SwitchTo, Bootstraps, boundVars
<1>3. Era'
  BY DEF Era, Host, SwitchTo, authorityVars, boundVars
<1>4. Installed'
  BY LoadedFitsOn DEF Installed, Host, SwitchTo, authorityVars, boundVars, Stopped
<1> QED BY <1>1, <1>2, <1>3, <1>4 DEF Host

\* A step that leaves the host and its authority alone, whatever it adds to
\* the faults, the attempts and the receipts.
LEMMA QuietKeeps ==
    ASSUME Host, HostUnchanged, UNCHANGED <<authorityVars, evidenceVars, booked>>,
           receipts' \subseteq Receipts, BoundShape',
           undoFaults' >= undoFaults, crashes' >= crashes, broken \subseteq broken'
    PROVE  Host'
<1>1. StateShape'
  BY DEF Host, StateShape, HostShape, AuthorityShape, EvidenceShape,
     HostUnchanged, hostVars, authorityVars, evidenceVars
<1>2. (undoFaults' = 0 => undoFaults = 0) /\ (crashes' = 0 => crashes = 0)
  BY DEF Host, StateShape, BoundShape
<1>3. CursorFollows' /\ FastHolds' /\ Era'
  BY <1>2 DEF CursorFollows, FastHolds, Era, Stopped, Host, HostUnchanged,
     hostVars, authorityVars, Bootstraps
<1>4. Installed'
  BY <1>2, LoadedFitsOn DEF Installed, Stopped, Host, HostUnchanged, hostVars, authorityVars
<1> QED BY <1>1, <1>3, <1>4 DEF Host

LEMMA UncountedKeeps ==
    ASSUME Host, HostUnchanged, UNCHANGED <<authorityVars, evidenceVars, boundVars>>,
           receipts' \subseteq Receipts
    PROVE  Host'
<1>1. UNCHANGED <<booked, undoFaults, crashes>> /\ broken \subseteq broken' /\ BoundShape'
  BY NothingCounted DEF boundVars
<1>2. undoFaults' >= undoFaults /\ crashes' >= crashes
  BY <1>1 DEF Host, StateShape, BoundShape
<1> QED BY <1>1, <1>2, QuietKeeps
-----------------------------------------------------------------------------
(* The release manager. *)

\* While one tool is at work the tables of the others say nothing, and there
\* is no failure receipt yet.
LEMMA OnlyRm ==
    ASSUME CutoverInv, rm # Idle
    PROVE  /\ rm \in RmStates /\ cut = Idle /\ upg = Idle
           /\ \A r \in receipts : r.ok
           /\ RmTable /\ Host
BY DEF CutoverInv, ToolShape, Failures, ToolsIdle, Tables

LEMMA RmAlone ==
    ASSUME ToolShape, rm' \in RmStates \cup {Idle}, cut' = cut, upg' = upg, cut = Idle, upg = Idle
    PROVE  ToolShape' /\ CutTable' /\ UpgTable'
BY DEF ToolShape, CutTable, UpgTable

LEMMA NoFailure ==
    ASSUME \A r \in receipts' : r.ok
    PROVE  Failures'
BY DEF Failures

LEMMA RmMoves ==
    ASSUME CutoverInv, NEW p \in RmForward \cup RmBackward, NEW q \in RmForward \cup RmBackward,
           RmStep(p, q)
    PROVE  /\ rm' \in RmStates /\ rm'.pc = q /\ rm'.to = rm.to /\ rm'.previous = rm.previous
           /\ rm \in RmStates /\ rm # Idle /\ rm.pc = p
           /\ UNCHANGED <<authorityVars, evidenceVars, boundVars, receipts>>
           /\ receipts' \subseteq Receipts
           /\ ToolShape' /\ CutTable' /\ UpgTable' /\ Failures'
           /\ RmTable /\ Host
<1>1. rm.pc # "idle"
  BY DEF RmStep, RmForward, RmBackward
<1>2. rm # Idle
  BY <1>1 DEF Idle
<1>3. /\ rm \in RmStates /\ cut = Idle /\ upg = Idle /\ RmTable /\ Host
      /\ \A r \in receipts : r.ok
  BY <1>2, OnlyRm
<1>4. rm' = [rm EXCEPT !.pc = q]
  BY DEF RmStep
<1>5. rm' \in RmStates /\ rm'.pc = q /\ rm'.to = rm.to /\ rm'.previous = rm.previous
  BY <1>3, <1>4 DEF RmStates
<1>6. UNCHANGED <<authorityVars, evidenceVars, boundVars, receipts, cut, upg>>
  BY DEF RmStep, HostOnly
<1>7. receipts' \subseteq Receipts
  BY <1>3, <1>6 DEF Host, StateShape, EvidenceShape
<1>8. ToolShape' /\ CutTable' /\ UpgTable'
  BY <1>3, <1>5, <1>6, RmAlone DEF CutoverInv
<1>9. Failures'
  BY <1>3, <1>6, NoFailure
<1> QED BY <1>2, <1>3, <1>5, <1>6, <1>7, <1>8, <1>9 DEF RmStep

\* The invocation of a tool.
LEMMA InvokeKeeps ==
    ASSUME Host, Invoke, crossed' \in BOOLEAN,
           UNCHANGED <<authorityVars, evidenceVars, receipts>>
    PROVE  Host'
<1>1. BoundShape
  BY DEF Host, StateShape
<1>2. UNCHANGED <<booked, faults, undoFaults, crashes, broken>> /\ attempts' = attempts + 1
  BY DEF Invoke
<1>3. BoundShape'
  BY <1>1, <1>2 DEF BoundShape
<1>4. undoFaults' >= undoFaults /\ crashes' >= crashes
  BY <1>1, <1>2 DEF BoundShape
<1>5. HostUnchanged /\ receipts' \subseteq Receipts
  BY DEF Invoke, HostUnchanged, Host, StateShape, EvidenceShape
<1> QED BY <1>2, <1>3, <1>4, <1>5, QuietKeeps

LEMMA RmActivateInv ==
    ASSUME CutoverInv, OneToolAtATime, NEW release \in Releases, RmActivate(release)
    PROVE  CutoverInv'
<1>1. /\ rm = Idle /\ cut = Idle /\ upg = Idle /\ cut' = cut /\ upg' = upg
      /\ auth = NoAuth
      /\ rm' = [pc |-> "stop", to |-> release, previous |-> current]
      /\ HostUnchanged
      /\ UNCHANGED <<authorityVars, evidenceVars, receipts>>
      /\ Invoke /\ crossed' \in BOOLEAN
  BY DEF RmActivate, Invoke, ToolsIdle, HostUnchanged, CutoverInv, Host, StateShape, BoundShape
<1>2. Host'
  BY <1>1, InvokeKeeps DEF CutoverInv
<1>3. rm' \in RmStates
  BY <1>1 DEF RmStates, RmForward, CutoverInv, Host, StateShape, HostShape
<1>4. ToolShape' /\ CutTable' /\ UpgTable'
  BY <1>1, <1>3, RmAlone DEF CutoverInv
<1>5. RmTable'
  BY <1>1 DEF RmTable, authorityVars
<1>6. Failures'
  BY <1>1 DEF CutoverInv, Failures, NoAuth, authorityVars
<1> QED BY <1>2, <1>4, <1>5, <1>6 DEF CutoverInv, Tables

\* The steps of the release manager, forward and back.
LEMMA RmStopInv ==
    ASSUME CutoverInv, RmStop \/ (RmStep("undo-stop", "undo-units") /\ SystemctlStop)
    PROVE  CutoverInv'
<1> PICK p \in {"stop", "undo-stop"}, q \in {"units", "undo-units"} :
        RmStep(p, q) /\ SystemctlStop
  BY DEF RmStop
<1>1. p \in RmForward \cup RmBackward /\ q \in RmForward \cup RmBackward
  BY DEF RmForward, RmBackward
<1>2. Host' /\ Stopped'
  BY <1>1, RmMoves, StopKeeps
<1>3. RmTable'
  BY <1>1, <1>2, RmMoves DEF RmTable, authorityVars
<1> QED BY <1>1, <1>2, <1>3, RmMoves DEF CutoverInv, Tables

LEMMA RmUnitsInv ==
    ASSUME CutoverInv,
           \/ RmUnits
           \/ RmStep("undo-units", "undo-switch")
                /\ InstallUnit([kind |-> "legacy", rel |-> rm.previous])
    PROVE  CutoverInv'
<1> PICK p \in {"units", "undo-units"}, q \in {"switch", "undo-switch"},
         r \in {rm.to, rm.previous} :
        /\ RmStep(p, q) /\ InstallUnit([kind |-> "legacy", rel |-> r])
        /\ q = "switch" => r = rm.to
        /\ q = "undo-switch" => r = rm.previous
  BY DEF RmUnits
<1>1. p \in RmForward \cup RmBackward /\ q \in RmForward \cup RmBackward
  BY DEF RmForward, RmBackward
<1>2. [kind |-> "legacy", rel |-> r] \in Units
  BY <1>1, RmMoves DEF RmStates, Units, Kind
<1>3. auth = NoAuth /\ Stopped /\ ~fastStarted
  BY <1>1, RmMoves DEF RmTable, Host, Era
<1>4. Host'
  BY <1>1, <1>2, <1>3, RmMoves, InstallKeeps
<1>5. Stopped' /\ unit' = [kind |-> "legacy", rel |-> r]
  BY <1>3 DEF InstallUnit, Stopped
<1>6. RmTable'
  BY <1>1, <1>3, <1>5, RmMoves DEF RmTable, authorityVars
<1> QED BY <1>1, <1>4, <1>6, RmMoves DEF CutoverInv, Tables

LEMMA RmSwitchInv ==
    ASSUME CutoverInv,
           RmSwitch \/ (RmStep("undo-switch", "undo-reload") /\ SwitchTo(rm.previous))
    PROVE  CutoverInv'
<1> PICK p \in {"switch", "undo-switch"}, q \in {"reload", "undo-reload"},
         r \in {rm.to, rm.previous} :
        /\ RmStep(p, q) /\ SwitchTo(r)
        /\ q = "reload" => p = "switch" /\ r = rm.to
        /\ q = "undo-reload" => p = "undo-switch" /\ r = rm.previous
  BY DEF RmSwitch
<1>1. p \in RmForward \cup RmBackward /\ q \in RmForward \cup RmBackward
  BY DEF RmForward, RmBackward
<1>2. r \in Releases
  BY <1>1, RmMoves DEF RmStates
<1>3. auth = NoAuth /\ Stopped /\ unit = [kind |-> "legacy", rel |-> r]
  BY <1>1, RmMoves DEF RmTable
<1>4. Host'
  BY <1>1, <1>2, <1>3, RmMoves, SwitchKeeps
<1>5. Stopped' /\ unit' = unit /\ current' = r
  BY <1>3 DEF SwitchTo, Stopped
<1>6. RmTable'
  BY <1>1, <1>3, <1>5, RmMoves DEF RmTable, authorityVars
<1> QED BY <1>1, <1>4, <1>6, RmMoves DEF CutoverInv, Tables

LEMMA RmReloadInv ==
    ASSUME CutoverInv,
           RmReload \/ (RmStep("undo-reload", "undo-start") /\ DaemonReload)
    PROVE  CutoverInv'
<1> PICK p \in {"reload", "undo-reload"}, q \in {"start", "undo-start"} :
        /\ RmStep(p, q) /\ DaemonReload
        /\ q = "start" <=> p = "reload"
  BY DEF RmReload
<1>1. p \in RmForward \cup RmBackward /\ q \in RmForward \cup RmBackward
  BY DEF RmForward, RmBackward
<1>3. auth = NoAuth /\ Stopped /\ unit.kind = "legacy" /\ ~fastStarted
  BY <1>1, RmMoves DEF RmTable, Host, Era
<1>4. Host'
  BY <1>1, <1>3, RmMoves, ReloadKeeps
<1>5. Stopped' /\ unit' = unit /\ current' = current /\ loaded' = unit
  BY <1>3 DEF DaemonReload, Stopped
<1>6. RmTable'
  BY <1>1, <1>3, <1>5, RmMoves DEF RmTable, authorityVars
<1> QED BY <1>1, <1>4, <1>6, RmMoves DEF CutoverInv, Tables

LEMMA RmStartInv ==
    ASSUME CutoverInv,
           RmStart \/ (RmStep("undo-start", "undo-health") /\ SystemctlStart)
    PROVE  CutoverInv'
<1> PICK p \in {"start", "undo-start"}, q \in {"health", "undo-health"} :
        RmStep(p, q) /\ SystemctlStart
  BY DEF RmStart
<1>1. p \in RmForward \cup RmBackward /\ q \in RmForward \cup RmBackward
  BY DEF RmForward, RmBackward
<1>3. auth = NoAuth /\ loaded = unit /\ unit.kind = "legacy" /\ unit.rel = current
  BY <1>1, RmMoves DEF RmTable
<1>4. Host'
  <2>1. LoadedFits
    BY <1>3 DEF LoadedFits
  <2> QED BY <1>1, <1>3, <2>1, RmMoves, StartKeeps
<1>6. RmTable'
  BY <1>1, <1>3, RmMoves DEF RmTable, authorityVars
<1> QED BY <1>1, <1>4, <1>6, RmMoves DEF CutoverInv, Tables

LEMMA RmEndInv ==
    ASSUME CutoverInv,
           \/ RmHealthy
           \/ /\ rm.pc = "undo-health"
              /\ rm' = Idle
              /\ UNCHANGED <<hostVars, fastStarted, cut, upg, boundVars>>
              /\ HostOnly
    PROVE  CutoverInv'
<1>1. /\ rm' = Idle /\ UNCHANGED <<cut, upg, boundVars, authorityVars, evidenceVars, receipts>>
      /\ HostUnchanged /\ rm # Idle
  BY DEF RmHealthy, HostOnly, HostUnchanged, Idle
<1>2. /\ cut = Idle /\ upg = Idle /\ (\A r \in receipts : r.ok) /\ Host
      /\ receipts' \subseteq Receipts
  BY <1>1, OnlyRm DEF Host, StateShape, EvidenceShape
<1>3. Host'
  BY <1>1, <1>2, UncountedKeeps
<1>4. ToolShape' /\ CutTable' /\ UpgTable' /\ RmTable'
  BY <1>1, <1>2, RmAlone DEF CutoverInv, RmTable
<1> QED BY <1>1, <1>2, <1>3, <1>4, NoFailure DEF CutoverInv, Tables

\* A fault is counted; where the tool's own check fails, none is.
LEMMA Injected ==
    ASSUME Host, NEW undoing \in BOOLEAN, Inject(undoing) \/ UNCHANGED boundVars
    PROVE  /\ UNCHANGED <<booked, broken, crashes>>
           /\ BoundShape' /\ undoFaults' >= undoFaults /\ crashes' >= crashes
           /\ broken \subseteq broken' /\ Counted
<1>1. BoundShape
  BY DEF Host, StateShape
<1>2. CASE UNCHANGED boundVars
  <2>1. UNCHANGED <<booked, undoFaults, crashes, broken>>
    BY <1>2 DEF boundVars
  <2>2. undoFaults' >= undoFaults /\ crashes' >= crashes
    BY <1>1, <2>1 DEF BoundShape
  <2> QED BY <1>2, <2>1, <2>2, NothingCounted
<1>3. CASE Inject(undoing)
  <2>1. /\ UNCHANGED <<booked, crashes, broken, attempts, crossed>>
        /\ \/ faults' = faults + 1 /\ UNCHANGED undoFaults
           \/ undoFaults' = undoFaults + 1 /\ UNCHANGED faults
    BY <1>3 DEF Inject, Counts
  <2>2. BoundShape' /\ undoFaults' >= undoFaults /\ crashes' >= crashes
    BY <1>1, <2>1 DEF BoundShape
  <2> QED BY <2>1, <2>2 DEF Counted
<1> QED BY <1>2, <1>3

LEMMA RmFailsInv ==
    ASSUME CutoverInv, RmFails
    PROVE  CutoverInv'
<1>1. /\ rm # Idle /\ UNCHANGED <<cut, upg, authorityVars, evidenceVars, receipts>>
      /\ HostUnchanged
      /\ rm' = Idle \/ rm' = [rm EXCEPT !.pc = "undo-stop"]
      /\ Inject(rm.pc \notin RmForward) \/ UNCHANGED boundVars
  BY DEF RmFails, HostOnly
<1>2. /\ cut = Idle /\ upg = Idle /\ (\A r \in receipts : r.ok) /\ Host
      /\ rm \in RmStates /\ RmTable
  BY <1>1, OnlyRm
<1>3. Host'
  BY <1>1, <1>2, Injected, QuietKeeps DEF Host, StateShape, EvidenceShape
<1>4. rm' = Idle \/ (rm' \in RmStates /\ rm'.pc = "undo-stop")
  BY <1>1, <1>2 DEF RmStates, RmBackward
<1>5. ToolShape' /\ CutTable' /\ UpgTable'
  BY <1>1, <1>2, <1>4, RmAlone DEF CutoverInv
<1>6. RmTable'
  BY <1>1, <1>2, <1>4 DEF RmTable, authorityVars
<1> QED BY <1>1, <1>2, <1>3, <1>5, <1>6, NoFailure DEF CutoverInv, Tables

LEMMA RmInv ==
    ASSUME CutoverInv, RmNext \/ RmFails
    PROVE  CutoverInv'
BY RmStopInv, RmUnitsInv, RmSwitchInv, RmReloadInv, RmStartInv, RmEndInv, RmFailsInv
   DEF RmNext, RmRollback
-----------------------------------------------------------------------------
(* systemd and the PAPER process. *)

\* What no booking changes about a run: the release of its binding and where
\* it descends from.
SameLineage ==
    \A run \in Run : db'[run].rel = db[run].rel /\ db'[run].origin = db[run].origin
SameFiles ==
    /\ files'.manifest = files.manifest /\ files'.policy = files.policy
    /\ files'.writer = files.writer /\ files'.decision = files.decision
    /\ files'.run = files.run

\* The steps of a tool that rely on a stopped PAPER have not been reached
\* while it runs or is to run.
LEMMA TablesStay ==
    ASSUME Host, ToolShape, Tables, ~Stopped, UNCHANGED <<rm, cut, upg>>,
           UNCHANGED <<current, unit, loaded, auth, undoFaults, crashes, broken>>,
           SameLineage, SameFiles,
           fastStarted => fastStarted',
           cut # Idle /\ ~cut.attempted => ~fastStarted',
           cut # Idle => db'[cut.config].executed = 0
    PROVE  Tables' /\ ToolShape'
<1>1. ToolShape'
  BY DEF ToolShape
<1>2. RmTable'
  BY DEF Tables, RmTable, Stopped
<1>3. CutTable'
  <2> SUFFICES ASSUME cut # Idle
               PROVE  CutTable'
    BY DEF CutTable
  <2>1. cut.run \in Run /\ cut \in CutStates
    BY Names DEF ToolShape, CutStates
  <2> QED BY <2>1
     DEF Tables, CutTable, UnitUnnoticed, ReloadUnnoticed, Stopped, SameLineage, SameFiles
<1>4. UpgTable'
  <2> SUFFICES ASSUME upg # Idle
               PROVE  UpgTable'
    BY DEF UpgTable
  <2>1. upg.run \in Run /\ upg.to \in Run
    BY Names DEF ToolShape, UpgStates
  <2>2. /\ db'[upg.run].rel = db[upg.run].rel /\ db'[upg.to].origin = db[upg.to].origin
        /\ BoundTo(upg.from, upg.run)' <=> BoundTo(upg.from, upg.run)
        /\ BoundTo(upg.to, upg.to)' <=> BoundTo(upg.to, upg.to)
    BY <2>1 DEF BoundTo, SameLineage, SameFiles
  <2>3. upg.attempted \/ upg.saved = <<>>
    BY DEF Tables, UpgTable
  <2>4. CASE upg.attempted
    BY <2>2, <2>4 DEF Tables, UpgTable, UpgForward
  <2>5. CASE upg.saved = <<>>
    BY <2>2, <2>5 DEF Tables, UpgTable, UpgForward, UpgBackward
  <2> QED BY <2>3, <2>4, <2>5
<1> QED BY <1>1, <1>2, <1>3, <1>4 DEF Tables

LEMMA SystemdRestartInv ==
    ASSUME CutoverInv, SystemdRestart
    PROVE  CutoverInv'
<1>1. /\ wanted /\ service = Down /\ Started # Down /\ SystemctlStart
      /\ UNCHANGED <<authorityVars, evidenceVars, receipts, rm, cut, upg, boundVars>>
      /\ ~Stopped
  BY DEF SystemdRestart, Stopped
<1>2. receipts' \subseteq Receipts
  BY <1>1 DEF CutoverInv, Host, StateShape, EvidenceShape
<1>3. auth # NoAuth /\ unit.kind = "fast" => loaded.kind = "fast"
  BY <1>1 DEF CutoverInv, Host, StateShape, HostShape, Era, Units, Kind
<1>4. Host'
  BY <1>1, <1>2, <1>3, StartKeeps DEF CutoverInv, Host, Installed
<1>5. fastStarted => fastStarted'
  BY <1>1 DEF SystemctlStart
<1>6. cut # Idle /\ ~cut.attempted => ~fastStarted'
  BY <1>1 DEF CutoverInv, Tables, CutTable, ReloadUnnoticed, Stopped, SystemctlStart, Started
<1>7. SameLineage /\ SameFiles /\ (cut # Idle => db'[cut.config].executed = 0)
  BY <1>1 DEF SameLineage, SameFiles, authorityVars, CutoverInv, Tables, CutTable
<1>8. Tables' /\ ToolShape'
  BY <1>1, <1>5, <1>6, <1>7, TablesStay DEF CutoverInv, SystemctlStart, authorityVars, boundVars
<1>9. Failures'
  <2>1. ~Authorized \/ auth.state # "REVOKED"
    BY DEF Authorized
  <2>2. (\E r \in receipts : ~r.ok) => Started = Down
    BY <1>1, <2>1 DEF CutoverInv, Failures, Started
  <2> QED BY <1>1, <2>2, NoFailure
<1> QED BY <1>4, <1>8, <1>9 DEF CutoverInv

LEMMA ServiceDiesInv ==
    ASSUME CutoverInv, ServiceDies
    PROVE  CutoverInv'
<1>1. /\ service # Down /\ service' = Down /\ ~Stopped /\ faults' = faults + 1
      /\ UNCHANGED <<current, unit, loaded, wanted, authorityVars, evidenceVars, receipts,
                     rm, cut, upg, fastStarted, booked, undoFaults, crashes, attempts, broken,
                     crossed>>
  BY DEF ServiceDies, Stopped
<1>a. BoundShape'
  BY <1>1 DEF CutoverInv, Host, StateShape, BoundShape
<1>b. LoadedFits => LoadedFits'
  BY <1>1, LoadedFitsOn DEF authorityVars
<1>2. StateShape'
  BY <1>1, <1>a DEF CutoverInv, Host, StateShape, HostShape, AuthorityShape, EvidenceShape,
     authorityVars, evidenceVars, Services
<1>3. Era' /\ FastHolds' /\ Installed' /\ CursorFollows'
  BY <1>1, <1>b
     DEF CutoverInv, Host, Era, FastHolds, Installed, CursorFollows, authorityVars, Down, Stopped
<1>4. SameLineage /\ SameFiles /\ (cut # Idle => db'[cut.config].executed = 0)
  BY <1>1 DEF SameLineage, SameFiles, authorityVars, CutoverInv, Tables, CutTable
<1>5. Tables' /\ ToolShape'
  BY <1>1, <1>4, TablesStay DEF CutoverInv, authorityVars, Tables, CutTable
<1>6. Failures'
  BY <1>1 DEF CutoverInv, Failures, ToolsIdle, Assessable, Bootstraps, authorityVars
<1> QED BY <1>2, <1>3, <1>5, <1>6 DEF CutoverInv, Host

\* Booking one more cycle.
LEMMA Books ==
    ASSUME NEW s \in RunStates
    PROVE  LET b == [s EXCEPT !.seq = @ + 1, !.books = @ + 1]
           IN  /\ b \in RunStates /\ b.rel = s.rel /\ b.origin = s.origin
               /\ b.executed = s.executed /\ b.books = s.books + 1
<1> DEFINE c == [s EXCEPT !.seq = @ + 1]
<1>1. [c EXCEPT !.books = s.books + 1] = [s EXCEPT !.seq = @ + 1, !.books = @ + 1]
  OBVIOUS
<1>2. /\ c \in RunStates /\ c.rel = s.rel /\ c.origin = s.origin
      /\ c.executed = s.executed /\ s.books \in Nat
  BY DEF RunStates
<1> HIDE DEF c
<1>3. LET b == [c EXCEPT !.books = s.books + 1]
      IN  /\ b \in RunStates /\ b.rel = c.rel /\ b.origin = c.origin
          /\ b.executed = c.executed /\ b.books = s.books + 1
  BY <1>2 DEF RunStates
<1> QED BY <1>1, <1>2, <1>3

LEMMA BooksExecuted ==
    ASSUME NEW s \in RunStates, NEW n \in Nat
    PROVE  LET b == [s EXCEPT !.seq = @ + 1, !.books = @ + 1, !.executed = n]
           IN  /\ b \in RunStates /\ b.rel = s.rel /\ b.origin = s.origin
               /\ b.executed = n /\ b.books = s.books + 1
<1> DEFINE b == [s EXCEPT !.seq = @ + 1, !.books = @ + 1]
<1>1. [b EXCEPT !.executed = n] = [s EXCEPT !.seq = @ + 1, !.books = @ + 1, !.executed = n]
  OBVIOUS
<1>2. /\ b \in RunStates /\ b.rel = s.rel /\ b.origin = s.origin
      /\ b.executed = s.executed /\ b.books = s.books + 1
  BY Books
<1> HIDE DEF b
<1>3. LET c == [b EXCEPT !.executed = n]
      IN  /\ c \in RunStates /\ c.rel = b.rel /\ c.origin = b.origin
          /\ c.executed = n /\ c.books = b.books
  BY <1>2 DEF RunStates
<1> QED BY <1>1, <1>2, <1>3

LEMMA LegacyCycleInv ==
    ASSUME CutoverInv, LegacyCycle
    PROVE  CutoverInv'
<1>1. /\ service.kind = "legacy" /\ service # Down /\ ~Stopped /\ booked' = booked + 1
      /\ UNCHANGED <<hostVars, files, auth, evidenceVars, receipts, rm, cut, upg,
                     fastStarted, faults, undoFaults, crashes, attempts, broken, crossed>>
      /\ db' = [db EXCEPT !["legacy"].seq = @ + 1, !["legacy"].books = @ + 1]
  BY DEF LegacyCycle, Stopped, Down
<1>2. /\ db \in [Run -> RunStates] /\ db' \in [Run -> RunStates]
      /\ \A run \in Run : /\ db'[run].rel = db[run].rel /\ db'[run].origin = db[run].origin
                          /\ db'[run].executed = db[run].executed
      /\ db'["legacy"].books = db["legacy"].books + 1
  <2>1. db \in [Run -> RunStates] /\ db["legacy"] \in RunStates
    BY Names DEF CutoverInv, Host, StateShape, AuthorityShape
  <2> DEFINE booking == [db["legacy"] EXCEPT !.seq = @ + 1, !.books = @ + 1]
  <2>2. /\ booking \in RunStates /\ booking.rel = db["legacy"].rel
        /\ booking.origin = db["legacy"].origin /\ booking.executed = db["legacy"].executed
        /\ booking.books = db["legacy"].books + 1
    BY <2>1, Books
  <2>3. db' = [db EXCEPT !["legacy"] = booking]
    BY <1>1, <2>1
  <2> HIDE DEF booking
  <2> QED BY <2>1, <2>2, <2>3, Names
<1>3. files \in Files /\ files.run \in Run
  BY DEF CutoverInv, Host, StateShape, AuthorityShape, Files
<1>a. BoundShape'
  BY <1>1 DEF CutoverInv, Host, StateShape, BoundShape
<1>b. LoadedFits => LoadedFits'
  BY <1>1, LoadedFitsOn DEF hostVars
<1>4. StateShape'
  BY <1>1, <1>2, <1>a DEF CutoverInv, Host, StateShape, HostShape, AuthorityShape, EvidenceShape,
     hostVars, evidenceVars
<1>5. ~fastStarted /\ ~(auth # NoAuth /\ unit.kind = "fast") /\ booked' = db'["legacy"].books
  BY <1>1, <1>2 DEF CutoverInv, Host, Era
<1>6. Era' /\ FastHolds' /\ Installed' /\ CursorFollows'
  BY <1>1, <1>2, <1>3, <1>5, <1>b
     DEF CutoverInv, Host, Era, FastHolds, Installed, CursorFollows, hostVars, Stopped
<1>7. SameLineage /\ SameFiles
  BY <1>1, <1>2 DEF SameLineage, SameFiles
<1>8. cut # Idle => db'[cut.config].executed = 0
  BY <1>2 DEF CutoverInv, Tables, CutTable, ToolShape, CutStates
<1>9. Tables' /\ ToolShape'
  BY <1>1, <1>5, <1>7, <1>8, TablesStay DEF CutoverInv, hostVars
<1>10. Failures'
  BY <1>1 DEF CutoverInv, Failures, ToolsIdle, Assessable, hostVars
<1> QED BY <1>4, <1>6, <1>9, <1>10 DEF CutoverInv, Host

\* Where a Fast process runs, no tool is before its start.
LEMMA FastRuns ==
    ASSUME CutoverInv, service.kind = "fast"
    PROVE  /\ service # Down /\ ~Stopped /\ fastStarted
           /\ service.run = files.run /\ files.run \in Run /\ Bootstraps
           /\ db[files.run].books = booked /\ db[files.run].rel = files.manifest
           /\ cut # Idle => cut.attempted /\ files.run = cut.run /\ cut.config # files.run
<1>1. service # Down /\ ~Stopped
  BY DEF Down, Stopped
<1>2. service.run = files.run /\ files.run \in Run /\ Bootstraps
  BY DEF CutoverInv, Host, FastHolds, StateShape, AuthorityShape, Files
<1>3. fastStarted /\ db[files.run].books = booked /\ auth # NoAuth
  BY DEF CutoverInv, Host, Era
<1>4. cut # Idle => cut.attempted /\ files.run = cut.run /\ cut.config # files.run
  BY <1>3 DEF CutoverInv, Tables, CutTable
<1> QED BY <1>1, <1>2, <1>3, <1>4 DEF Bootstraps

LEMMA FastDecideInv ==
    ASSUME CutoverInv, FastDecide
    PROVE  CutoverInv'
<1>1. /\ service.kind = "fast" /\ ~DecisionWaits(service.run)
      /\ files' = [files EXCEPT !.cursor = @ + 1]
      /\ roots' = [roots EXCEPT !["decision"] = service.run]
      /\ UNCHANGED <<hostVars, auth, db, archive, history, receipts, rm, cut, upg,
                     fastStarted, boundVars>>
  BY DEF FastDecide
<1>2. files \in Files /\ files' \in Files /\ SameFiles /\ files'.cursor = files.cursor + 1
  BY <1>1 DEF CutoverInv, Host, StateShape, AuthorityShape, Files, SameFiles
<1>a. BoundShape'
  BY <1>1, NothingCounted DEF CutoverInv
<1>b. LoadedFits => LoadedFits'
  BY <1>1, <1>2, LoadedFitsOn DEF hostVars, boundVars, SameFiles
<1>3. StateShape'
  BY <1>1, <1>2, <1>a, FastRuns
     DEF CutoverInv, Host, StateShape, HostShape, AuthorityShape, EvidenceShape, hostVars
<1>4. Era' /\ FastHolds' /\ Installed'
  BY <1>1, <1>2, <1>b DEF CutoverInv, Host, Era, FastHolds, Installed, hostVars, boundVars, Stopped,
     Bootstraps, SameFiles
<1>5. CursorFollows'
  <2>1. db[files.run].executed = 0 \/ db[files.run].executed = files.cursor
    BY <1>1, FastRuns DEF DecisionWaits
  <2> QED BY <1>1, <1>2, <2>1 DEF CursorFollows, SameFiles
<1>6. SameLineage /\ (cut # Idle => db'[cut.config].executed = 0)
  BY <1>1 DEF SameLineage, CutoverInv, Tables, CutTable
<1>7. Tables' /\ ToolShape'
  BY <1>1, <1>2, <1>6, FastRuns, TablesStay DEF CutoverInv, hostVars, boundVars
<1>8. Failures'
  BY <1>1, FastRuns DEF CutoverInv, Failures, ToolsIdle, Assessable, hostVars, boundVars
<1> QED BY <1>3, <1>4, <1>5, <1>7, <1>8 DEF CutoverInv, Host

LEMMA FastExecuteInv ==
    ASSUME CutoverInv, FastExecute
    PROVE  CutoverInv'
<1>0. /\ service.kind = "fast"
      /\ db' = [db EXCEPT ![service.run].seq = @ + 1, ![service.run].books = @ + 1,
                           ![service.run].executed = files.cursor]
  BY DEF FastExecute
<1>1. /\ service.kind = "fast" /\ booked' = booked + 1
      /\ roots' = [roots EXCEPT !["execution"] = service.run]
      /\ UNCHANGED <<hostVars, files, auth, archive, history, receipts, rm, cut, upg,
                     fastStarted, faults, undoFaults, crashes, attempts, broken, crossed>>
  BY DEF FastExecute
<1>2. files \in Files /\ files.cursor \in Nat
  BY DEF CutoverInv, Host, StateShape, AuthorityShape, Files
<1>3. /\ db \in [Run -> RunStates] /\ db' \in [Run -> RunStates]
      /\ \A run \in Run : /\ db'[run].rel = db[run].rel /\ db'[run].origin = db[run].origin
                          /\ run # files.run => db'[run].executed = db[run].executed
      /\ db'[files.run].books = db[files.run].books + 1
      /\ db'[files.run].executed = files.cursor
  <2>1. db \in [Run -> RunStates] /\ db[files.run] \in RunStates /\ service.run = files.run
    BY <1>1, FastRuns DEF CutoverInv, Host, StateShape, AuthorityShape
  <2> DEFINE booking == [db[files.run] EXCEPT !.seq = @ + 1, !.books = @ + 1,
                                              !.executed = files.cursor]
  <2>2. /\ booking \in RunStates /\ booking.rel = db[files.run].rel
        /\ booking.origin = db[files.run].origin /\ booking.executed = files.cursor
        /\ booking.books = db[files.run].books + 1
    BY <1>2, <2>1, BooksExecuted
  <2>3. db' = [db EXCEPT ![files.run] = booking]
    BY <1>0, <2>1
  <2> HIDE DEF booking
  <2> QED BY <1>1, <2>1, <2>2, <2>3, FastRuns
<1>4. StateShape'
  <2>1. service.run \in Run /\ roots \in [RootNames -> Run \cup {NoRelease}]
    BY <1>1, FastRuns DEF CutoverInv, Host, StateShape, EvidenceShape
  <2>2. roots' \in [RootNames -> Run \cup {NoRelease}]
    BY <1>1, <2>1
  <2>3. BoundShape'
    BY <1>1 DEF CutoverInv, Host, StateShape, BoundShape
  <2> QED BY <1>1, <1>3, <2>2, <2>3 DEF CutoverInv, Host, StateShape, HostShape, AuthorityShape,
        EvidenceShape, hostVars
<1>b. LoadedFits => LoadedFits'
  BY <1>1, LoadedFitsOn DEF hostVars
<1>5. Bootstraps'
  BY <1>1, <1>3, FastRuns DEF Bootstraps
<1>6. FastHolds' /\ Installed' /\ CursorFollows'
  BY <1>1, <1>3, <1>5, <1>b
     DEF CutoverInv, Host, FastHolds, Installed, CursorFollows, hostVars, Stopped
<1>7. Era'
  BY <1>1, <1>3, FastRuns DEF CutoverInv, Host, Era, hostVars
<1>8. SameLineage /\ SameFiles
  BY <1>1, <1>3 DEF SameLineage, SameFiles
<1>9. cut # Idle => db'[cut.config].executed = 0
  BY <1>3, FastRuns, <1>1 DEF CutoverInv, Tables, CutTable, ToolShape, CutStates
<1>10. Tables' /\ ToolShape'
  BY <1>1, <1>8, <1>9, FastRuns, TablesStay DEF CutoverInv, hostVars
<1>11. Failures'
  BY <1>1, FastRuns DEF CutoverInv, Failures, ToolsIdle, Assessable, hostVars
<1> QED BY <1>4, <1>6, <1>7, <1>10, <1>11 DEF CutoverInv, Host

LEMMA CrashInv ==
    ASSUME CutoverInv, ToolDies \/ Reboot
    PROVE  CutoverInv'
<1>1. /\ rm' = Idle /\ cut' = Idle /\ upg' = Idle /\ crashes' = crashes + 1
      /\ UNCHANGED <<authorityVars, evidenceVars, receipts, fastStarted, booked, faults,
                     undoFaults, attempts, broken, crossed, current, unit>>
      /\ \/ ~ToolsIdle /\ UNCHANGED hostVars
         \/ loaded' = unit /\ wanted' = TRUE /\ service' = Down
  BY DEF ToolDies, Reboot, Crash, hostVars
<1>2. crashes' \in Nat /\ crashes' # 0
  BY <1>1 DEF CutoverInv, Host, StateShape, BoundShape
<1>a. BoundShape'
  BY <1>1 DEF CutoverInv, Host, StateShape, BoundShape
<1>3. StateShape'
  BY <1>1, <1>a DEF CutoverInv, Host, StateShape, HostShape, AuthorityShape, EvidenceShape,
     hostVars, authorityVars, evidenceVars, Services
<1>4. Installed' /\ CursorFollows' /\ FastHolds'
  BY <1>1, <1>2 DEF Installed, CursorFollows, FastHolds, CutoverInv, Host, authorityVars, hostVars,
     Bootstraps, Down
<1>5. Era'
  BY <1>1 DEF Era, CutoverInv, Host, authorityVars, hostVars, Down
<1>6. Tables' /\ ToolShape'
  BY <1>1 DEF Tables, RmTable, CutTable, UpgTable, ToolShape
<1>7. Failures'
  BY <1>1 DEF CutoverInv, Failures, ToolsIdle, Assessable, Bootstraps, authorityVars, hostVars
<1> QED BY <1>3, <1>4, <1>5, <1>6, <1>7 DEF CutoverInv, Host
-----------------------------------------------------------------------------
(* The physical cutover. *)

\* A step on the authority of a stopped host.
LEMMA AuthorityKeeps ==
    ASSUME Host, HostUnchanged, UNCHANGED <<evidenceVars, boundVars>>,
           receipts' \subseteq Receipts, Stopped,
           files' \in Files, auth' \in Granted \cup {NoAuth}, db' \in [Run -> RunStates],
           CursorFollows',
           fastStarted => auth' # NoAuth /\ db'[files'.run].books = booked,
           ~fastStarted => db'["legacy"].books = db["legacy"].books,
           auth' # NoAuth /\ unit.kind = "fast" => db'[files'.run].books = booked,
           auth' # NoAuth /\ loaded.kind = "fast" => unit.kind = "fast"
    PROVE  Host'
<1>1. StateShape'
  BY NothingCounted DEF Host, StateShape, HostShape, AuthorityShape, EvidenceShape,
     HostUnchanged, hostVars, evidenceVars
<1>2. FastHolds' /\ Installed'
  BY DEF FastHolds, Installed, Stopped, HostUnchanged, hostVars, boundVars, Down
<1>3. Era'
  BY DEF Host, Era, HostUnchanged, hostVars, boundVars, Stopped, Down
<1> QED BY <1>1, <1>2, <1>3 DEF Host

\* A revocation: PAPER is stopped, or the stop before it was ignored.
LEMMA RevokeKeeps ==
    ASSUME Host, HostUnchanged, UNCHANGED <<evidenceVars, boundVars, files, db>>,
           receipts' \subseteq Receipts, auth' \in Granted, auth # NoAuth,
           undoFaults = 0 => Stopped
    PROVE  Host'
<1>1. StateShape'
  BY NothingCounted DEF Host, StateShape, HostShape, AuthorityShape, EvidenceShape,
     HostUnchanged, hostVars, evidenceVars
<1>2. auth' # NoAuth
  BY DEF Granted, NoAuth
<1>3. FastHolds' /\ CursorFollows'
  BY DEF Host, FastHolds, CursorFollows, Stopped, HostUnchanged, hostVars, boundVars, Down,
     Bootstraps
<1>a. Installed'
  BY LoadedFitsOn DEF Host, Installed, Stopped, HostUnchanged, hostVars, boundVars
<1>4. Era'
  BY <1>2 DEF Host, Era, HostUnchanged, hostVars, boundVars
<1> QED BY <1>1, <1>3, <1>4, <1>a DEF Host

LEMMA OnlyCut ==
    ASSUME CutoverInv, cut # Idle
    PROVE  /\ cut \in CutStates /\ rm = Idle /\ upg = Idle
           /\ \A r \in receipts : r.ok
           /\ receipts \subseteq Receipts
           /\ CutTable /\ Host
           /\ cut.run \in Run /\ cut.run # "legacy" /\ cut.config \in Run
           /\ cut.rel \in Releases
BY Names DEF CutoverInv, ToolShape, Failures, ToolsIdle, Tables, CutStates, Host, StateShape,
   EvidenceShape

LEMMA CutAlone ==
    ASSUME CutoverInv, rm = Idle, upg = Idle, UNCHANGED <<rm, upg>>,
           cut' \in CutStates \cup {Idle},
           \A r \in receipts' : r.ok
    PROVE  ToolShape' /\ RmTable' /\ UpgTable' /\ Failures'
BY DEF ToolShape, RmTable, UpgTable, Failures

LEMMA CutIdle ==
    ASSUME cut' = Idle
    PROVE  CutTable'
BY DEF CutTable

CutSteps == CutForward \cup CutBackward

LEMMA CutMoves ==
    ASSUME CutoverInv, NEW p \in CutSteps, NEW q \in CutSteps, CutStep(p, q),
           UNCHANGED receipts
    PROVE  /\ cut' \in CutStates /\ cut' # Idle /\ cut'.pc = q /\ cut'.rel = cut.rel
           /\ cut'.run = cut.run /\ cut'.config = cut.config /\ cut'.created = cut.created
           /\ cut'.installed = cut.installed /\ cut'.attempted = cut.attempted
           /\ cut # Idle /\ cut.pc = p
           /\ UNCHANGED <<rm, upg, boundVars, evidenceVars>>
           /\ receipts' \subseteq Receipts
           /\ ToolShape' /\ RmTable' /\ UpgTable' /\ Failures'
<1>1. cut.pc # "idle"
  BY DEF CutStep, CutSteps, CutForward, CutBackward
<1>2. cut # Idle
  BY <1>1 DEF Idle
<1>3. cut' = [cut EXCEPT !.pc = q] /\ cut \in CutStates /\ cut.pc = p
  BY <1>2, OnlyCut DEF CutStep
<1>4. /\ cut' \in CutStates /\ cut'.pc = q /\ cut'.rel = cut.rel
      /\ cut'.run = cut.run /\ cut'.config = cut.config /\ cut'.created = cut.created
      /\ cut'.installed = cut.installed /\ cut'.attempted = cut.attempted
  BY <1>3 DEF CutStates, CutSteps
<1>5. cut' # Idle
  BY <1>4 DEF Idle, CutSteps, CutForward, CutBackward
<1>6. UNCHANGED <<rm, upg, boundVars, evidenceVars>>
  BY DEF CutStep
<1>7. ToolShape' /\ RmTable' /\ UpgTable' /\ Failures' /\ receipts' \subseteq Receipts
  BY <1>2, <1>4, <1>6, OnlyCut, CutAlone
<1> QED BY <1>2, <1>3, <1>4, <1>5, <1>6, <1>7

LEMMA CutPreflightInv ==
    ASSUME CutoverInv, OneToolAtATime, NEW run \in FinalRuns, CutPreflight(run)
    PROVE  CutoverInv'
<1>1. /\ rm = Idle /\ cut = Idle /\ upg = Idle /\ UNCHANGED <<rm, upg>>
      /\ cut' = [pc |-> "stop", rel |-> current, run |-> run, config |-> files.run,
                 created |-> FALSE, installed |-> FALSE, attempted |-> FALSE]
      /\ HostUnchanged
      /\ UNCHANGED <<authorityVars, evidenceVars, receipts>>
      /\ Invoke /\ crossed' \in BOOLEAN
  BY DEF CutPreflight, Invoke, ToolsIdle, HostUnchanged, CutoverInv, Host, StateShape, BoundShape
<1>2. /\ unit = [kind |-> "legacy", rel |-> current]
      /\ service = [kind |-> "legacy", rel |-> current, run |-> "legacy"]
      /\ auth = NoAuth /\ Bootstraps /\ files.manifest = current
      /\ files.run # run /\ db[files.run].executed = 0
  BY DEF CutPreflight, Pristine
<1>3. Host'
  BY <1>1, InvokeKeeps DEF CutoverInv
<1>4. cut' \in CutStates
  BY <1>1 DEF CutStates, CutForward, CutoverInv, Host, StateShape, HostShape, AuthorityShape, Files
<1>5. \A r \in receipts' : r.ok
  BY <1>1, <1>2 DEF CutoverInv, Failures, NoAuth
<1>6. ToolShape' /\ RmTable' /\ UpgTable' /\ Failures'
  BY <1>1, <1>4, <1>5, CutAlone
<1>7. /\ ~fastStarted /\ loaded.kind = "legacy"
      /\ crashes = 0 => loaded = [kind |-> "legacy", rel |-> current]
  <2>1. Era /\ Installed /\ service # Down
    BY <1>2 DEF CutoverInv, Host, Down
  <2> QED BY <1>2, <2>1 DEF Era, Installed, LoadedFits, StrayUnit, Stopped
<1>8. CutTable'
  <2>1. UNCHANGED <<current, unit, loaded, fastStarted, files, auth, db, crashes>>
    BY <1>1 DEF HostUnchanged, hostVars, authorityVars, Invoke
  <2>2. /\ files.policy = current /\ files.writer = current /\ files.decision = current
    BY <1>2 DEF Bootstraps
  <2> QED BY <1>1, <1>2, <1>7, <2>1, <2>2 DEF CutTable, CutForward
<1> QED BY <1>3, <1>6, <1>8 DEF CutoverInv, Tables

LEMMA CutStopInv ==
    ASSUME CutoverInv, CutStop \/ CutUndoStop
    PROVE  CutoverInv'
<1> PICK p \in {"stop", "undo-stop"}, q \in {"handoff", "undo-auth"} :
        CutStep(p, q) /\ SystemctlStop /\ HostOnly /\ (p = "stop" <=> q = "handoff")
  BY DEF CutStop, CutUndoStop
<1>1. p \in CutSteps /\ q \in CutSteps /\ UNCHANGED <<receipts, authorityVars>>
  BY DEF CutSteps, CutForward, CutBackward, HostOnly
<1>2. cut # Idle
  BY <1>1, CutMoves
<1>3. CutTable /\ Host /\ cut \in CutStates
  BY <1>2, OnlyCut
<1>4. Host' /\ Stopped'
  BY <1>1, <1>3, CutMoves, StopKeeps
<1>5. CutTable'
  BY <1>1, <1>3, <1>4, CutMoves
     DEF CutTable, UnitUnnoticed, ReloadUnnoticed, CutBackward, SystemctlStop, authorityVars,
         boundVars, CutForward
<1> QED BY <1>1, <1>4, <1>5, CutMoves DEF CutoverInv, Tables

LEMMA CutHandoffInv ==
    ASSUME CutoverInv, CutHandoff
    PROVE  CutoverInv'
<1> DEFINE handed == [seq |-> 0, books |-> db["legacy"].books, executed |-> 0,
                      rel |-> files.manifest, legacy |-> db["legacy"].seq,
                      origin |-> <<"legacy", db["legacy"].seq>>]
<1>1. /\ CutStep("handoff", "retarget") /\ db[cut.run] = NoRun
      /\ db' = [db EXCEPT ![cut.run] = handed]
      /\ UNCHANGED <<files, auth, receipts>> /\ HostUnchanged
  BY DEF CutHandoff
<1>2. "handoff" \in CutSteps /\ "retarget" \in CutSteps
  BY DEF CutSteps, CutForward
<1>3. cut # Idle /\ cut.pc = "handoff"
  BY <1>1, <1>2, CutMoves
<1>4. /\ CutTable /\ Host /\ cut \in CutStates /\ cut.run \in Run /\ cut.run # "legacy"
      /\ cut.config \in Run
  BY <1>3, OnlyCut
<1>5. /\ ~cut.attempted /\ Stopped /\ ~fastStarted /\ auth = NoAuth
      /\ cut.config # cut.run /\ files.manifest = cut.rel
      /\ unit = [kind |-> "legacy", rel |-> cut.rel]
  BY <1>3, <1>4 DEF CutTable, UnitUnnoticed, ReloadUnnoticed, CutBackward, CutForward
<1>6. db \in [Run -> RunStates] /\ db["legacy"] \in RunStates /\ files \in Files
  BY <1>4, Names DEF Host, StateShape, AuthorityShape
<1>7. handed \in RunStates /\ handed.books = db["legacy"].books /\ handed.executed = 0
      /\ handed.rel = cut.rel
  <2>1. <<"legacy", db["legacy"].seq>> \in Origins
    BY <1>6, Names DEF Origins, RunStates
  <2>2. files.manifest \in Bindings
    BY <1>6 DEF Files, Bindings
  <2> QED BY <1>5, <1>6, <2>1, <2>2 DEF RunStates
<1> HIDE DEF handed
<1>8. /\ db' \in [Run -> RunStates] /\ db'["legacy"] = db["legacy"] /\ db'[cut.run] = handed
      /\ \A run \in Run : run # cut.run => db'[run] = db[run]
  BY <1>1, <1>4, <1>6, <1>7, Names
<1>9. CursorFollows'
  BY <1>1, <1>4, <1>6, <1>7, <1>8 DEF CursorFollows, Host, Files
<1>10. Host'
  BY <1>1, <1>2, <1>4, <1>5, <1>6, <1>8, <1>9, CutMoves, AuthorityKeeps
     DEF Host, StateShape, AuthorityShape
<1>11. db'[cut.run].books = booked
  BY <1>4, <1>5, <1>7, <1>8 DEF Host, Era
<1>12. CutTable'
  BY <1>1, <1>2, <1>3, <1>4, <1>5, <1>7, <1>8, <1>11, CutMoves
     DEF CutTable, UnitUnnoticed, ReloadUnnoticed, CutBackward, HostUnchanged, hostVars,
         boundVars, Stopped, CutForward
<1> QED BY <1>1, <1>2, <1>10, <1>12, CutMoves DEF CutoverInv, Tables

LEMMA CutRetargetInv ==
    ASSUME CutoverInv, CutRetarget
    PROVE  CutoverInv'
<1>1. /\ CutStep("retarget", "authorize") /\ files' = [files EXCEPT !.run = cut.run]
      /\ UNCHANGED <<auth, db, receipts>> /\ HostUnchanged
  BY DEF CutRetarget
<1>2. "retarget" \in CutSteps /\ "authorize" \in CutSteps
  BY DEF CutSteps, CutForward
<1>3. cut # Idle /\ cut.pc = "retarget"
  BY <1>1, <1>2, CutMoves
<1>4. /\ CutTable /\ Host /\ cut \in CutStates /\ cut.run \in Run
  BY <1>3, OnlyCut
<1>5. /\ ~cut.attempted /\ Stopped /\ ~fastStarted /\ auth = NoAuth
      /\ db[cut.run].executed = 0
      /\ unit = [kind |-> "legacy", rel |-> cut.rel]
  BY <1>3, <1>4 DEF CutTable, UnitUnnoticed, ReloadUnnoticed, CutBackward, CutForward
<1>6. /\ files \in Files /\ files' \in Files /\ files'.run = cut.run
      /\ files'.manifest = files.manifest /\ files'.policy = files.policy
      /\ files'.writer = files.writer /\ files'.decision = files.decision
  BY <1>1, <1>4 DEF Host, StateShape, AuthorityShape, Files
<1>7. CursorFollows'
  BY <1>1, <1>5, <1>6 DEF CursorFollows
<1>8. Host'
  BY <1>1, <1>2, <1>4, <1>5, <1>6, <1>7, CutMoves, AuthorityKeeps
     DEF Host, StateShape, AuthorityShape
<1>9. CutTable'
  BY <1>1, <1>2, <1>3, <1>4, <1>5, <1>6, CutMoves
     DEF CutTable, UnitUnnoticed, ReloadUnnoticed, CutBackward, HostUnchanged, hostVars,
         boundVars, Stopped, CutForward
<1> QED BY <1>1, <1>2, <1>8, <1>9, CutMoves DEF CutoverInv, Tables

LEMMA CutAuthorizeInv ==
    ASSUME CutoverInv, CutAuthorize
    PROVE  CutoverInv'
<1>0. cut' = [cut EXCEPT !.pc = "unit", !.created = TRUE]
  BY DEF CutAuthorize
<1>1. /\ cut.pc = "authorize"
      /\ auth' = [state |-> "ACTIVE", rel |-> cut.rel, run |-> cut.run]
      /\ UNCHANGED <<files, db, receipts, rm, upg, boundVars, evidenceVars>>
      /\ HostUnchanged
  BY DEF CutAuthorize
<1>2. cut # Idle
  BY <1>1 DEF Idle
<1>3. /\ CutTable /\ Host /\ cut \in CutStates /\ cut.run \in Run /\ cut.rel \in Releases
      /\ rm = Idle /\ upg = Idle /\ (\A r \in receipts : r.ok) /\ receipts \subseteq Receipts
  BY <1>2, OnlyCut
<1>4. /\ ~cut.attempted /\ Stopped /\ ~fastStarted /\ auth = NoAuth
      /\ files.run = cut.run /\ db[cut.run].books = booked /\ db[cut.run].rel = cut.rel
      /\ unit = [kind |-> "legacy", rel |-> cut.rel] /\ loaded.kind = "legacy"
      /\ ~cut.installed
  BY <1>1, <1>2, <1>3 DEF CutTable, UnitUnnoticed, ReloadUnnoticed, CutBackward, CutForward
<1>5. /\ cut' \in CutStates /\ cut'.pc = "unit" /\ cut'.created /\ cut'.rel = cut.rel
      /\ cut'.run = cut.run /\ cut'.config = cut.config
      /\ cut'.installed = cut.installed /\ cut'.attempted = cut.attempted
  BY <1>0, <1>3 DEF CutStates, CutForward
<1>6. auth' \in Granted
  BY <1>1, <1>3 DEF Granted
<1>7. Host'
  BY <1>1, <1>3, <1>4, <1>6, AuthorityKeeps DEF Host, StateShape, AuthorityShape, CursorFollows
<1>8. CutTable'
  BY <1>1, <1>2, <1>3, <1>4, <1>5
     DEF CutTable, UnitUnnoticed, ReloadUnnoticed, CutBackward, HostUnchanged, hostVars,
         boundVars, Stopped, CutForward
<1> QED BY <1>1, <1>3, <1>5, <1>7, <1>8, CutAlone DEF CutoverInv, Tables

LEMMA CutUnitInv ==
    ASSUME CutoverInv, CutUnit
    PROVE  CutoverInv'
<1>0. cut' = [cut EXCEPT !.pc = "reload", !.installed = TRUE]
  BY DEF CutUnit
<1>1. /\ cut.pc = "unit"
      /\ InstallUnit([kind |-> "fast", rel |-> cut.rel])
      /\ UNCHANGED <<rm, upg, boundVars, authorityVars, evidenceVars, receipts>>
  BY DEF CutUnit, HostOnly
<1>2. cut # Idle
  BY <1>1 DEF Idle
<1>3. /\ CutTable /\ Host /\ cut \in CutStates /\ cut.run \in Run /\ cut.rel \in Releases
      /\ rm = Idle /\ upg = Idle /\ (\A r \in receipts : r.ok) /\ receipts \subseteq Receipts
  BY <1>2, OnlyCut
<1>4. /\ ~cut.attempted /\ Stopped /\ ~fastStarted /\ cut.created
      /\ files.run = cut.run /\ db[cut.run].books = booked
      /\ db[cut.run].rel = cut.rel /\ loaded.kind = "legacy"
  BY <1>1, <1>2, <1>3 DEF CutTable, UnitUnnoticed, ReloadUnnoticed, CutBackward, CutForward
<1>5. /\ cut' \in CutStates /\ cut'.pc = "reload" /\ cut'.created /\ cut'.rel = cut.rel
      /\ cut'.run = cut.run /\ cut'.config = cut.config
      /\ cut'.installed /\ cut'.attempted = cut.attempted
  BY <1>0, <1>3, <1>4 DEF CutStates, CutForward
<1>6. Host'
  BY <1>1, <1>3, <1>4, InstallKeeps DEF Units, Kind
<1>7. CutTable'
  BY <1>1, <1>2, <1>3, <1>4, <1>5
     DEF CutTable, UnitUnnoticed, ReloadUnnoticed, CutBackward, InstallUnit, authorityVars,
         boundVars, Stopped, CutForward
<1> QED BY <1>1, <1>3, <1>5, <1>6, <1>7, CutAlone DEF CutoverInv, Tables

LEMMA CutReloadInv ==
    ASSUME CutoverInv, CutReload
    PROVE  CutoverInv'
<1>0. cut' = [cut EXCEPT !.pc = "start", !.attempted = TRUE]
  BY DEF CutReload
<1>1. /\ cut.pc = "reload"
      /\ DaemonReload
      /\ UNCHANGED <<rm, upg, boundVars, authorityVars, evidenceVars, receipts>>
  BY DEF CutReload, HostOnly
<1>2. cut # Idle
  BY <1>1 DEF Idle
<1>3. /\ CutTable /\ Host /\ cut \in CutStates /\ cut.run \in Run /\ cut.rel \in Releases
      /\ rm = Idle /\ upg = Idle /\ (\A r \in receipts : r.ok) /\ receipts \subseteq Receipts
  BY <1>2, OnlyCut
<1>4. /\ ~cut.attempted /\ Stopped /\ ~fastStarted /\ cut.created /\ cut.installed
      /\ unit = [kind |-> "fast", rel |-> cut.rel]
      /\ files.run = cut.run /\ db[cut.run].rel = cut.rel
  BY <1>1, <1>2, <1>3 DEF CutTable, UnitUnnoticed, ReloadUnnoticed, CutBackward, CutForward
<1>5. /\ cut' \in CutStates /\ cut'.pc = "start" /\ cut'.created /\ cut'.rel = cut.rel
      /\ cut'.run = cut.run /\ cut'.config = cut.config
      /\ cut'.installed /\ cut'.attempted
  BY <1>0, <1>3, <1>4 DEF CutStates, CutForward
<1>6. service.kind # "legacy"
  BY <1>4 DEF Stopped, Down
<1>7. Host'
  BY <1>1, <1>3, <1>4, <1>6, ReloadKeeps
<1>8. CutTable'
  BY <1>1, <1>2, <1>3, <1>4, <1>5
     DEF CutTable, UnitUnnoticed, ReloadUnnoticed, CutBackward, DaemonReload, authorityVars,
         boundVars, Stopped, CutForward
<1> QED BY <1>1, <1>3, <1>5, <1>7, <1>8, CutAlone DEF CutoverInv, Tables

LEMMA CutStartInv ==
    ASSUME CutoverInv, CutStart
    PROVE  CutoverInv'
<1>1. /\ CutStep("start", "observe") /\ SystemctlStart
      /\ UNCHANGED <<authorityVars, receipts>>
  BY DEF CutStart, HostOnly
<1>2. "start" \in CutSteps /\ "observe" \in CutSteps
  BY DEF CutSteps, CutForward
<1>3. cut # Idle /\ cut.pc = "start"
  BY <1>1, <1>2, CutMoves
<1>4. /\ CutTable /\ Host /\ cut \in CutStates
  BY <1>3, OnlyCut
<1>5. /\ cut.attempted /\ loaded = unit /\ unit = [kind |-> "fast", rel |-> cut.rel]
      /\ current = cut.rel /\ files.manifest = cut.rel
  BY <1>3, <1>4 DEF CutTable
<1>6. Host'
  <2>1. LoadedFits
    BY <1>5 DEF LoadedFits
  <2> QED BY <1>1, <1>2, <1>4, <1>5, <2>1, CutMoves, StartKeeps
<1>7. CutTable'
  BY <1>1, <1>2, <1>3, <1>4, <1>5, CutMoves
     DEF CutTable, UnitUnnoticed, ReloadUnnoticed, CutBackward, SystemctlStart, authorityVars,
         boundVars, CutForward
<1> QED BY <1>1, <1>2, <1>6, <1>7, CutMoves DEF CutoverInv, Tables

LEMMA CutCompleteInv ==
    ASSUME CutoverInv, CutComplete
    PROVE  CutoverInv'
<1>1. /\ cut.pc = "observe" /\ cut' = Idle
      /\ receipts' = receipts \cup
            {[tool |-> "cutover", from |-> cut.rel, to |-> cut.rel, ok |-> TRUE]}
      /\ UNCHANGED <<authorityVars, evidenceVars, rm, upg, boundVars>>
      /\ HostUnchanged
  BY DEF CutComplete, CutReceipt
<1>2. cut # Idle
  BY <1>1 DEF Idle
<1>3. /\ Host /\ cut.rel \in Releases
      /\ rm = Idle /\ upg = Idle /\ (\A r \in receipts : r.ok) /\ receipts \subseteq Receipts
  BY <1>2, OnlyCut
<1>4. receipts' \subseteq Receipts /\ \A r \in receipts' : r.ok
  <2> DEFINE last == [tool |-> "cutover", from |-> cut.rel, to |-> cut.rel, ok |-> TRUE]
  <2>1. last \in Receipts /\ last.ok
    BY <1>3 DEF Receipts
  <2>2. receipts' = receipts \cup {last}
    BY <1>1
  <2> HIDE DEF last
  <2>3. receipts' \subseteq Receipts
    BY <1>3, <2>1, <2>2
  <2>4. \A r \in receipts' : r.ok
    BY <1>3, <2>1, <2>2, Zenon
  <2> QED BY <2>3, <2>4
<1>5. Host'
  BY <1>1, <1>3, <1>4, UncountedKeeps
<1> QED BY <1>1, <1>3, <1>4, <1>5, CutAlone, CutIdle DEF CutoverInv, Tables

LEMMA CutRevokeInv ==
    ASSUME CutoverInv, CutRevoke
    PROVE  CutoverInv'
<1>1. /\ cut.attempted /\ CutStep("undo-auth", "undo-receipt")
      /\ UNCHANGED <<files, db, receipts>> /\ HostUnchanged
  BY DEF CutRevoke
<1>2. "undo-auth" \in CutSteps /\ "undo-receipt" \in CutSteps
  BY DEF CutSteps, CutBackward
<1>3. cut # Idle /\ cut.pc = "undo-auth"
  BY <1>1, <1>2, CutMoves
<1>4. /\ CutTable /\ Host /\ cut \in CutStates /\ cut.run \in Run /\ cut.rel \in Releases
  BY <1>3, OnlyCut
<1>5. /\ undoFaults = 0 => Stopped
      /\ cut.created
      /\ auth = [state |-> "ACTIVE", rel |-> cut.rel, run |-> cut.run]
  BY <1>1, <1>3, <1>4 DEF CutTable
<1>6. /\ auth' = [state |-> "REVOKED", rel |-> cut.rel, run |-> cut.run]
      /\ auth' \in Granted /\ auth # NoAuth /\ auth' # NoAuth
  BY <1>4, <1>5 DEF Granted, NoAuth, CutRevoke
<1>7. Host'
  BY <1>1, <1>2, <1>4, <1>5, <1>6, CutMoves, RevokeKeeps
<1>8. CutTable'
  BY <1>1, <1>2, <1>3, <1>4, <1>5, <1>6, CutMoves
     DEF CutTable, UnitUnnoticed, ReloadUnnoticed, CutBackward, HostUnchanged, hostVars,
         boundVars, Stopped, CutForward
<1> QED BY <1>1, <1>2, <1>7, <1>8, CutMoves DEF CutoverInv, Tables

LEMMA CutRemoveAuthorizationInv ==
    ASSUME CutoverInv, CutRemoveAuthorization
    PROVE  CutoverInv'
<1> DEFINE next == IF cut.installed THEN "undo-unit" ELSE "undo-config"
<1>1. /\ ~cut.attempted /\ CutStep("undo-auth", next)
      /\ UNCHANGED <<files, db, receipts>> /\ HostUnchanged
      /\ auth' = IF cut.created THEN NoAuth ELSE auth
  BY DEF CutRemoveAuthorization
<1>2. /\ "undo-auth" \in CutSteps /\ next \in CutSteps
      /\ cut.installed => next = "undo-unit"
      /\ ~cut.installed => next = "undo-config"
  BY DEF CutSteps, CutBackward
<1> HIDE DEF next
<1>3. cut # Idle /\ cut.pc = "undo-auth"
  BY <1>1, <1>2, CutMoves
<1>4. /\ CutTable /\ Host /\ cut \in CutStates
  BY <1>3, OnlyCut
<1>5. Stopped /\ ~fastStarted /\ auth' = NoAuth
  BY <1>1, <1>3, <1>4 DEF CutTable
<1>6. Host'
  BY <1>1, <1>2, <1>4, <1>5, CutMoves, AuthorityKeeps
     DEF Host, StateShape, AuthorityShape, CursorFollows
<1>7. CutTable'
  BY <1>1, <1>2, <1>3, <1>4, <1>5, CutMoves
     DEF CutTable, UnitUnnoticed, ReloadUnnoticed, CutBackward, HostUnchanged, hostVars,
         boundVars, Stopped, CutForward
<1> QED BY <1>1, <1>2, <1>6, <1>7, CutMoves DEF CutoverInv, Tables

\* The legacy runtime is put back: unit, manager, configuration, start.
LEMMA CutRestoreInv ==
    ASSUME CutoverInv, CutRestore
    PROVE  CutoverInv'
<1>a. {"undo-unit", "undo-reload", "undo-config", "undo-start"} \subseteq CutSteps
  BY DEF CutSteps, CutBackward
<1>1. CASE CutStep("undo-unit", "undo-reload")
           /\ InstallUnit([kind |-> "legacy", rel |-> cut.rel]) /\ HostOnly
  <2>1. UNCHANGED <<authorityVars, receipts>>
    BY <1>1 DEF HostOnly
  <2>2. cut # Idle /\ cut.pc = "undo-unit"
    BY <1>1, <1>a, <2>1, CutMoves
  <2>3. CutTable /\ Host /\ cut.rel \in Releases
    BY <2>2, OnlyCut
  <2>4. Stopped /\ ~fastStarted /\ auth = NoAuth /\ ~cut.attempted
    BY <2>2, <2>3 DEF CutTable
  <2>5. [kind |-> "legacy", rel |-> cut.rel] \in Units
    BY <2>3 DEF Units, Kind
  <2>6. Host'
    BY <1>1, <1>a, <2>1, <2>3, <2>4, <2>5, CutMoves, InstallKeeps
  <2>7. CutTable'
    BY <1>1, <1>a, <2>1, <2>2, <2>3, <2>4, CutMoves
       DEF CutTable, UnitUnnoticed, ReloadUnnoticed, CutBackward, InstallUnit, authorityVars,
           boundVars, Stopped, CutForward
  <2> QED BY <1>1, <1>a, <2>1, <2>6, <2>7, CutMoves DEF CutoverInv, Tables
<1>2. CASE CutStep("undo-reload", "undo-config") /\ DaemonReload /\ HostOnly
  <2>1. UNCHANGED <<authorityVars, receipts>>
    BY <1>2 DEF HostOnly
  <2>2. cut # Idle /\ cut.pc = "undo-reload"
    BY <1>2, <1>a, <2>1, CutMoves
  <2>3. CutTable /\ Host
    BY <2>2, OnlyCut
  <2>4. /\ Stopped /\ ~fastStarted /\ auth = NoAuth /\ ~cut.attempted
        /\ unit = [kind |-> "legacy", rel |-> cut.rel]
    BY <2>2, <2>3 DEF CutTable
  <2>5. Host'
    BY <1>2, <1>a, <2>1, <2>3, <2>4, CutMoves, ReloadKeeps
  <2>6. CutTable'
    BY <1>2, <1>a, <2>1, <2>2, <2>3, <2>4, CutMoves
       DEF CutTable, UnitUnnoticed, ReloadUnnoticed, CutBackward, DaemonReload, authorityVars,
           boundVars, Stopped, CutForward
  <2> QED BY <1>2, <1>a, <2>1, <2>5, <2>6, CutMoves DEF CutoverInv, Tables
<1>3. CASE /\ CutStep("undo-config", "undo-start")
           /\ files' = [files EXCEPT !.run = cut.config]
           /\ UNCHANGED <<auth, db, receipts>>
           /\ HostUnchanged
  <2>1. cut # Idle /\ cut.pc = "undo-config"
    BY <1>3, <1>a, CutMoves
  <2>2. CutTable /\ Host /\ cut.config \in Run
    BY <2>1, OnlyCut
  <2>3. /\ Stopped /\ ~fastStarted /\ auth = NoAuth /\ ~cut.attempted
        /\ db[cut.config].executed = 0
    BY <2>1, <2>2 DEF CutTable
  <2>4. /\ files \in Files /\ files' \in Files /\ files'.run = cut.config
        /\ files'.manifest = files.manifest /\ files'.policy = files.policy
        /\ files'.writer = files.writer /\ files'.decision = files.decision
    BY <1>3, <2>2 DEF Host, StateShape, AuthorityShape, Files
  <2>5. CursorFollows'
    BY <1>3, <2>3, <2>4 DEF CursorFollows
  <2>6. Host'
    BY <1>3, <1>a, <2>2, <2>3, <2>4, <2>5, CutMoves, AuthorityKeeps
       DEF Host, StateShape, AuthorityShape
  <2>7. CutTable'
    BY <1>3, <1>a, <2>1, <2>2, <2>3, <2>4, CutMoves
       DEF CutTable, UnitUnnoticed, ReloadUnnoticed, CutBackward, HostUnchanged, hostVars,
           boundVars, Stopped, CutForward
  <2> QED BY <1>3, <1>a, <2>6, <2>7, CutMoves DEF CutoverInv, Tables
<1>4. CASE /\ cut.pc = "undo-start" /\ cut' = Idle /\ SystemctlStart
           /\ UNCHANGED <<rm, upg, boundVars>> /\ HostOnly
  <2>1. cut # Idle /\ UNCHANGED <<authorityVars, evidenceVars, receipts>>
    BY <1>4 DEF Idle, HostOnly
  <2>2. /\ CutTable /\ Host /\ rm = Idle /\ upg = Idle /\ (\A r \in receipts : r.ok)
        /\ receipts \subseteq Receipts
    BY <2>1, OnlyCut
  <2>3. /\ auth = NoAuth /\ current = cut.rel
        /\ unit = [kind |-> "legacy", rel |-> cut.rel] \/ UnitUnnoticed
        /\ crashes = 0 => loaded = [kind |-> "legacy", rel |-> cut.rel]
    BY <1>4, <2>1, <2>2 DEF CutTable, ReloadUnnoticed
  <2>a. crashes = 0 => LoadedFits
    BY <2>3 DEF LoadedFits, StrayUnit, UnitUnnoticed
  <2>4. Host'
    BY <1>4, <2>1, <2>2, <2>3, <2>a, StartKeeps
  <2> QED BY <1>4, <2>1, <2>2, <2>4, CutAlone, CutIdle DEF CutoverInv, Tables
<1> QED BY <1>1, <1>2, <1>3, <1>4 DEF CutRestore

\* After a failure receipt the retained runtime can be assessed.
LEMMA CutFailureReceiptInv ==
    ASSUME CutoverInv, CutFailureReceipt
    PROVE  CutoverInv'
<1>0. PICK last : last = [tool |-> "cutover", from |-> cut.rel, to |-> cut.rel, ok |-> FALSE]
  OBVIOUS
<1>1. /\ cut.pc = "undo-receipt" /\ cut' = Idle /\ receipts' = receipts \cup {last}
      /\ UNCHANGED <<authorityVars, evidenceVars, rm, upg, boundVars>> /\ HostUnchanged
  BY <1>0 DEF CutFailureReceipt, CutReceipt
<1>2. cut # Idle
  BY <1>1 DEF Idle
<1>3. /\ CutTable /\ Host /\ cut.rel \in Releases /\ cut.run \in Run
      /\ rm = Idle /\ upg = Idle /\ (\A r \in receipts : r.ok) /\ receipts \subseteq Receipts
  BY <1>2, OnlyCut
<1>4. last \in Receipts /\ last.to = cut.rel /\ last.tool = "cutover"
  BY <1>0, <1>3 DEF Receipts
<1>5. receipts' \subseteq Receipts /\ \A r \in receipts' : r.ok \/ r = last
  BY <1>1, <1>3, <1>4, Zenon
<1>6. Host'
  BY <1>1, <1>3, <1>5, UncountedKeeps
<1>7. /\ cut.attempted /\ cut.created
      /\ auth = [state |-> "REVOKED", rel |-> cut.rel, run |-> cut.run]
      /\ unit.kind = "fast" /\ loaded.kind = "fast" /\ current = cut.rel
      /\ undoFaults = 0 => service = Down
  BY <1>1, <1>2, <1>3 DEF CutTable, UnitUnnoticed, ReloadUnnoticed, CutBackward, Stopped
<1>8. Bootstraps /\ files.manifest = cut.rel
  <2>1. auth # NoAuth
    BY <1>7 DEF NoAuth
  <2> QED BY <1>2, <1>3, <1>7, <2>1
     DEF CutTable, UnitUnnoticed, ReloadUnnoticed, CutBackward, Bootstraps
<1>9. undoFaults = 0 => Assessable(last)
  BY <1>3, <1>4, <1>7, <1>8 DEF Assessable, Host, CursorFollows
<1>10. Assessable(last)' = Assessable(last)
  BY <1>1 DEF Assessable, Bootstraps, authorityVars, HostUnchanged, hostVars
<1>11. Failures'
  BY <1>1, <1>3, <1>5, <1>7, <1>9, <1>10
     DEF Failures, ToolsIdle, authorityVars, boundVars, HostUnchanged, hostVars
<1>12. ToolShape' /\ RmTable' /\ UpgTable' /\ CutTable'
  BY <1>1, <1>3 DEF ToolShape, RmTable, UpgTable, CutTable
<1> QED BY <1>6, <1>11, <1>12 DEF CutoverInv, Tables

LEMMA CutFailsInv ==
    ASSUME CutoverInv, CutFails
    PROVE  CutoverInv'
<1>1. /\ cut # Idle /\ UNCHANGED <<rm, upg, authorityVars, evidenceVars, receipts>>
      /\ HostUnchanged
      /\ Inject(cut.pc \notin CutForward) \/ UNCHANGED boundVars
      /\ cut.pc = "undo-stop" => Inject(TRUE)
  BY DEF CutFails, HostOnly, CutCheck, CutForward
<1>2. \/ cut' = Idle
      \/ cut.pc = "undo-stop" /\ cut' = [cut EXCEPT !.pc = "undo-auth"]
      \/ cut.pc \in CutForward \ {"stop"} /\ cut' = [cut EXCEPT !.pc = "undo-stop"]
  BY DEF CutFails
<1>3. /\ CutTable /\ Host /\ cut \in CutStates /\ cut.run \in Run
      /\ rm = Idle /\ upg = Idle /\ (\A r \in receipts : r.ok) /\ receipts \subseteq Receipts
  BY <1>1, OnlyCut
<1>4. Host'
  BY <1>1, <1>3, Injected, QuietKeeps
<1>5. CASE cut' = Idle
  BY <1>1, <1>3, <1>4, <1>5, CutAlone, CutIdle DEF CutoverInv, Tables
<1>6. ASSUME NEW q \in {"undo-auth", "undo-stop"}, cut' = [cut EXCEPT !.pc = q]
      PROVE  /\ cut' \in CutStates /\ cut'.pc = q /\ cut'.rel = cut.rel
             /\ cut'.run = cut.run /\ cut'.config = cut.config /\ cut'.created = cut.created
             /\ cut'.installed = cut.installed /\ cut'.attempted = cut.attempted
  BY <1>3, <1>6 DEF CutStates, CutBackward
<1>7. CASE cut.pc = "undo-stop" /\ cut' = [cut EXCEPT !.pc = "undo-auth"]
  <2>1. undoFaults' # 0
    BY <1>1, <1>3, <1>7 DEF Inject, Counts, CutForward, Host, StateShape, BoundShape
  <2>2. CutTable'
    BY <1>1, <1>3, <1>6, <1>7, <2>1, Injected
       DEF CutTable, UnitUnnoticed, ReloadUnnoticed, CutBackward, HostUnchanged, hostVars,
           authorityVars, Stopped, CutForward
  <2> QED BY <1>1, <1>3, <1>4, <1>6, <1>7, <2>2, CutAlone DEF CutoverInv, Tables
<1>8. CASE cut.pc \in CutForward \ {"stop"} /\ cut' = [cut EXCEPT !.pc = "undo-stop"]
  <2>1. CutTable'
    BY <1>1, <1>3, <1>6, <1>8, Injected
       DEF CutTable, UnitUnnoticed, ReloadUnnoticed, CutBackward, HostUnchanged, hostVars,
           authorityVars, Stopped, CutForward
  <2> QED BY <1>1, <1>3, <1>4, <1>6, <1>8, <2>1, CutAlone DEF CutoverInv, Tables
<1> QED BY <1>2, <1>5, <1>7, <1>8

\* A step of the cutover that took effect and was reported failed.
LEMMA CutBreaksInv ==
    ASSUME CutoverInv, CutBreaks
    PROVE  CutoverInv'
<1>1. /\ cut.pc \in CutForward /\ UNCHANGED <<rm, upg, authorityVars, evidenceVars>>
      /\ Counts(FALSE) /\ broken' = broken \cup ({cut.pc} \cap {"stop", "unit"})
  BY DEF CutBreaks, HostOnly, CutForward
<1>2. cut # Idle
  BY <1>1 DEF CutForward, Idle
<1>3. /\ CutTable /\ Host /\ cut \in CutStates /\ cut.run \in Run /\ cut.rel \in Releases
      /\ rm = Idle /\ upg = Idle /\ (\A r \in receipts : r.ok) /\ receipts \subseteq Receipts
  BY <1>2, OnlyCut
<1>4. /\ Counted /\ UNCHANGED <<undoFaults, crashes, booked>> /\ BoundShape'
      /\ undoFaults' >= undoFaults
      /\ crashes' >= crashes /\ broken \subseteq broken'
  <2>1. BoundShape
    BY <1>3 DEF Host, StateShape
  <2>2. /\ UNCHANGED <<booked, undoFaults, crashes, attempts, crossed>>
        /\ faults' = faults + 1
    BY <1>1 DEF Counts
  <2>3. BoundShape'
    BY <1>1, <2>1, <2>2 DEF BoundShape
  <2>4. undoFaults' >= undoFaults /\ crashes' >= crashes
    BY <2>1, <2>2 DEF BoundShape
  <2> QED BY <1>1, <2>2, <2>3, <2>4 DEF Counted
<1>5. CASE cut.pc = "stop"
  <2>1. SystemctlStop /\ cut' = Idle /\ UNCHANGED receipts
    BY <1>5 DEF CutBreaks, HostOnly
  <2>2. Host'
    BY <1>1, <1>3, <1>4, <2>1, StopCounted
  <2> QED BY <1>1, <1>3, <2>1, <2>2, CutAlone, CutIdle DEF CutoverInv, Tables
<1>6. CASE cut.pc # "stop"
  <2>1. cut' = [cut EXCEPT !.pc = "undo-stop"]
    BY <1>6 DEF CutBreaks
  <2>2. /\ cut' \in CutStates /\ cut'.pc = "undo-stop" /\ cut'.rel = cut.rel
        /\ cut'.run = cut.run /\ cut'.config = cut.config /\ cut'.created = cut.created
        /\ cut'.installed = cut.installed /\ cut'.attempted = cut.attempted
    BY <1>3, <2>1 DEF CutStates, CutBackward
  <2>3. CASE cut.pc = "unit"
    <3>1. InstallUnit([kind |-> "fast", rel |-> cut.rel]) /\ UNCHANGED receipts
      BY <2>3 DEF CutBreaks, HostOnly
    <3>2. /\ ~cut.attempted /\ Stopped /\ ~fastStarted /\ cut.created /\ ~cut.installed
          /\ files.run = cut.run /\ db[cut.run].books = booked
          /\ auth = [state |-> "ACTIVE", rel |-> cut.rel, run |-> cut.run]
      BY <1>2, <1>3, <2>3 DEF CutTable, CutForward
    <3>3. Host'
      BY <1>1, <1>3, <1>4, <3>1, <3>2, InstallCounted DEF Units, Kind
    <3>4. "unit" \in broken'
      BY <1>1, <2>3
    <3>5. CutTable'
      BY <1>1, <1>2, <1>3, <1>4, <2>2, <2>3, <3>1, <3>2, <3>4
         DEF CutTable, UnitUnnoticed, ReloadUnnoticed, CutBackward, InstallUnit, authorityVars,
             Stopped, CutForward
    <3> QED BY <1>1, <1>3, <2>2, <3>1, <3>3, <3>5, CutAlone DEF CutoverInv, Tables
  <2>4. CASE cut.pc = "reload"
    <3>1. DaemonReload /\ UNCHANGED receipts
      BY <2>4 DEF CutBreaks, HostOnly
    <3>2. /\ ~cut.attempted /\ Stopped /\ ~fastStarted /\ cut.created /\ cut.installed
          /\ unit = [kind |-> "fast", rel |-> cut.rel]
      BY <1>2, <1>3, <2>4 DEF CutTable, CutForward
    <3>3. Host'
      BY <1>1, <1>3, <1>4, <3>1, <3>2, ReloadCounted DEF Stopped, Down
    <3>4. CutTable'
      BY <1>1, <1>2, <1>3, <1>4, <2>2, <2>4, <3>1, <3>2
         DEF CutTable, UnitUnnoticed, ReloadUnnoticed, CutBackward, DaemonReload, authorityVars,
             Stopped, CutForward
    <3> QED BY <1>1, <1>3, <2>2, <3>1, <3>3, <3>4, CutAlone DEF CutoverInv, Tables
  <2>5. CASE cut.pc = "observe"
    <3>0. PICK last : last = CutReceipt(TRUE)
      OBVIOUS
    <3>1. HostUnchanged /\ receipts' = receipts \cup {last}
      BY <2>5, <3>0 DEF CutBreaks
    <3>2. last \in Receipts /\ last.ok
      BY <1>3, <3>0 DEF Receipts, CutReceipt
    <3>3. receipts' \subseteq Receipts
      BY <1>3, <3>1, <3>2
    <3>4. \A r \in receipts' : r.ok
      BY <1>3, <3>1, <3>2, Zenon
    <3>5. Host'
      BY <1>1, <1>3, <1>4, <3>1, <3>3, QuietKeeps
    <3>6. CutTable'
      BY <1>1, <1>2, <1>3, <1>4, <2>2, <2>5, <3>1
         DEF CutTable, UnitUnnoticed, ReloadUnnoticed, CutBackward, HostUnchanged, hostVars,
             authorityVars, Stopped, CutForward
    <3> QED BY <1>1, <1>3, <2>2, <3>4, <3>5, <3>6, CutAlone DEF CutoverInv, Tables
  <2> QED BY <1>6, <2>3, <2>4, <2>5 DEF CutBreaks
<1> QED BY <1>5, <1>6

LEMMA CutInv ==
    ASSUME CutoverInv, CutNext \/ CutFails \/ CutBreaks
    PROVE  CutoverInv'
BY CutStopInv, CutHandoffInv, CutRetargetInv, CutAuthorizeInv, CutUnitInv, CutReloadInv,
   CutStartInv, CutCompleteInv, CutRevokeInv, CutRemoveAuthorizationInv, CutRestoreInv,
   CutFailureReceiptInv, CutFailsInv, CutBreaksInv
   DEF CutNext
-----------------------------------------------------------------------------
(* The release upgrade. *)

LEMMA OnlyUpg ==
    ASSUME CutoverInv, upg # Idle
    PROVE  /\ upg \in UpgStates /\ rm = Idle /\ cut = Idle
           /\ \A r \in receipts : r.ok
           /\ receipts \subseteq Receipts
           /\ UpgTable /\ Host
           /\ upg.run \in Run /\ upg.to \in Run /\ upg.from \in Run
           /\ upg.to \in Releases /\ upg.from \in Releases
           /\ fastStarted /\ auth # NoAuth /\ unit.kind = "fast" /\ loaded.kind = "fast"
           /\ db[files.run].books = booked
<1>1. /\ upg \in UpgStates /\ rm = Idle /\ cut = Idle /\ (\A r \in receipts : r.ok)
      /\ receipts \subseteq Receipts /\ UpgTable /\ Host
  BY DEF CutoverInv, ToolShape, Failures, ToolsIdle, Tables, Host, StateShape, EvidenceShape
<1>2. /\ upg.run \in Run /\ upg.to \in Run /\ upg.from \in Run
      /\ upg.to \in Releases /\ upg.from \in Releases
  BY <1>1, Names DEF UpgStates
<1>3. fastStarted
  BY <1>1 DEF UpgTable
<1> QED BY <1>1, <1>2, <1>3 DEF Host, Era

LEMMA Saved ==
    ASSUME upg \in UpgStates, upg.saved # <<>>
    PROVE  upg.saved[1] \in Files /\ upg.saved[2] \in Granted
BY DEF UpgStates, Snapshots

LEMMA UpgAlone ==
    ASSUME rm = Idle, cut = Idle, UNCHANGED <<rm, cut>>,
           upg' \in UpgStates \cup {Idle},
           \A r \in receipts' : r.ok
    PROVE  ToolShape' /\ RmTable' /\ CutTable' /\ Failures'
BY DEF ToolShape, RmTable, CutTable, Failures

LEMMA UpgIdle ==
    ASSUME upg' = Idle
    PROVE  UpgTable'
BY DEF UpgTable

UpgSteps == UpgForward \cup UpgBackward

\* A tool's record after a step is the same but for where it stands.
UpgSame ==
    /\ upg'.to = upg.to /\ upg'.from = upg.from /\ upg'.run = upg.run
    /\ upg'.saved = upg.saved /\ upg'.moved = upg.moved
    /\ upg'.attempted = upg.attempted

LEMMA UpgMoves ==
    ASSUME CutoverInv, NEW p \in UpgSteps, NEW q \in UpgSteps, UpgStep(p, q),
           UNCHANGED receipts
    PROVE  /\ upg' \in UpgStates /\ upg' # Idle /\ upg'.pc = q /\ upg'.i = upg.i /\ UpgSame
           /\ upg # Idle /\ upg.pc = p
           /\ UNCHANGED <<rm, cut, boundVars>>
           /\ receipts' \subseteq Receipts
           /\ ToolShape' /\ RmTable' /\ CutTable' /\ Failures'
<1>1. upg.pc # "idle"
  BY DEF UpgStep, UpgSteps, UpgForward, UpgBackward
<1>2. upg # Idle
  BY <1>1 DEF Idle
<1>3. upg' = [upg EXCEPT !.pc = q] /\ upg \in UpgStates /\ upg.pc = p
  BY <1>2, OnlyUpg DEF UpgStep
<1>4. upg' \in UpgStates /\ upg'.pc = q /\ upg'.i = upg.i /\ UpgSame
  BY <1>3 DEF UpgStates, UpgSteps, UpgSame
<1>5. upg' # Idle
  BY <1>4 DEF Idle, UpgSteps, UpgForward, UpgBackward
<1>6. UNCHANGED <<rm, cut, boundVars>>
  BY DEF UpgStep
<1>7. ToolShape' /\ RmTable' /\ CutTable' /\ Failures' /\ receipts' \subseteq Receipts
  BY <1>2, <1>4, <1>6, OnlyUpg, UpgAlone
<1> QED BY <1>2, <1>3, <1>4, <1>5, <1>6, <1>7

LEMMA UpgBeginInv ==
    ASSUME CutoverInv, OneToolAtATime, NEW release \in Releases, UpgBegin(release)
    PROVE  CutoverInv'
<1>0. upg' = [pc |-> "stop", to |-> release, from |-> current, run |-> files.run,
              i |-> 1, saved |-> <<>>, moved |-> {}, attempted |-> FALSE, cursor |-> 0]
  BY DEF UpgBegin
<1>1. /\ rm = Idle /\ cut = Idle /\ upg = Idle /\ UNCHANGED <<rm, cut>>
      /\ HostUnchanged
      /\ UNCHANGED <<authorityVars, evidenceVars, receipts>>
      /\ Invoke /\ crossed' \in BOOLEAN
  BY DEF UpgBegin, Invoke, ToolsIdle, HostUnchanged, CutoverInv, Host, StateShape, BoundShape
<1>2. /\ unit = [kind |-> "fast", rel |-> current]
      /\ service = [kind |-> "fast", rel |-> current, run |-> files.run]
      /\ Authorized /\ Bootstraps /\ files.manifest = current /\ release # current
  BY DEF UpgBegin
<1>3. /\ files \in Files /\ files.run \in Run /\ auth \in Granted \cup {NoAuth}
      /\ current \in Releases
  BY DEF CutoverInv, Host, StateShape, HostShape, AuthorityShape, Files
<1>4. auth = [state |-> "ACTIVE", rel |-> current, run |-> files.run]
  BY <1>2, <1>3 DEF Authorized, Granted, NoAuth
<1>5. fastStarted
  BY <1>2 DEF CutoverInv, Host, Era
<1>6. Host'
  BY <1>1, InvokeKeeps DEF CutoverInv
<1>7. /\ upg' \in UpgStates /\ upg'.pc = "stop" /\ upg'.to = release /\ upg'.from = current
      /\ upg'.run = files.run /\ upg'.i = 1 /\ upg'.saved = <<>> /\ ~upg'.attempted
  BY <1>0, <1>3 DEF UpgStates, Snapshots, UpgForward
<1>8. \A r \in receipts' : r.ok
  BY <1>1, <1>4 DEF CutoverInv, Failures
<1>9. BoundTo(current, files.run)
  BY <1>2 DEF Bootstraps, BoundTo
<1>10. UpgTable'
  BY <1>1, <1>2, <1>4, <1>5, <1>7, <1>9
     DEF UpgTable, BoundTo, HostUnchanged, hostVars, authorityVars, UpgForward, UpgBackward
<1> QED BY <1>1, <1>6, <1>7, <1>8, <1>10, UpgAlone DEF CutoverInv, Tables

\* The rest of a table is the same when what it speaks of is.
LEMMA BoundStays ==
    ASSUME UNCHANGED <<files, db>>
    PROVE  \A r, run : BoundTo(r, run)' <=> BoundTo(r, run)
BY DEF BoundTo

LEMMA UpgStopInv ==
    ASSUME CutoverInv, UpgStop \/ UpgUndoStop
    PROVE  CutoverInv'
<1> PICK p \in {"stop", "undo-stop"}, q \in {"boundary", "undo-auth", "undo-files"} :
        /\ UpgStep(p, q) /\ SystemctlStop /\ HostOnly
        /\ p = "stop" <=> q = "boundary"
        /\ q = "undo-auth" => upg.attempted
        /\ q = "undo-files" => ~upg.attempted
  BY DEF UpgStop, UpgUndoStop
<1>1. p \in UpgSteps /\ q \in UpgSteps /\ UNCHANGED <<receipts, authorityVars, evidenceVars>>
  BY DEF UpgSteps, UpgForward, UpgBackward, HostOnly
<1>2. upg # Idle /\ upg.pc = p
  BY <1>1, UpgMoves
<1>3. UpgTable /\ Host /\ upg \in UpgStates
  BY <1>2, OnlyUpg
<1>4. Host' /\ Stopped'
  BY <1>1, <1>3, UpgMoves, StopKeeps
<1>5. UNCHANGED <<current, unit, loaded, fastStarted, files, db, auth, booked, undoFaults>>
  BY <1>1, UpgMoves DEF SystemctlStop, authorityVars, boundVars
<1>6. UpgTable'
  BY <1>1, <1>2, <1>3, <1>4, <1>5, UpgMoves, BoundStays
     DEF UpgTable, UpgSame, UpgForward, UpgBackward, RotatedTo
<1> QED BY <1>1, <1>4, <1>6, UpgMoves DEF CutoverInv, Tables

LEMMA UpgSnapshotInv ==
    ASSUME CutoverInv, UpgSnapshot
    PROVE  CutoverInv'
<1>0. upg' = [upg EXCEPT !.pc = "handoff", !.saved = <<files, auth>>, !.cursor = files.cursor]
  BY DEF UpgSnapshot
<1>1. /\ upg.pc = "boundary" /\ CleanBoundary(upg.run)
      /\ UNCHANGED <<rm, cut, boundVars, authorityVars, evidenceVars, receipts>>
      /\ HostUnchanged
  BY DEF UpgSnapshot, UpgCheck, HostOnly
<1>2. upg # Idle
  BY <1>1 DEF Idle
<1>3. /\ upg \in UpgStates /\ rm = Idle /\ cut = Idle /\ (\A r \in receipts : r.ok)
      /\ receipts \subseteq Receipts /\ UpgTable /\ Host
      /\ db[files.run].books = booked /\ auth # NoAuth
  BY <1>2, OnlyUpg
<1>4. /\ upg.saved = <<>> /\ ~upg.attempted /\ upg.i = 1 /\ Stopped
      /\ BoundTo(upg.from, upg.run) /\ current = upg.from
      /\ unit = [kind |-> "fast", rel |-> upg.from]
      /\ auth = [state |-> "ACTIVE", rel |-> upg.from, run |-> upg.run]
  <2>1. upg.saved = <<>>
    BY <1>1, <1>2, <1>3 DEF UpgTable, UpgForward
  <2> QED BY <1>1, <1>2, <1>3, <2>1 DEF UpgTable, UpgForward
<1>5. files \in Files /\ auth \in Granted /\ files.cursor \in Nat
  BY <1>3 DEF Host, StateShape, AuthorityShape, Files
<1>6. <<files, auth>> \in Snapshots /\ <<files, auth>> # <<>>
  BY <1>5 DEF Snapshots
<1>7. /\ upg' \in UpgStates /\ upg'.pc = "handoff" /\ upg'.saved = <<files, auth>>
      /\ upg'.to = upg.to /\ upg'.from = upg.from /\ upg'.run = upg.run
      /\ upg'.i = upg.i /\ upg'.attempted = upg.attempted
  BY <1>0, <1>3, <1>5, <1>6 DEF UpgStates, UpgForward
<1>8. upg'.saved # <<>> /\ upg'.saved[1] = files /\ upg'.saved[2] = auth
  BY <1>6, <1>7
<1>9. Host'
  BY <1>1, <1>3, UncountedKeeps DEF Host, StateShape, EvidenceShape
<1>10. db[upg.run].executed = files.cursor /\ db[upg.run].books = booked
  BY <1>1, <1>3, <1>4 DEF CleanBoundary, BoundTo
<1>11. UNCHANGED <<current, unit, loaded, wanted, service, fastStarted, files, db, auth, booked>>
  BY <1>1 DEF HostUnchanged, hostVars, authorityVars, boundVars
<1>12. UpgTable'
  <2>1. files.run = upg.run /\ files.manifest = upg.from /\ files.policy = upg.from
        /\ files.writer = upg.from /\ files.decision = upg.from /\ db[upg.run].rel = upg.from
    BY <1>4 DEF BoundTo
  <2>2. fastStarted /\ upg.to # upg.from
    BY <1>2, <1>3 DEF UpgTable
  <2> HIDE <1>0
  <2> QED BY <1>2, <1>4, <1>7, <1>8, <1>10, <1>11, <2>1, <2>2 DEF UpgTable, Stopped, UpgForward
<1> QED BY <1>1, <1>3, <1>7, <1>9, <1>12, UpgAlone DEF CutoverInv, Tables

LEMMA UpgHandoffInv ==
    ASSUME CutoverInv, UpgHandoff
    PROVE  CutoverInv'
<1>0. db' = [db EXCEPT ![upg.to] = Successor]
  BY DEF UpgHandoff
<1>1. /\ UpgStep("handoff", "archive")
      /\ UNCHANGED <<files, auth, evidenceVars, receipts>> /\ HostUnchanged
  BY DEF UpgHandoff
<1>2. "handoff" \in UpgSteps /\ "archive" \in UpgSteps
  BY DEF UpgSteps, UpgForward
<1>3. upg # Idle /\ upg.pc = "handoff" /\ boundVars' = boundVars
  BY <1>1, <1>2, UpgMoves
<1>4. /\ upg \in UpgStates /\ UpgTable /\ Host /\ upg.to \in Run /\ upg.run \in Run
      /\ upg.to \in Releases /\ db[files.run].books = booked /\ auth # NoAuth /\ fastStarted
      /\ unit.kind = "fast" /\ upg.to # upg.from
  BY <1>3, OnlyUpg DEF UpgTable
<1>5. /\ upg.saved # <<>> /\ ~upg.attempted /\ upg.i = 1 /\ Stopped
      /\ db[upg.run].books = booked /\ db[upg.run].executed = files.cursor
      /\ files.run = upg.run /\ db[upg.run].rel = upg.from
  <2>1. upg.saved # <<>> /\ ~upg.attempted
    BY <1>3, <1>4 DEF UpgTable, UpgForward, UpgBackward
  <2> QED BY <1>3, <1>4, <2>1 DEF UpgTable, UpgForward
<1>6. /\ db \in [Run -> RunStates] /\ db[upg.run] \in RunStates
      /\ files \in Files /\ auth \in Granted \cup {NoAuth} /\ files.cursor \in Nat
  BY <1>4 DEF Host, StateShape, AuthorityShape, Files
<1>7. /\ Successor \in RunStates /\ Successor.books = booked
      /\ Successor.executed = files.cursor /\ Successor.rel = upg.to
      /\ Successor.origin # <<>>
  <2>1. <<upg.run, db[upg.run].seq>> \in Origins /\ <<upg.run, db[upg.run].seq>> # <<>>
    BY <1>4, <1>6 DEF Origins, RunStates
  <2>2. upg.to \in Bindings
    BY <1>4 DEF Bindings
  <2> QED BY <1>5, <1>6, <2>1, <2>2 DEF RunStates, Successor
<1>8. upg.to # upg.run
  <2>1. db[upg.to] \in {NoRun, Successor}
    BY <1>3 DEF UpgHandoff, UpgCheck
  <2>2. NoRun.rel = NoRelease /\ upg.from # NoRelease
    BY <1>4, Names DEF NoRun, UpgStates
  <2> QED BY <1>4, <1>5, <1>7, <2>1, <2>2
<1>9. /\ db' \in [Run -> RunStates] /\ db'[upg.to] = Successor
      /\ \A run \in Run : run # upg.to => db'[run] = db[run]
  BY <1>0, <1>4, <1>6, <1>7
<1>10. CursorFollows' /\ db'[files'.run].books = booked
  BY <1>1, <1>4, <1>5, <1>8, <1>9 DEF CursorFollows, Host
<1>11. Host'
  BY <1>1, <1>2, <1>4, <1>5, <1>6, <1>9, <1>10, UpgMoves, AuthorityKeeps
<1>12. UNCHANGED <<current, unit, loaded, wanted, service, fastStarted, files, auth, booked>>
  BY <1>1, <1>3 DEF HostUnchanged, hostVars, boundVars
<1>13. UpgTable'
  BY <1>1, <1>2, <1>3, <1>4, <1>5, <1>7, <1>8, <1>9, <1>12, UpgMoves
     DEF UpgTable, UpgSame, UpgForward, Stopped
<1> QED BY <1>1, <1>2, <1>11, <1>13, UpgMoves DEF CutoverInv, Tables

\* A step on the evidence alone.
LEMMA EvidenceKeeps ==
    ASSUME Host, HostUnchanged, UNCHANGED authorityVars, Counted,
           receipts' \subseteq Receipts,
           roots' \in [RootNames -> Run \cup {NoRelease}],
           archive' \subseteq Members, history' \subseteq Run
    PROVE  Host'
<1>1. StateShape'
  BY DEF Host, StateShape, HostShape, AuthorityShape, EvidenceShape, Counted,
     HostUnchanged, hostVars, authorityVars
<1>2. undoFaults' = 0 => undoFaults = 0
  BY DEF Counted, Host, StateShape, BoundShape
<1>3. CursorFollows' /\ FastHolds' /\ Era'
  BY <1>2 DEF CursorFollows, FastHolds, Era, Stopped, Host, HostUnchanged,
     hostVars, authorityVars, Counted, Bootstraps
<1>4. Installed'
  BY LoadedFitsOn DEF Installed, Stopped, Host, HostUnchanged, hostVars, authorityVars, Counted
<1> QED BY <1>1, <1>3, <1>4 DEF Host

LEMMA UpgArchiveInv ==
    ASSUME CutoverInv, UpgArchive
    PROVE  CutoverInv'
<1> DEFINE root == EvidenceRoots[upg.i]
           members == archive \cup
             (IF roots[root] = NoRelease THEN {} ELSE {<<upg.run, root, roots[root]>>})
<1>1. /\ upg.pc = "archive" /\ history' = history \cup {upg.run}
      /\ archive' = members /\ roots' = [roots EXCEPT ![root] = NoRelease]
  BY DEF UpgArchive, ArchiveRoot
<1>2. upg # Idle
  BY <1>1 DEF Idle
<1>3. /\ upg \in UpgStates /\ rm = Idle /\ cut = Idle /\ (\A r \in receipts : r.ok)
      /\ receipts \subseteq Receipts /\ UpgTable /\ Host /\ upg.run \in Run
  BY <1>2, OnlyUpg
<1>4. upg.i \in 1..2 /\ ~upg.attempted /\ upg.saved # <<>>
  BY <1>1, <1>2, <1>3 DEF UpgTable, UpgForward, UpgBackward
<1>5. root \in RootNames
  BY <1>4 DEF EvidenceRoots, RootNames
<1>6. members \subseteq Members
  BY <1>3, <1>5 DEF Members, Host, StateShape, EvidenceShape
<1>7. /\ UNCHANGED <<authorityVars, receipts, rm, cut, boundVars>> /\ HostUnchanged
      /\ \/ upg' = [upg EXCEPT !.pc = "rotate", !.i = 1,
                               !.moved = {m \in members : m[1] = upg.run}]
         \/ upg.i # Len(EvidenceRoots) /\ upg' = [upg EXCEPT !.i = @ + 1]
  BY DEF UpgArchive, ArchiveRoot
<1> HIDE DEF members, root
<1>8. Host'
  <2>1. roots' \in [RootNames -> Run \cup {NoRelease}]
    BY <1>1, <1>3, <1>5 DEF Host, StateShape, EvidenceShape
  <2>2. archive' \subseteq Members /\ history' \subseteq Run
    BY <1>1, <1>3, <1>6 DEF Host, StateShape, EvidenceShape
  <2> QED BY <1>3, <1>7, <2>1, <2>2, NothingCounted, EvidenceKeeps
<1>9. UNCHANGED <<current, unit, loaded, wanted, service, fastStarted, files, db, auth, booked>>
  BY <1>7 DEF HostUnchanged, hostVars, authorityVars, boundVars
<1>10. /\ upg' \in UpgStates
       /\ \/ upg'.pc = "rotate" /\ upg'.i = 1
          \/ upg'.pc = "archive" /\ upg'.i \in 1..2
       /\ upg'.to = upg.to /\ upg'.from = upg.from /\ upg'.run = upg.run
       /\ upg'.saved = upg.saved /\ upg'.attempted = upg.attempted
  <2>1. PICK moved \in SUBSET Members : moved = {m \in members : m[1] = upg.run}
    BY <1>6
  <2>2. ASSUME upg' = [upg EXCEPT !.pc = "rotate", !.i = 1, !.moved = moved]
        PROVE  /\ upg' \in UpgStates /\ upg'.pc = "rotate" /\ upg'.i = 1
               /\ upg'.to = upg.to /\ upg'.from = upg.from /\ upg'.run = upg.run
               /\ upg'.saved = upg.saved /\ upg'.attempted = upg.attempted
    <3> DEFINE at == [upg EXCEPT !.pc = "rotate"]
               next == [at EXCEPT !.i = 1]
    <3>1. upg' = [next EXCEPT !.moved = moved]
      BY <2>2
    <3>2. /\ at \in UpgStates /\ at.pc = "rotate"
          /\ at.to = upg.to /\ at.from = upg.from /\ at.run = upg.run
          /\ at.saved = upg.saved /\ at.attempted = upg.attempted
      BY <1>3 DEF UpgStates, UpgForward
    <3> HIDE DEF at
    <3>3. /\ next \in UpgStates /\ next.pc = "rotate" /\ next.i = 1
          /\ next.to = upg.to /\ next.from = upg.from /\ next.run = upg.run
          /\ next.saved = upg.saved /\ next.attempted = upg.attempted
      BY <3>2 DEF UpgStates
    <3> HIDE DEF next
    <3> QED BY <3>1, <3>3 DEF UpgStates
  <2>3. CASE upg.i # Len(EvidenceRoots) /\ upg' = [upg EXCEPT !.i = @ + 1]
    <3>1. Len(EvidenceRoots) = 2
      BY DEF EvidenceRoots
    <3>2. upg.i + 1 \in 1..2 /\ upg.i + 1 \in 1..6
      BY <1>4, <2>3, <3>1
    <3> QED BY <1>1, <1>3, <2>3, <3>2 DEF UpgStates
  <2> QED BY <1>7, <2>1, <2>2, <2>3
<1>11. UpgTable'
  BY <1>1, <1>2, <1>3, <1>4, <1>9, <1>10, BoundStays
     DEF UpgTable, Stopped, UpgForward, UpgBackward, RotatedTo
<1> QED BY <1>3, <1>7, <1>8, <1>10, <1>11, UpgAlone DEF CutoverInv, Tables

LEMMA RotationOrder ==
    /\ Len(Rotation) = 6
    /\ Rotation[1] = "manifest" /\ Rotation[2] = "policy" /\ Rotation[3] = "writer"
    /\ Rotation[4] = "decision" /\ Rotation[5] = "run" /\ Rotation[6] = "authorization"
BY DEF Rotation

\* The tool goes on with the next file, or after the last one at q.
LEMMA NextFile ==
    ASSUME upg \in UpgStates, NEW q \in UpgSteps,
           upg' = IF upg.i = Len(Rotation) THEN [upg EXCEPT !.pc = q, !.i = 1]
                                           ELSE [upg EXCEPT !.i = @ + 1]
    PROVE  /\ upg' \in UpgStates /\ UpgSame
           /\ upg.i = 6 => upg'.pc = q /\ upg'.i = 1
           /\ upg.i # 6 => upg'.pc = upg.pc /\ upg'.i = upg.i + 1 /\ upg.i \in 1..5
<1>1. upg.i \in 1..6 /\ Len(Rotation) = 6
  BY RotationOrder DEF UpgStates
<1>2. CASE upg.i = 6
  <2> DEFINE at == [upg EXCEPT !.pc = q]
  <2>1. upg' = [at EXCEPT !.i = 1]
    BY <1>1, <1>2
  <2>2. /\ at \in UpgStates /\ at.pc = q
        /\ at.to = upg.to /\ at.from = upg.from /\ at.run = upg.run
        /\ at.saved = upg.saved /\ at.moved = upg.moved /\ at.attempted = upg.attempted
    BY DEF UpgStates, UpgSteps
  <2> HIDE DEF at
  <2>3. /\ upg' \in UpgStates /\ upg'.pc = q /\ upg'.i = 1
        /\ upg'.to = at.to /\ upg'.from = at.from /\ upg'.run = at.run
        /\ upg'.saved = at.saved /\ upg'.moved = at.moved /\ upg'.attempted = at.attempted
    BY <2>1, <2>2 DEF UpgStates
  <2> QED BY <1>2, <2>2, <2>3 DEF UpgSame
<1>3. CASE upg.i # 6
  <2>1. upg' = [upg EXCEPT !.i = upg.i + 1] /\ upg.i + 1 \in 1..6
    BY <1>1, <1>3
  <2> QED BY <1>1, <1>3, <2>1 DEF UpgStates, UpgSame
<1> QED BY <1>2, <1>3

\* One file is bound anew: the first n are bound to the release r then.
LEMMA FileBound ==
    ASSUME files \in Files, NEW n \in 1..5, NEW r \in Releases, NEW run \in Run,
           RotatedTo(r, run, n),
           NEW x, x = IF n = 5 THEN run ELSE r,
           files' = [files EXCEPT ![Rotation[n]] = x]
    PROVE  /\ files' \in Files /\ files'.cursor = files.cursor
           /\ RotatedTo(r, run, n + 1)'
           /\ files'.run \in {files.run, run}
<1>1. CASE n = 1
  BY <1>1, RotationOrder DEF Files, RotatedTo
<1>2. CASE n = 2
  BY <1>2, RotationOrder DEF Files, RotatedTo
<1>3. CASE n = 3
  BY <1>3, RotationOrder DEF Files, RotatedTo
<1>4. CASE n = 4
  BY <1>4, RotationOrder DEF Files, RotatedTo
<1>5. CASE n = 5
  BY <1>5, RotationOrder DEF Files, RotatedTo
<1> QED BY <1>1, <1>2, <1>3, <1>4, <1>5

LEMMA UpgRotateInv ==
    ASSUME CutoverInv, UpgRotate
    PROVE  CutoverInv'
<1>0. upg' = IF upg.i = Len(Rotation) THEN [upg EXCEPT !.pc = "units", !.i = 1]
                                      ELSE [upg EXCEPT !.i = @ + 1]
  BY DEF UpgRotate
<1>1. /\ upg.pc = "rotate"
      /\ UNCHANGED <<db, evidenceVars, receipts, rm, cut, boundVars>> /\ HostUnchanged
      /\ IF Rotation[upg.i] = "authorization"
         THEN /\ auth' = [state |-> "ACTIVE", rel |-> upg.to, run |-> upg.to]
              /\ UNCHANGED files
         ELSE /\ files' = [files EXCEPT ![Rotation[upg.i]] = upg.to]
              /\ UNCHANGED auth
  BY DEF UpgRotate
<1>2. upg # Idle
  BY <1>1 DEF Idle
<1>3. /\ upg \in UpgStates /\ rm = Idle /\ cut = Idle /\ (\A r \in receipts : r.ok)
      /\ receipts \subseteq Receipts /\ UpgTable /\ Host
      /\ upg.to \in Run /\ upg.to \in Releases /\ upg.run \in Run
      /\ fastStarted /\ auth # NoAuth /\ unit.kind = "fast" /\ db[files.run].books = booked
  BY <1>2, OnlyUpg
<1>4. /\ upg.saved # <<>> /\ ~upg.attempted
      /\ db[upg.to].books = booked /\ db[upg.to].executed = files.cursor
      /\ db[upg.to].rel = upg.to /\ db[upg.to].origin # <<>>
      /\ RotatedTo(upg.to, upg.to, upg.i)
  BY <1>1, <1>2, <1>3 DEF UpgTable, UpgForward, UpgBackward
<1>5. Stopped /\ db[upg.run].books = booked /\ db[upg.run].executed = files.cursor
  BY <1>2, <1>3, <1>4 DEF UpgTable
<1>6. files \in Files /\ auth \in Granted \cup {NoAuth} /\ db \in [Run -> RunStates]
  BY <1>3 DEF Host, StateShape, AuthorityShape
<1>7. "units" \in UpgSteps
  BY DEF UpgSteps, UpgForward
<1>8. /\ upg' \in UpgStates /\ UpgSame
      /\ upg.i = 6 => upg'.pc = "units" /\ upg'.i = 1
      /\ upg.i # 6 => upg'.pc = "rotate" /\ upg'.i = upg.i + 1 /\ upg.i \in 1..5
  BY <1>0, <1>1, <1>3, <1>7, NextFile
<1>9. /\ files' \in Files /\ files'.cursor = files.cursor
      /\ files'.run \in {files.run, upg.to}
      /\ auth' \in Granted \cup {NoAuth} /\ auth' # NoAuth
      /\ upg.i # 6 => RotatedTo(upg.to, upg.to, upg.i)' /\ auth' = auth
      /\ upg.i = 6 => /\ RotatedTo(upg.to, upg.to, 6)' /\ files' = files
                      /\ auth' = [state |-> "ACTIVE", rel |-> upg.to, run |-> upg.to]
  <2>1. CASE upg.i = 6
    <3>1. /\ auth' = [state |-> "ACTIVE", rel |-> upg.to, run |-> upg.to] /\ files' = files
      BY <1>1, <2>1, RotationOrder
    <3>2. auth' \in Granted /\ auth' # NoAuth
      BY <1>3, <3>1 DEF Granted, NoAuth
    <3>3. RotatedTo(upg.to, upg.to, 6)'
      BY <1>4, <1>8, <2>1, <3>1 DEF RotatedTo, UpgSame
    <3> QED BY <1>6, <2>1, <3>1, <3>2, <3>3
  <2>2. CASE upg.i # 6
    <3>1. upg.i \in 1..5 /\ Rotation[upg.i] # "authorization"
      BY <1>8, <2>2, RotationOrder
    <3>2. files' = [files EXCEPT ![Rotation[upg.i]] = upg.to] /\ auth' = auth
      BY <1>1, <3>1
    <3> PICK n \in 1..5, r \in Releases : n = upg.i /\ r = upg.to
      BY <1>3, <3>1
    <3>3. /\ files' \in Files /\ files'.cursor = files.cursor /\ RotatedTo(r, r, n + 1)'
          /\ files'.run \in {files.run, r}
      BY <1>3, <1>4, <1>6, <3>2, FileBound
    <3>4. RotatedTo(upg.to, upg.to, upg.i)'
      BY <1>8, <3>3 DEF RotatedTo, UpgSame
    <3> QED BY <1>3, <1>6, <2>2, <3>2, <3>3, <3>4
  <2> QED BY <2>1, <2>2
<1>10. CursorFollows' /\ db'[files'.run].books = booked
  BY <1>1, <1>3, <1>4, <1>9 DEF CursorFollows, Host
<1>11. Host'
  BY <1>1, <1>3, <1>5, <1>6, <1>9, <1>10, AuthorityKeeps
<1>12. UNCHANGED <<current, unit, loaded, wanted, service, fastStarted, db, booked, undoFaults>>
  BY <1>1 DEF HostUnchanged, hostVars, boundVars
<1>13. upg.i = 6 => BoundTo(upg.to, upg.to)'
  BY <1>1, <1>4, <1>8, <1>9 DEF BoundTo, RotatedTo, UpgSame
<1> HIDE <1>0, <1>1
<1>14. upg.to # upg.from /\ db[upg.run].rel = upg.from
  BY <1>2, <1>3 DEF UpgTable
<1>15. UpgTable'
  <2>1. CASE upg.i = 6
    BY <1>2, <1>3, <1>4, <1>5, <1>8, <1>9, <1>12, <1>13, <1>14, <2>1
       DEF UpgTable, Stopped, UpgForward, UpgSame
  <2>2. CASE upg.i # 6
    BY <1>2, <1>3, <1>4, <1>5, <1>8, <1>9, <1>12, <1>14, <2>2
       DEF UpgTable, Stopped, UpgForward, UpgSame
  <2> QED BY <2>1, <2>2
<1>16. UNCHANGED <<rm, cut, receipts>>
  BY <1>1
<1> QED BY <1>3, <1>8, <1>11, <1>15, <1>16, UpgAlone DEF CutoverInv, Tables

LEMMA UpgUnitsInv ==
    ASSUME CutoverInv, UpgUnits
    PROVE  CutoverInv'
<1>1. /\ UpgStep("units", "switch") /\ InstallUnit([kind |-> "fast", rel |-> upg.to])
      /\ UNCHANGED <<receipts, authorityVars, evidenceVars>>
  BY DEF UpgUnits, HostOnly
<1>2. "units" \in UpgSteps /\ "switch" \in UpgSteps
  BY DEF UpgSteps, UpgForward
<1>3. upg # Idle /\ upg.pc = "units"
  BY <1>1, <1>2, UpgMoves
<1>4. /\ UpgTable /\ Host /\ upg \in UpgStates /\ upg.to \in Releases /\ loaded.kind = "fast"
      /\ db[files.run].books = booked
  BY <1>3, OnlyUpg
<1>5. upg.saved # <<>> /\ ~upg.attempted
  BY <1>3, <1>4 DEF UpgTable, UpgForward, UpgBackward
<1>6. Stopped
  BY <1>3, <1>4, <1>5 DEF UpgTable
<1>7. [kind |-> "fast", rel |-> upg.to] \in Units
  BY <1>4 DEF Units, Kind
<1>8. Host'
  BY <1>1, <1>2, <1>4, <1>6, <1>7, UpgMoves, InstallKeeps
<1>9. /\ unit' = [kind |-> "fast", rel |-> upg.to]
      /\ UNCHANGED <<current, loaded, wanted, service, fastStarted, files, db, auth, booked,
                     undoFaults>>
  BY <1>1, <1>2, UpgMoves DEF InstallUnit, authorityVars, boundVars
<1>10. UpgTable'
  BY <1>1, <1>2, <1>3, <1>4, <1>5, <1>6, <1>9, UpgMoves, BoundStays
     DEF UpgTable, UpgSame, UpgForward, UpgBackward, Stopped
<1> QED BY <1>1, <1>2, <1>8, <1>10, UpgMoves DEF CutoverInv, Tables

LEMMA UpgSwitchInv ==
    ASSUME CutoverInv, UpgSwitch
    PROVE  CutoverInv'
<1>1. /\ UpgStep("switch", "reload") /\ SwitchTo(upg.to)
      /\ UNCHANGED <<receipts, authorityVars, evidenceVars>>
  BY DEF UpgSwitch, HostOnly
<1>2. "switch" \in UpgSteps /\ "reload" \in UpgSteps
  BY DEF UpgSteps, UpgForward
<1>3. upg # Idle /\ upg.pc = "switch"
  BY <1>1, <1>2, UpgMoves
<1>4. UpgTable /\ Host /\ upg \in UpgStates /\ upg.to \in Releases
  BY <1>3, OnlyUpg
<1>5. upg.saved # <<>> /\ ~upg.attempted
  BY <1>3, <1>4 DEF UpgTable, UpgForward, UpgBackward
<1>6. Stopped
  BY <1>3, <1>4, <1>5 DEF UpgTable
<1>7. Host'
  BY <1>1, <1>2, <1>4, <1>6, UpgMoves, SwitchKeeps
<1>8. /\ current' = upg.to
      /\ UNCHANGED <<unit, loaded, wanted, service, fastStarted, files, db, auth, booked,
                     undoFaults>>
  BY <1>1, <1>2, UpgMoves DEF SwitchTo, authorityVars, boundVars
<1>9. UpgTable'
  BY <1>1, <1>2, <1>3, <1>4, <1>5, <1>6, <1>8, UpgMoves, BoundStays
     DEF UpgTable, UpgSame, UpgForward, UpgBackward, Stopped
<1> QED BY <1>1, <1>2, <1>7, <1>9, UpgMoves DEF CutoverInv, Tables

LEMMA UpgReloadInv ==
    ASSUME CutoverInv, UpgReload
    PROVE  CutoverInv'
<1>0. upg' = [upg EXCEPT !.pc = "start", !.attempted = TRUE]
  BY DEF UpgReload
<1>1. /\ upg.pc = "reload" /\ DaemonReload
      /\ UNCHANGED <<rm, cut, boundVars, authorityVars, evidenceVars, receipts>>
  BY DEF UpgReload, HostOnly
<1>2. upg # Idle
  BY <1>1 DEF Idle
<1>3. /\ upg \in UpgStates /\ rm = Idle /\ cut = Idle /\ (\A r \in receipts : r.ok)
      /\ receipts \subseteq Receipts /\ UpgTable /\ Host /\ unit.kind = "fast"
  BY <1>2, OnlyUpg
<1>4. upg.saved # <<>> /\ ~upg.attempted
  BY <1>1, <1>2, <1>3 DEF UpgTable, UpgForward, UpgBackward
<1>5. Stopped /\ service.kind # "legacy"
  BY <1>2, <1>3, <1>4 DEF UpgTable, Stopped, Down
<1>6. /\ upg' \in UpgStates /\ upg'.pc = "start" /\ upg'.attempted
      /\ upg'.to = upg.to /\ upg'.from = upg.from /\ upg'.run = upg.run
      /\ upg'.saved = upg.saved /\ upg'.i = upg.i
  <2> DEFINE at == [upg EXCEPT !.pc = "start"]
  <2>1. upg' = [at EXCEPT !.attempted = TRUE]
    BY <1>0
  <2>2. /\ at \in UpgStates /\ at.pc = "start"
        /\ at.to = upg.to /\ at.from = upg.from /\ at.run = upg.run
        /\ at.saved = upg.saved /\ at.i = upg.i
    BY <1>3 DEF UpgStates, UpgForward
  <2> HIDE DEF at
  <2> QED BY <2>1, <2>2 DEF UpgStates
<1>7. Host'
  BY <1>1, <1>3, <1>5, ReloadKeeps
<1>8. /\ loaded' = unit
      /\ UNCHANGED <<current, unit, wanted, service, fastStarted, files, db, auth, booked,
                     undoFaults>>
  BY <1>1 DEF DaemonReload, authorityVars, boundVars
<1>9. UpgTable'
  BY <1>1, <1>2, <1>3, <1>4, <1>6, <1>8, BoundStays
     DEF UpgTable, UpgForward, UpgBackward
<1> QED BY <1>1, <1>3, <1>6, <1>7, <1>9, UpgAlone DEF CutoverInv, Tables

LEMMA UpgStartInv ==
    ASSUME CutoverInv, UpgStart
    PROVE  CutoverInv'
<1>1. /\ UpgStep("start", "verify") /\ SystemctlStart
      /\ UNCHANGED <<authorityVars, evidenceVars, receipts>>
  BY DEF UpgStart, HostOnly
<1>2. "start" \in UpgSteps /\ "verify" \in UpgSteps
  BY DEF UpgSteps, UpgForward
<1>3. upg # Idle /\ upg.pc = "start"
  BY <1>1, <1>2, UpgMoves
<1>4. /\ UpgTable /\ Host /\ upg \in UpgStates /\ loaded.kind = "fast"
  BY <1>3, OnlyUpg
<1>5. upg.attempted
  BY <1>3, <1>4 DEF UpgTable
<1>6. /\ loaded = unit /\ unit = [kind |-> "fast", rel |-> upg.to]
      /\ current = upg.to /\ files.manifest = upg.to
  BY <1>3, <1>4, <1>5 DEF UpgTable, BoundTo
<1>7. Host'
  <2>1. LoadedFits
    BY <1>6 DEF LoadedFits
  <2> QED BY <1>1, <1>2, <1>4, <1>6, <2>1, UpgMoves, StartKeeps
<1>8. /\ UNCHANGED <<current, unit, loaded, files, db, auth, booked, undoFaults>>
      /\ fastStarted => fastStarted'
  BY <1>1, <1>2, UpgMoves DEF SystemctlStart, authorityVars, boundVars
<1>9. UpgTable'
  BY <1>1, <1>2, <1>3, <1>4, <1>5, <1>8, UpgMoves, BoundStays
     DEF UpgTable, UpgSame, UpgForward, UpgBackward
<1> QED BY <1>1, <1>2, <1>7, <1>9, UpgMoves DEF CutoverInv, Tables

LEMMA UpgVerifyInv ==
    ASSUME CutoverInv, UpgVerify
    PROVE  CutoverInv'
<1>1. /\ UpgStep("verify", "observe")
      /\ UNCHANGED <<authorityVars, evidenceVars, receipts>> /\ HostUnchanged
  BY DEF UpgVerify, HostOnly
<1>2. "observe" \in UpgSteps /\ "verify" \in UpgSteps
  BY DEF UpgSteps, UpgForward
<1>3. upg # Idle /\ upg.pc = "verify"
  BY <1>1, <1>2, UpgMoves
<1>4. /\ UpgTable /\ Host /\ upg \in UpgStates
  BY <1>3, OnlyUpg
<1>5. upg.attempted
  BY <1>3, <1>4 DEF UpgTable
<1>6. Host'
  BY <1>1, <1>2, <1>4, UpgMoves, UncountedKeeps DEF Host, StateShape, EvidenceShape
<1>7. UNCHANGED <<current, unit, loaded, wanted, service, fastStarted, files, db, auth, booked,
                  undoFaults>>
  BY <1>1, <1>2, UpgMoves DEF HostUnchanged, hostVars, authorityVars, boundVars
<1>8. UpgTable'
  BY <1>1, <1>2, <1>3, <1>4, <1>5, <1>7, UpgMoves, BoundStays
     DEF UpgTable, UpgSame, UpgForward, UpgBackward
<1> QED BY <1>1, <1>2, <1>6, <1>8, UpgMoves DEF CutoverInv, Tables

LEMMA UpgCompleteInv ==
    ASSUME CutoverInv, UpgComplete
    PROVE  CutoverInv'
<1>0. PICK last : last = [tool |-> "upgrade", from |-> upg.from, to |-> upg.to, ok |-> TRUE]
  OBVIOUS
<1>1. /\ upg.pc = "observe" /\ upg' = Idle /\ receipts' = receipts \cup {last}
      /\ UNCHANGED <<authorityVars, evidenceVars, rm, cut, boundVars>>
      /\ HostUnchanged
  BY <1>0 DEF UpgComplete, UpgReceipt
<1>2. upg # Idle
  BY <1>1 DEF Idle
<1>3. /\ Host /\ upg.from \in Releases /\ upg.to \in Releases
      /\ rm = Idle /\ cut = Idle /\ (\A r \in receipts : r.ok) /\ receipts \subseteq Receipts
  BY <1>2, OnlyUpg
<1>4. last \in Receipts /\ last.ok
  BY <1>0, <1>3 DEF Receipts
<1>5. receipts' \subseteq Receipts
  BY <1>1, <1>3, <1>4
<1>6. \A r \in receipts' : r.ok
  BY <1>1, <1>3, <1>4, Zenon
<1>7. Host'
  BY <1>1, <1>3, <1>5, UncountedKeeps
<1> QED BY <1>1, <1>3, <1>6, <1>7, UpgAlone, UpgIdle DEF CutoverInv, Tables

LEMMA UpgRevokeInv ==
    ASSUME CutoverInv, UpgRevoke
    PROVE  CutoverInv'
<1>1. /\ UpgStep("undo-auth", "undo-receipt")
      /\ UNCHANGED <<files, db, evidenceVars, receipts>> /\ HostUnchanged
      /\ auth' = [state |-> "REVOKED", rel |-> upg.to, run |-> upg.to]
  BY DEF UpgRevoke
<1>2. "undo-auth" \in UpgSteps /\ "undo-receipt" \in UpgSteps
  BY DEF UpgSteps, UpgBackward
<1>3. upg # Idle /\ upg.pc = "undo-auth"
  BY <1>1, <1>2, UpgMoves
<1>4. /\ UpgTable /\ Host /\ upg \in UpgStates /\ upg.to \in Run /\ upg.to \in Releases
      /\ auth # NoAuth
  BY <1>3, OnlyUpg
<1>5. upg.attempted
  BY <1>3, <1>4 DEF UpgTable
<1>6. undoFaults = 0 => Stopped
  BY <1>3, <1>4, <1>5 DEF UpgTable
<1>7. auth' \in Granted
  BY <1>1, <1>4 DEF Granted
<1>8. Host'
  BY <1>1, <1>2, <1>4, <1>6, <1>7, UpgMoves, RevokeKeeps
<1>9. UNCHANGED <<current, unit, loaded, wanted, service, fastStarted, files, db, booked,
                  undoFaults>>
  BY <1>1, <1>2, UpgMoves DEF HostUnchanged, hostVars, boundVars
<1>10. UpgTable'
  BY <1>1, <1>2, <1>3, <1>4, <1>5, <1>6, <1>9, UpgMoves, BoundStays
     DEF UpgTable, UpgSame, UpgForward, UpgBackward, Stopped
<1> QED BY <1>1, <1>2, <1>8, <1>10, UpgMoves DEF CutoverInv, Tables

LEMMA UpgFailureReceiptInv ==
    ASSUME CutoverInv, UpgFailureReceipt
    PROVE  CutoverInv'
<1>0. PICK last : last = [tool |-> "upgrade", from |-> upg.from, to |-> upg.to, ok |-> FALSE]
  OBVIOUS
<1>1. /\ upg.pc = "undo-receipt" /\ upg' = Idle /\ receipts' = receipts \cup {last}
      /\ UNCHANGED <<authorityVars, evidenceVars, rm, cut, boundVars>> /\ HostUnchanged
  BY <1>0 DEF UpgFailureReceipt, UpgReceipt
<1>2. upg # Idle
  BY <1>1 DEF Idle
<1>3. /\ UpgTable /\ Host /\ upg.from \in Releases /\ upg.to \in Releases /\ upg.to \in Run
      /\ rm = Idle /\ cut = Idle /\ (\A r \in receipts : r.ok) /\ receipts \subseteq Receipts
  BY <1>2, OnlyUpg
<1>4. last \in Receipts /\ last.to = upg.to
  BY <1>0, <1>3 DEF Receipts
<1>5. receipts' \subseteq Receipts /\ \A r \in receipts' : r.ok \/ r = last
  BY <1>1, <1>3, <1>4, Zenon
<1>6. Host'
  BY <1>1, <1>3, <1>5, UncountedKeeps
<1>7. upg.attempted
  BY <1>1, <1>2, <1>3 DEF UpgTable
<1>8. /\ auth = [state |-> "REVOKED", rel |-> upg.to, run |-> upg.to]
      /\ unit.kind = "fast" /\ loaded.kind = "fast" /\ current = upg.to
      /\ undoFaults = 0 => service = Down
      /\ BoundTo(upg.to, upg.to) /\ db[upg.to].origin # <<>>
  BY <1>1, <1>2, <1>3, <1>7 DEF UpgTable, Stopped
<1>9. undoFaults = 0 => Assessable(last)
  BY <1>3, <1>4, <1>8 DEF Assessable, Host, CursorFollows, BoundTo, Bootstraps
<1>10. Assessable(last)' = Assessable(last)
  BY <1>1 DEF Assessable, Bootstraps, authorityVars, HostUnchanged, hostVars
<1>11. Failures'
  BY <1>1, <1>3, <1>5, <1>8, <1>9, <1>10
     DEF Failures, ToolsIdle, authorityVars, boundVars, HostUnchanged, hostVars
<1>12. ToolShape' /\ RmTable' /\ UpgTable' /\ CutTable'
  BY <1>1, <1>3 DEF ToolShape, RmTable, UpgTable, CutTable
<1> QED BY <1>6, <1>11, <1>12 DEF CutoverInv, Tables

\* The rollback before the start: the snapshot is put back file by file.
LEMMA UpgRestoreFileInv ==
    ASSUME CutoverInv, UpgRestoreFile
    PROVE  CutoverInv'
<1>0. upg' = IF upg.i = Len(Rotation) THEN [upg EXCEPT !.pc = "undo-archive", !.i = 1]
                                      ELSE [upg EXCEPT !.i = @ + 1]
  BY DEF UpgRestoreFile
<1>1. /\ upg.pc = "undo-files" /\ upg.saved # <<>>
      /\ UNCHANGED <<db, evidenceVars, receipts, rm, cut, boundVars>> /\ HostUnchanged
      /\ IF Rotation[upg.i] = "authorization"
         THEN auth' = upg.saved[2] /\ UNCHANGED files
         ELSE /\ files' = [files EXCEPT ![Rotation[upg.i]] = upg.saved[1][Rotation[upg.i]]]
              /\ UNCHANGED auth
  BY DEF UpgRestoreFile
<1>2. upg # Idle
  BY <1>1 DEF Idle
<1>3. /\ upg \in UpgStates /\ rm = Idle /\ cut = Idle /\ (\A r \in receipts : r.ok)
      /\ receipts \subseteq Receipts /\ UpgTable /\ Host
      /\ upg.run \in Run /\ upg.from \in Releases
      /\ fastStarted /\ auth # NoAuth /\ unit.kind = "fast" /\ db[files.run].books = booked
  BY <1>2, OnlyUpg
<1>4. /\ ~upg.attempted /\ upg.to # upg.from /\ db[upg.run].rel = upg.from
      /\ RotatedTo(upg.from, upg.run, upg.i)
  BY <1>1, <1>2, <1>3 DEF UpgTable
<1>5. /\ Stopped /\ db[upg.run].books = booked /\ db[upg.run].executed = files.cursor
      /\ upg.saved[1].manifest = upg.from /\ upg.saved[1].policy = upg.from
      /\ upg.saved[1].writer = upg.from /\ upg.saved[1].decision = upg.from
      /\ upg.saved[1].run = upg.run
      /\ upg.saved[2] = [state |-> "ACTIVE", rel |-> upg.from, run |-> upg.run]
  BY <1>1, <1>2, <1>3, <1>4 DEF UpgTable
<1>6. files \in Files /\ auth \in Granted \cup {NoAuth} /\ db \in [Run -> RunStates]
  BY <1>3 DEF Host, StateShape, AuthorityShape
<1>7. "undo-archive" \in UpgSteps
  BY DEF UpgSteps, UpgBackward
<1>8. /\ upg' \in UpgStates /\ UpgSame
      /\ upg.i = 6 => upg'.pc = "undo-archive" /\ upg'.i = 1
      /\ upg.i # 6 => upg'.pc = "undo-files" /\ upg'.i = upg.i + 1 /\ upg.i \in 1..5
  BY <1>0, <1>1, <1>3, <1>7, NextFile
<1>9. /\ files' \in Files /\ files'.cursor = files.cursor
      /\ files'.run \in {files.run, upg.run}
      /\ auth' \in Granted \cup {NoAuth} /\ auth' # NoAuth
      /\ RotatedTo(upg.from, upg.run, upg.i)' \/ upg.i = 6
      /\ upg.i = 6 => RotatedTo(upg.from, upg.run, 6)'
  <2>1. CASE upg.i = 6
    <3>1. /\ auth' = [state |-> "ACTIVE", rel |-> upg.from, run |-> upg.run] /\ files' = files
      BY <1>1, <1>5, <2>1, RotationOrder
    <3>2. auth' \in Granted /\ auth' # NoAuth
      BY <1>3, <3>1 DEF Granted, NoAuth
    <3>3. RotatedTo(upg.from, upg.run, 6)'
      BY <1>4, <1>8, <2>1, <3>1 DEF RotatedTo, UpgSame
    <3> QED BY <1>6, <2>1, <3>1, <3>2, <3>3
  <2>2. CASE upg.i # 6
    <3>1. upg.i \in 1..5 /\ Rotation[upg.i] # "authorization"
      BY <1>8, <2>2, RotationOrder
    <3> PICK n \in 1..5 : n = upg.i
      BY <3>1
    <3> PICK x : x = upg.saved[1][Rotation[n]]
      OBVIOUS
    <3>2. x = IF n = 5 THEN upg.run ELSE upg.from
      BY <1>5, RotationOrder
    <3>3. files' = [files EXCEPT ![Rotation[n]] = x] /\ auth' = auth
      BY <1>1, <3>1
    <3> PICK r \in Releases, run \in Run : r = upg.from /\ run = upg.run
      BY <1>3
    <3>4. /\ files' \in Files /\ files'.cursor = files.cursor /\ RotatedTo(r, run, n + 1)'
          /\ files'.run \in {files.run, run}
      BY <1>4, <1>6, <3>2, <3>3, FileBound
    <3>5. RotatedTo(upg.from, upg.run, upg.i)'
      BY <1>8, <3>4, <2>2 DEF RotatedTo, UpgSame
    <3> QED BY <1>3, <1>6, <2>2, <3>3, <3>4, <3>5
  <2> QED BY <2>1, <2>2
<1>10. CursorFollows' /\ db'[files'.run].books = booked
  BY <1>1, <1>3, <1>5, <1>9 DEF CursorFollows, Host
<1>11. Host'
  BY <1>1, <1>3, <1>5, <1>6, <1>9, <1>10, AuthorityKeeps
<1>12. UNCHANGED <<current, unit, loaded, wanted, service, fastStarted, db, booked, undoFaults>>
  BY <1>1 DEF HostUnchanged, hostVars, boundVars
<1>13. upg.i = 6 => BoundTo(upg.from, upg.run)'
  BY <1>1, <1>4, <1>8, <1>9 DEF BoundTo, RotatedTo, UpgSame
<1>14. UNCHANGED <<rm, cut, receipts>> /\ upg.saved # <<>>
  BY <1>1
<1> HIDE <1>0, <1>1
<1>15. UpgTable'
  <2>1. CASE upg.i = 6
    BY <1>2, <1>3, <1>4, <1>5, <1>8, <1>9, <1>12, <1>13, <1>14, <2>1
       DEF UpgTable, Stopped, UpgForward, UpgSame
  <2>2. CASE upg.i # 6
    BY <1>2, <1>3, <1>4, <1>5, <1>8, <1>9, <1>12, <1>14, <2>2
       DEF UpgTable, Stopped, UpgForward, UpgSame
  <2> QED BY <2>1, <2>2
<1> QED BY <1>3, <1>8, <1>11, <1>14, <1>15, UpgAlone DEF CutoverInv, Tables

\* A root that gets its members back holds the evidence they were archived of.
LEMMA RootsPutBack ==
    ASSUME roots \in [RootNames -> Run \cup {NoRelease}],
           NEW members, members \subseteq Members, PutBack(members)
    PROVE  roots' \in [RootNames -> Run \cup {NoRelease}]
<1>1. \A root \in RootNames : (\E m \in members : m[2] = root) =>
          (CHOOSE m \in members : m[2] = root)[3] \in Run \cup {NoRelease}
  <2> SUFFICES ASSUME NEW root \in RootNames, \E m \in members : m[2] = root
               PROVE  (CHOOSE m \in members : m[2] = root)[3] \in Run \cup {NoRelease}
    OBVIOUS
  <2> PICK last : last = CHOOSE m \in members : m[2] = root
    OBVIOUS
  <2>1. last \in members
    OBVIOUS
  <2>2. last[3] \in Run \cup {NoRelease}
    BY <2>1 DEF Members
  <2> QED BY <2>2
<1>2. roots' = [root \in DOMAIN roots |->
                 IF \E m \in members : m[2] = root
                 THEN (CHOOSE m \in members : m[2] = root)[3] ELSE roots[root]]
  BY DEF PutBack
<1> QED BY <1>1, <1>2

LEMMA UpgUnarchiveInv ==
    ASSUME CutoverInv, UpgUnarchive
    PROVE  CutoverInv'
<1>0. upg' = [upg EXCEPT !.pc = "undo-units"]
  BY DEF UpgUnarchive
<1>1. /\ upg.pc = "undo-archive" \/ (upg.pc = "undo-files" /\ upg.saved = <<>>)
      /\ archive' = archive \ upg.moved
      /\ history' = {run \in history : \E m \in archive' : m[1] = run}
      /\ UNCHANGED <<authorityVars, receipts, rm, cut, boundVars>> /\ HostUnchanged
      /\ PutBack(upg.moved)
  BY DEF UpgUnarchive, PutBack
<1>2. upg # Idle
  BY <1>1 DEF Idle
<1>3. /\ upg \in UpgStates /\ rm = Idle /\ cut = Idle /\ (\A r \in receipts : r.ok)
      /\ receipts \subseteq Receipts /\ UpgTable /\ Host
  BY <1>2, OnlyUpg
<1>4. ~upg.attempted
  BY <1>1, <1>2, <1>3 DEF UpgTable
<1>5. BoundTo(upg.from, upg.run)
  <2>1. CASE upg.pc = "undo-archive"
    BY <1>2, <1>3, <2>1 DEF UpgTable
  <2>2. CASE upg.saved = <<>>
    BY <1>2, <1>3, <2>2 DEF UpgTable
  <2> QED BY <1>1, <2>1, <2>2
<1>6. upg' \in UpgStates /\ upg'.pc = "undo-units" /\ upg'.i = upg.i /\ UpgSame
  BY <1>0, <1>3 DEF UpgStates, UpgSame, UpgBackward
<1>7. upg.moved \subseteq Members
  BY <1>3 DEF UpgStates
<1>8. archive' \subseteq Members /\ history' \subseteq Run
  BY <1>1, <1>3 DEF Host, StateShape, EvidenceShape
<1>9. Host'
  <2>1. roots' \in [RootNames -> Run \cup {NoRelease}]
    BY <1>1, <1>3, <1>7, RootsPutBack DEF Host, StateShape, EvidenceShape
  <2> QED BY <1>1, <1>3, <1>8, <2>1, NothingCounted, EvidenceKeeps
<1>10. UNCHANGED <<current, unit, loaded, wanted, service, fastStarted, files, db, auth, booked,
                   undoFaults>>
  BY <1>1 DEF HostUnchanged, hostVars, authorityVars, boundVars
<1>11. UpgTable'
  <2>1. BoundTo(upg.from, upg.run)'
    BY <1>5, <1>6, <1>10 DEF BoundTo, UpgSame
  <2>2. CASE upg.saved = <<>>
    BY <1>2, <1>3, <1>4, <1>6, <1>10, <2>1, <2>2 DEF UpgTable, UpgSame, UpgForward, UpgBackward
  <2>3. CASE upg.saved # <<>>
    BY <1>2, <1>3, <1>4, <1>6, <1>10, <2>1, <2>3
       DEF UpgTable, UpgSame, UpgForward, UpgBackward, Stopped
  <2> QED BY <2>2, <2>3
<1> QED BY <1>1, <1>3, <1>6, <1>9, <1>11, UpgAlone DEF CutoverInv, Tables

\* The rollback before the start goes on: unit, release, manager, start.
LEMMA UpgRestoreInv ==
    ASSUME CutoverInv, UpgRestore
    PROVE  CutoverInv'
<1>a. {"undo-units", "undo-switch", "undo-reload", "undo-start"} \subseteq UpgSteps
  BY DEF UpgSteps, UpgBackward
<1>b. ASSUME upg # Idle, upg.pc \in {"undo-units", "undo-switch", "undo-reload", "undo-start"}
      PROVE  /\ ~upg.attempted /\ BoundTo(upg.from, upg.run)
             /\ auth # NoAuth /\ fastStarted /\ service.kind # "legacy"
             /\ db[files.run].books = booked
             /\ \/ upg.saved # <<>> /\ Stopped
                \/ /\ upg.saved = <<>> /\ current = upg.from
                   /\ unit = [kind |-> "fast", rel |-> upg.from]
  <2>1. UpgTable /\ Host /\ auth # NoAuth /\ fastStarted /\ db[files.run].books = booked
    BY <1>b, OnlyUpg
  <2>2. ~upg.attempted /\ BoundTo(upg.from, upg.run)
    BY <1>b, <2>1 DEF UpgTable
  <2>3. \/ upg.saved # <<>> /\ Stopped
        \/ /\ upg.saved = <<>> /\ current = upg.from
           /\ unit = [kind |-> "fast", rel |-> upg.from]
    BY <1>b, <2>1, <2>2 DEF UpgTable
  <2> QED BY <2>1, <2>2, <2>3 DEF Host, Era
<1>1. CASE UpgStep("undo-units", "undo-switch")
           /\ InstallUnit([kind |-> "fast", rel |-> upg.from]) /\ HostOnly
  <2>1. UNCHANGED <<authorityVars, evidenceVars, receipts>>
    BY <1>1 DEF HostOnly
  <2>2. upg # Idle /\ upg.pc = "undo-units"
    BY <1>1, <1>a, <2>1, UpgMoves
  <2>3. UpgTable /\ Host /\ upg.from \in Releases /\ loaded.kind = "fast"
    BY <2>2, OnlyUpg
  <2>4. [kind |-> "fast", rel |-> upg.from] \in Units
    BY <2>3 DEF Units, Kind
  <2>5. Host'
    BY <1>1, <1>a, <1>b, <2>1, <2>2, <2>3, <2>4, UpgMoves, InstallKeeps
  <2>6. /\ unit' = [kind |-> "fast", rel |-> upg.from]
        /\ UNCHANGED <<current, loaded, wanted, service, fastStarted, files, db, auth, booked,
                       undoFaults>>
    BY <1>1, <1>a, <2>1, UpgMoves DEF InstallUnit, authorityVars, boundVars
  <2>7. UpgTable'
    BY <1>1, <1>a, <1>b, <2>1, <2>2, <2>3, <2>6, UpgMoves, BoundStays
       DEF UpgTable, UpgSame, UpgForward, UpgBackward, Stopped
  <2> QED BY <1>1, <1>a, <2>1, <2>5, <2>7, UpgMoves DEF CutoverInv, Tables
<1>2. CASE UpgStep("undo-switch", "undo-reload") /\ SwitchTo(upg.from) /\ HostOnly
  <2>1. UNCHANGED <<authorityVars, evidenceVars, receipts>>
    BY <1>2 DEF HostOnly
  <2>2. upg # Idle /\ upg.pc = "undo-switch"
    BY <1>2, <1>a, <2>1, UpgMoves
  <2>3. UpgTable /\ Host /\ upg.from \in Releases
    BY <2>2, OnlyUpg
  <2>4. Host'
    BY <1>2, <1>a, <1>b, <2>1, <2>2, <2>3, UpgMoves, SwitchKeeps
  <2>5. /\ current' = upg.from
        /\ UNCHANGED <<unit, loaded, wanted, service, fastStarted, files, db, auth, booked,
                       undoFaults>>
    BY <1>2, <1>a, <2>1, UpgMoves DEF SwitchTo, authorityVars, boundVars
  <2>6. UpgTable'
    BY <1>2, <1>a, <1>b, <2>1, <2>2, <2>3, <2>5, UpgMoves, BoundStays
       DEF UpgTable, UpgSame, UpgForward, UpgBackward, Stopped
  <2> QED BY <1>2, <1>a, <2>1, <2>4, <2>6, UpgMoves DEF CutoverInv, Tables
<1>3. CASE UpgStep("undo-reload", "undo-start") /\ DaemonReload /\ HostOnly
  <2>1. UNCHANGED <<authorityVars, evidenceVars, receipts>>
    BY <1>3 DEF HostOnly
  <2>2. upg # Idle /\ upg.pc = "undo-reload"
    BY <1>3, <1>a, <2>1, UpgMoves
  <2>3. UpgTable /\ Host /\ unit.kind = "fast" /\ loaded.kind = "fast"
    BY <2>2, OnlyUpg
  <2>0. Stopped \/ (unit.rel = current /\ files.manifest = current)
    BY <1>b, <2>2 DEF BoundTo
  <2>4. Host'
    BY <1>3, <1>a, <1>b, <2>0, <2>1, <2>2, <2>3, UpgMoves, ReloadKeeps
  <2>5. /\ loaded' = unit
        /\ UNCHANGED <<current, unit, wanted, service, fastStarted, files, db, auth, booked,
                       undoFaults>>
    BY <1>3, <1>a, <2>1, UpgMoves DEF DaemonReload, authorityVars, boundVars
  <2>6. UpgTable'
    BY <1>3, <1>a, <1>b, <2>1, <2>2, <2>3, <2>5, UpgMoves, BoundStays
       DEF UpgTable, UpgSame, UpgForward, UpgBackward, Stopped
  <2> QED BY <1>3, <1>a, <2>1, <2>4, <2>6, UpgMoves DEF CutoverInv, Tables
<1>4. CASE /\ upg.pc = "undo-start" /\ upg' = Idle /\ SystemctlStart
           /\ UNCHANGED <<rm, cut, boundVars>> /\ HostOnly
  <2>1. upg # Idle /\ UNCHANGED <<authorityVars, evidenceVars, receipts>>
    BY <1>4 DEF Idle, HostOnly
  <2>2. /\ UpgTable /\ Host /\ rm = Idle /\ cut = Idle /\ (\A r \in receipts : r.ok)
        /\ receipts \subseteq Receipts /\ loaded.kind = "fast"
    BY <2>1, OnlyUpg
  <2>3. /\ loaded = unit /\ unit = [kind |-> "fast", rel |-> upg.from]
        /\ current = upg.from /\ files.manifest = upg.from
    BY <1>4, <1>b, <2>1, <2>2 DEF UpgTable, BoundTo
  <2>4. Host'
    <3>1. LoadedFits /\ receipts' \subseteq Receipts /\ UNCHANGED boundVars
      BY <1>4, <2>1, <2>2, <2>3 DEF LoadedFits
    <3> QED BY <1>4, <2>1, <2>2, <2>3, <3>1, StartKeeps
  <2> QED BY <1>4, <2>1, <2>2, <2>4, UpgAlone, UpgIdle DEF CutoverInv, Tables
<1> QED BY <1>1, <1>2, <1>3, <1>4 DEF UpgRestore

LEMMA UpgFailsInv ==
    ASSUME CutoverInv, UpgFails
    PROVE  CutoverInv'
<1>0. \/ upg' = Idle
      \/ /\ upg.pc = "undo-stop"
         /\ upg' = [upg EXCEPT !.pc = IF upg.attempted THEN "undo-auth" ELSE "undo-files"]
      \/ upg.pc \in UpgForward /\ upg' = [upg EXCEPT !.pc = "undo-stop", !.i = 1]
  BY DEF UpgFails
<1>1. /\ upg # Idle /\ UNCHANGED <<rm, cut, authorityVars, evidenceVars, receipts>>
      /\ HostUnchanged
      /\ Inject(upg.pc \notin UpgForward) \/ UNCHANGED boundVars
      /\ upg.pc = "undo-stop" => Inject(TRUE)
  BY DEF UpgFails, HostOnly, UpgCheck, UpgForward
<1>2. /\ upg \in UpgStates /\ UpgTable /\ Host
      /\ rm = Idle /\ cut = Idle /\ (\A r \in receipts : r.ok) /\ receipts \subseteq Receipts
  BY <1>1, OnlyUpg
<1>3. Host'
  BY <1>1, <1>2, Injected, QuietKeeps
<1>4. UNCHANGED <<current, unit, loaded, wanted, service, fastStarted, files, db, auth, booked>>
  BY <1>1, <1>2, Injected DEF HostUnchanged, hostVars, authorityVars
<1>5. CASE upg' = Idle
  BY <1>1, <1>2, <1>3, <1>5, UpgAlone, UpgIdle DEF CutoverInv, Tables
<1>6. CASE /\ upg.pc = "undo-stop"
           /\ upg' = [upg EXCEPT !.pc = IF upg.attempted THEN "undo-auth" ELSE "undo-files"]
  <2>0. PICK q \in {"undo-auth", "undo-files"} :
            /\ upg' = [upg EXCEPT !.pc = q]
            /\ upg.attempted => q = "undo-auth"
            /\ ~upg.attempted => q = "undo-files"
    BY <1>6
  <2>1. undoFaults' # 0
    BY <1>1, <1>2, <1>6 DEF Inject, Counts, UpgForward, Host, StateShape, BoundShape
  <2>2. upg' \in UpgStates /\ upg'.pc = q /\ upg'.i = upg.i /\ UpgSame
    BY <1>2, <2>0 DEF UpgStates, UpgSame, UpgBackward
  <2>3. upg.i = 1
    BY <1>1, <1>2, <1>6 DEF UpgTable
  <2>4. (upg.attempted => q = "undo-auth") /\ (~upg.attempted => q = "undo-files")
    BY <2>0
  <2> HIDE <2>0
  <2>5. UpgTable'
    <3>1. upg.pc = "undo-stop"
      BY <1>6
    <3> HIDE <1>0, <1>6
    <3>2. CASE upg.attempted
      BY <1>1, <1>2, <1>4, <2>1, <2>2, <2>3, <2>4, <3>1, <3>2, BoundStays
         DEF UpgTable, UpgSame, UpgForward, UpgBackward, Stopped, RotatedTo
    <3>3. CASE ~upg.attempted
      BY <1>1, <1>2, <1>4, <2>1, <2>2, <2>3, <2>4, <3>1, <3>3, BoundStays
         DEF UpgTable, UpgSame, UpgForward, UpgBackward, Stopped, RotatedTo
    <3> QED BY <3>2, <3>3
  <2> QED BY <1>1, <1>2, <1>3, <2>2, <2>5, UpgAlone DEF CutoverInv, Tables
<1>7. CASE upg.pc \in UpgForward /\ upg' = [upg EXCEPT !.pc = "undo-stop", !.i = 1]
  <2> DEFINE at == [upg EXCEPT !.pc = "undo-stop"]
  <2>1. upg' = [at EXCEPT !.i = 1]
    BY <1>7
  <2>2. /\ at \in UpgStates /\ at.pc = "undo-stop"
        /\ at.to = upg.to /\ at.from = upg.from /\ at.run = upg.run
        /\ at.saved = upg.saved /\ at.moved = upg.moved /\ at.attempted = upg.attempted
    BY <1>2 DEF UpgStates, UpgBackward
  <2> HIDE DEF at
  <2>3. /\ upg' \in UpgStates /\ upg'.pc = "undo-stop" /\ upg'.i = 1 /\ UpgSame
    BY <2>1, <2>2 DEF UpgStates, UpgSame
  <2>4. upg.pc \in UpgForward
    BY <1>7
  <2> HIDE <1>7, <1>0
  <2>5. UpgTable'
    BY <1>1, <1>2, <1>4, <2>3, <2>4, BoundStays
       DEF UpgTable, UpgSame, UpgForward, UpgBackward, Stopped
  <2> QED BY <1>1, <1>2, <1>3, <2>3, <2>5, UpgAlone DEF CutoverInv, Tables
<1> QED BY <1>0, <1>5, <1>6, <1>7

\* The upgrade goes over to its rollback from any forward step, in the host
\* the step has left.
LEMMA UpgTurnsBack ==
    ASSUME CutoverInv, upg # Idle, upg.pc \in UpgForward,
           upg' = [upg EXCEPT !.pc = "undo-stop", !.i = 1],
           UNCHANGED <<rm, cut, current, unit, wanted, service, files, db, auth, booked,
                       undoFaults>>,
           upg.attempted => UNCHANGED loaded,
           fastStarted => fastStarted',
           \A r \in receipts' : r.ok, Host'
    PROVE  CutoverInv'
<1>1. /\ upg \in UpgStates /\ UpgTable /\ Host /\ rm = Idle /\ cut = Idle
  BY OnlyUpg
<1> DEFINE at == [upg EXCEPT !.pc = "undo-stop"]
<1>2. upg' = [at EXCEPT !.i = 1]
  OBVIOUS
<1>3. /\ at \in UpgStates /\ at.pc = "undo-stop"
      /\ at.to = upg.to /\ at.from = upg.from /\ at.run = upg.run
      /\ at.saved = upg.saved /\ at.moved = upg.moved /\ at.attempted = upg.attempted
  BY <1>1 DEF UpgStates, UpgBackward
<1> HIDE DEF at
<1>4. /\ upg' \in UpgStates /\ upg'.pc = "undo-stop" /\ upg'.i = 1 /\ UpgSame
  BY <1>2, <1>3 DEF UpgStates, UpgSame
<1>5. UpgTable'
  BY <1>1, <1>4, BoundStays DEF UpgTable, UpgSame, UpgForward, UpgBackward, Stopped
<1> QED BY <1>1, <1>4, <1>5, UpgAlone DEF CutoverInv, Tables

\* A step of the upgrade that took effect and was reported failed.
LEMMA UpgBreaksInv ==
    ASSUME CutoverInv, UpgBreaks
    PROVE  CutoverInv'
<1>1. upg.pc \in {"archive", "reload", "observe", "undo-archive"} /\ upg # Idle
  <2>1. upg.pc \in {"archive", "reload", "observe", "undo-archive"}
    BY DEF UpgBreaks
  <2>2. upg.pc # "idle"
    BY <2>1
  <2> QED BY <2>1, <2>2 DEF Idle
<1>2. /\ upg \in UpgStates /\ UpgTable /\ Host /\ fastStarted /\ unit.kind = "fast"
      /\ rm = Idle /\ cut = Idle /\ (\A r \in receipts : r.ok) /\ receipts \subseteq Receipts
      /\ upg.run \in Run /\ upg.from \in Releases /\ upg.to \in Releases
  BY <1>1, OnlyUpg
<1>3. \E undoing \in BOOLEAN : Inject(undoing)
  BY DEF UpgBreaks
<1>4. /\ Counted /\ BoundShape' /\ UNCHANGED <<booked, crashes, broken>>
      /\ undoFaults' >= undoFaults /\ crashes' >= crashes /\ broken \subseteq broken'
  BY <1>2, <1>3, Injected
<1>5. /\ roots \in [RootNames -> Run \cup {NoRelease}]
      /\ archive \subseteq Members /\ history \subseteq Run
  BY <1>2 DEF Host, StateShape, EvidenceShape
<1>6. CASE upg.pc = "undo-archive"
  <2>1. /\ upg' = Idle /\ UNCHANGED <<history>>
        /\ \E members \in SUBSET upg.moved : PutBack(members)
    BY <1>6 DEF UpgBreaks
  <2>2. PICK members \in SUBSET upg.moved : PutBack(members)
    BY <2>1
  <2>3. members \subseteq Members
    BY <1>2 DEF UpgStates
  <2>4. archive' \subseteq Members /\ history' \subseteq Run
    BY <1>5, <2>1, <2>2 DEF PutBack
  <2>5. roots' \in [RootNames -> Run \cup {NoRelease}]
    BY <1>5, <2>2, <2>3, RootsPutBack
  <2>6. UNCHANGED <<authorityVars, receipts, rm, cut>> /\ HostUnchanged
    BY <2>2 DEF PutBack
  <2>7. Host'
    BY <1>2, <1>4, <2>4, <2>5, <2>6, EvidenceKeeps
  <2> QED BY <1>2, <2>1, <2>6, <2>7, UpgAlone, UpgIdle DEF CutoverInv, Tables
<1>7. CASE upg.pc # "undo-archive"
  <2>1. upg' = [upg EXCEPT !.pc = "undo-stop", !.i = 1] /\ Inject(FALSE)
    BY <1>7 DEF UpgBreaks
  <2>2. upg.pc \in UpgForward /\ UNCHANGED undoFaults
    BY <1>1, <1>7, <2>1 DEF UpgForward, Inject, Counts
  <2>3. CASE upg.pc = "archive"
    <3>1. ArchiveRoot /\ UNCHANGED <<rm, cut>>
      BY <2>3 DEF UpgBreaks
    <3>2. upg.i \in 1..2
      BY <1>1, <1>2, <2>3 DEF UpgTable
    <3>3. PICK root \in RootNames : root = EvidenceRoots[upg.i]
      BY <3>2 DEF EvidenceRoots, RootNames
    <3>4. /\ history' = history \cup {upg.run}
          /\ archive' = archive \cup
                (IF roots[root] = NoRelease THEN {} ELSE {<<upg.run, root, roots[root]>>})
          /\ roots' = [roots EXCEPT ![root] = NoRelease]
          /\ UNCHANGED <<authorityVars, receipts>> /\ HostUnchanged
      BY <3>1, <3>3 DEF ArchiveRoot
    <3>5. /\ roots' \in [RootNames -> Run \cup {NoRelease}] /\ archive' \subseteq Members
          /\ history' \subseteq Run
      BY <1>2, <1>5, <3>3, <3>4 DEF Members
    <3>6. Host'
      BY <1>2, <1>4, <3>4, <3>5, EvidenceKeeps
    <3>7. UNCHANGED <<current, unit, loaded, wanted, service, fastStarted, files, db, auth>>
      BY <3>4 DEF HostUnchanged, hostVars, authorityVars
    <3> QED BY <1>1, <1>2, <1>4, <2>1, <2>2, <3>1, <3>4, <3>6, <3>7, UpgTurnsBack
  <2>4. CASE upg.pc = "reload"
    <3>1. DaemonReload /\ HostOnly /\ UNCHANGED <<rm, cut>>
      BY <2>4 DEF UpgBreaks
    <3>2. ~upg.attempted /\ Stopped
      BY <1>1, <1>2, <2>4 DEF UpgTable, UpgForward, UpgBackward
    <3>3. Host'
      BY <1>2, <1>4, <3>1, <3>2, ReloadCounted DEF HostOnly, Stopped, Down
    <3>4. UNCHANGED <<current, unit, wanted, service, fastStarted, files, db, auth, receipts>>
      BY <3>1 DEF DaemonReload, HostOnly, authorityVars
    <3> QED BY <1>1, <1>2, <1>4, <2>1, <2>2, <3>1, <3>2, <3>3, <3>4, UpgTurnsBack
  <2>5. CASE upg.pc = "observe"
    <3>0. PICK last : last = [tool |-> "upgrade", from |-> upg.from, to |-> upg.to, ok |-> TRUE]
      OBVIOUS
    <3>1. /\ receipts' = receipts \cup {last} /\ HostUnchanged
          /\ UNCHANGED <<authorityVars, evidenceVars, rm, cut>>
      BY <2>5, <3>0 DEF UpgBreaks, UpgReceipt
    <3>2. last \in Receipts /\ last.ok
      BY <1>2, <3>0 DEF Receipts
    <3>3. receipts' \subseteq Receipts
      BY <1>2, <3>1, <3>2
    <3>4. \A r \in receipts' : r.ok
      BY <1>2, <3>1, <3>2, Zenon
    <3>5. Host'
      BY <1>2, <1>4, <3>1, <3>3, QuietKeeps
    <3>6. UNCHANGED <<current, unit, loaded, wanted, service, fastStarted, files, db, auth>>
      BY <3>1 DEF HostUnchanged, hostVars, authorityVars
    <3> QED BY <1>1, <1>2, <1>4, <2>1, <2>2, <3>1, <3>4, <3>5, <3>6, UpgTurnsBack
  <2> QED BY <1>1, <1>7, <2>3, <2>4, <2>5
<1> QED BY <1>6, <1>7

LEMMA UpgInv ==
    ASSUME CutoverInv, UpgNext \/ UpgFails \/ UpgBreaks
    PROVE  CutoverInv'
BY UpgStopInv, UpgSnapshotInv, UpgHandoffInv, UpgArchiveInv, UpgRotateInv, UpgUnitsInv,
   UpgSwitchInv, UpgReloadInv, UpgStartInv, UpgVerifyInv, UpgCompleteInv, UpgRevokeInv,
   UpgFailureReceiptInv, UpgRestoreFileInv, UpgUnarchiveInv, UpgRestoreInv, UpgFailsInv,
   UpgBreaksInv
   DEF UpgNext

\* A Fast process that has started has started.
LEMMA FastStays ==
    ASSUME CutoverNext, fastStarted
    PROVE  fastStarted'
<1>1. \/ UNCHANGED fastStarted
      \/ SystemctlStart
  BY DEF CutoverNext, Progress, RmNext, CutNext, UpgNext, RmFails, CutFails, UpgFails,
     RmActivate, UpgBegin, CutPreflight, Invoke, SystemdRestart, ServiceDies, LegacyCycle,
     FastDecide, FastExecute, ToolDies, Reboot, Crash, HostUnchanged,
     RmStop, RmUnits, RmSwitch, RmReload, RmStart, RmHealthy, RmRollback,
     CutStop, CutHandoff, CutRetarget, CutAuthorize, CutUnit, CutReload, CutStart, CutComplete,
     CutUndoStop, CutRevoke, CutRemoveAuthorization, CutRestore, CutFailureReceipt,
     UpgStop, UpgSnapshot, UpgHandoff, UpgArchive, UpgRotate, UpgUnits, UpgSwitch, UpgReload,
     UpgStart, UpgVerify, UpgComplete, UpgReceipt, UpgUndoStop, UpgRevoke, UpgFailureReceipt,
     UpgRestoreFile, UpgUnarchive, UpgRestore, CutBreaks, UpgBreaks, ArchiveRoot, PutBack,
     SystemctlStop, InstallUnit, SwitchTo, DaemonReload
<1> QED BY <1>1 DEF SystemctlStart
-----------------------------------------------------------------------------
(* The inductive invariant, and what follows from it. *)

LEMMA CutoverInit == CutInit => CutoverInv
<1> SUFFICES ASSUME CutInit
             PROVE  CutoverInv
  OBVIOUS
<1>1. db \in [Run -> RunStates] /\ (\A run \in Run : db[run].books = 0 /\ db[run].executed = 0)
  <2> DEFINE bound == [NoRun EXCEPT !.rel = FirstRelease]
  <2>1. /\ NoRun \in RunStates /\ NoRun.books = 0 /\ NoRun.executed = 0
        /\ bound \in RunStates /\ bound.books = 0 /\ bound.executed = 0
    BY Names DEF NoRun, RunStates, Bindings, Origins
  <2>2. db = [[run \in Run |-> NoRun] EXCEPT !["provisional"] = bound]
    BY Names DEF CutInit
  <2> HIDE DEF bound
  <2> QED BY <2>1, <2>2
<1>2. /\ current = FirstRelease /\ unit = [kind |-> "legacy", rel |-> FirstRelease]
      /\ loaded = unit /\ wanted = TRUE
      /\ service = [kind |-> "legacy", rel |-> FirstRelease, run |-> "legacy"]
      /\ files = [manifest |-> FirstRelease, policy |-> FirstRelease, writer |-> FirstRelease,
                  decision |-> FirstRelease, run |-> "provisional", cursor |-> 1]
      /\ auth = NoAuth /\ archive = {} /\ history = {} /\ receipts = {}
      /\ rm = Idle /\ cut = Idle /\ upg = Idle
      /\ booked = 0 /\ faults = 0 /\ undoFaults = 0 /\ crashes = 0 /\ attempts = 0
      /\ broken = {} /\ crossed = FALSE /\ fastStarted = FALSE
  BY DEF CutInit
<1>3. roots \in [RootNames -> Run \cup {NoRelease}]
  <2>1. {EvidenceRoots[i] : i \in DOMAIN EvidenceRoots} = RootNames
    BY DEF EvidenceRoots, RootNames
  <2> QED BY <2>1 DEF CutInit
<1>4. files \in Files /\ service \in Services /\ unit \in Units
  BY <1>2, Names DEF Files, Services, Units, Kind
<1>5. StateShape
  BY <1>1, <1>2, <1>3, <1>4, Names
     DEF StateShape, HostShape, AuthorityShape, EvidenceShape, BoundShape
<1>6. Era /\ FastHolds /\ Installed /\ CursorFollows
  <2>1. Era /\ FastHolds /\ CursorFollows
    BY <1>1, <1>2, Names DEF Era, FastHolds, CursorFollows
  <2>2. Installed
    BY <1>2 DEF Installed, LoadedFits
  <2> QED BY <2>1, <2>2
<1>7. Tables /\ ToolShape /\ Failures
  BY <1>2 DEF Tables, RmTable, CutTable, UpgTable, ToolShape, Failures
<1> QED BY <1>5, <1>6, <1>7 DEF CutoverInv, Host

LEMMA StutterInv ==
    ASSUME CutoverInv, UNCHANGED cutoverVars
    PROVE  CutoverInv'
<1>1. UNCHANGED <<hostVars, authorityVars, evidenceVars, boundVars, receipts, rm, cut, upg,
                  fastStarted>>
  BY DEF cutoverVars
<1>2. Host'
  BY <1>1, UncountedKeeps DEF CutoverInv, Host, StateShape, EvidenceShape, HostUnchanged
<1>3. ToolShape'
  BY <1>1 DEF CutoverInv, ToolShape
<1>4. Tables'
  BY <1>1, BoundStays DEF CutoverInv, Tables, RmTable, CutTable, UnitUnnoticed, ReloadUnnoticed,
     UpgTable, RotatedTo, Stopped, hostVars, authorityVars, boundVars
<1>5. Failures'
  BY <1>1
     DEF CutoverInv, Failures, ToolsIdle, Assessable, Bootstraps, hostVars, authorityVars,
         boundVars
<1> QED BY <1>2, <1>3, <1>4, <1>5 DEF CutoverInv

LEMMA CutoverStep ==
    ASSUME OneToolAtATime, CutoverInv, [CutoverNext]_cutoverVars
    PROVE  CutoverInv'
BY RmActivateInv, UpgBeginInv, CutPreflightInv, RmInv, CutInv, UpgInv, SystemdRestartInv,
   ServiceDiesInv, LegacyCycleInv, FastDecideInv, FastExecuteInv, CrashInv, StutterInv
   DEF CutoverNext, Progress

\* Whatever fails, dies or is rolled back, as long as no two tools overlap
\* (no tool of the code excludes another; with two of them at once TLC
\* refutes the three results below), the invariant holds.
THEOREM CutoverInvariance ==
    ASSUME OneToolAtATime
    PROVE  CutoverSpec => []CutoverInv
<1>1. CutoverInv /\ [CutoverNext]_cutoverVars => CutoverInv'
  BY CutoverStep
<1> QED BY <1>1, CutoverInit, PTL DEF CutoverSpec

\* The process that holds PAPER authority trades on the complete books: the
\* cutover copies the latest legacy checkpoint of a stopped runtime, the
\* upgrade that of the stopped source run, and no rollback starts a run that
\* an authority booked past.
THEOREM BooksFollowAuthority ==
    ASSUME OneToolAtATime
    PROVE  CutoverSpec => []AuthorityHoldsTheBooks
<1>1. CutoverInv => AuthorityHoldsTheBooks
  <2> SUFFICES ASSUME CutoverInv, service # Down
               PROVE  db[service.run].books = booked
    BY DEF AuthorityHoldsTheBooks
  <2>1. service.kind \in {"legacy", "fast"}
    BY DEF CutoverInv, Host, StateShape, HostShape, Services, Kind
  <2>2. CASE service.kind = "legacy"
    BY <2>2 DEF CutoverInv, Host, Era
  <2>3. CASE service.kind = "fast"
    BY <2>3, FastRuns
  <2> QED BY <2>1, <2>2, <2>3
<1> QED BY <1>1, CutoverInvariance, PTL

\* At rest what runs is the unit systemd has loaded, of the current release
\* and with its authority files, and it is the installed one but for a Fast
\* unit whose installation was reported failed; a Fast process authenticates
\* and works on the run the files name even after deaths and reboots, and
\* under an authorization in force unless a rollback went on after its own
\* stop had failed.
THEOREM HostStaysConsistent ==
    ASSUME OneToolAtATime
    PROVE  CutoverSpec => []HostConsistent
<1>1. CutoverInv => HostConsistent
  <2> SUFFICES ASSUME CutoverInv
               PROVE  HostConsistent
    OBVIOUS
  <2>1. HostTypeOK
    BY DEF HostTypeOK, CutoverInv, Host, StateShape, HostShape, AuthorityShape, EvidenceShape,
       Units, Services, Files, Granted, Receipts, RunStates, Bindings
  <2>2. FastOnlyUnderAuthority
    BY DEF FastOnlyUnderAuthority, CutoverInv, Host, FastHolds
  <2>3. AtRestConsistent
    <3> SUFFICES ASSUME service # Down, crashes = 0
                 PROVE  /\ loaded = [kind |-> service.kind, rel |-> service.rel]
                        /\ service.rel = current
                        /\ unit = loaded \/ StrayUnit
                        /\ service.kind = "fast" => files.manifest = current
      BY DEF AtRestConsistent
    <3>1. LoadedFits /\ service.kind = loaded.kind /\ service.rel = current
      BY DEF CutoverInv, Host, Installed, Stopped
    <3>2. loaded = [kind |-> loaded.kind, rel |-> loaded.rel]
      BY DEF CutoverInv, Host, StateShape, HostShape, Units
    <3> QED BY <3>1, <3>2 DEF LoadedFits
  <2> QED BY <2>1, <2>2, <2>3 DEF HostConsistent
<1> QED BY <1>1, CutoverInvariance, PTL

\* After a failure receipt the manual recovery finds its evidence: the
\* retained runtime authenticates, matches the revocation, and stays down.
THEOREM FailureIsAssessable ==
    ASSUME OneToolAtATime
    PROVE  CutoverSpec => []RecoveryAssessable
<1>1. CutoverInv => RecoveryAssessable
  BY DEF CutoverInv, Failures, RecoveryAssessable
<1> QED BY <1>1, CutoverInvariance, PTL

-----------------------------------------------------------------------------
(* The end of the legacy era, however the tools overlap.  Nothing here has *)
(* the assumption that the operator runs one tool at a time: all that is   *)
(* assumed is that no activation and no cutover have crossed.              *)

HostSide ==
    /\ unit.kind \in Kind /\ loaded.kind \in Kind
    /\ service.kind = "fast" => fastStarted
    /\ service.kind = "legacy" => loaded.kind = "legacy"
    /\ auth # NoAuth /\ loaded.kind = "fast" => unit.kind = "fast"
    /\ fastStarted => /\ auth # NoAuth /\ service.kind # "legacy"
                      /\ unit.kind = "fast" /\ loaded.kind = "fast"

\* An activation at work began without an authorization, and only a cutover
\* could have written one since.
RmSide ==
    rm # Idle =>
        /\ "pc" \in DOMAIN rm /\ cut = Idle /\ auth = NoAuth
        /\ rm.pc \in {"switch", "reload", "undo-switch", "undo-reload"} => unit.kind = "legacy"

\* An upgrade only begins in the Fast era, and puts back no other
\* authorization than the one it found.
UpgSide ==
    upg # Idle =>
        /\ {"pc", "saved"} \subseteq DOMAIN upg
        /\ fastStarted
        /\ upg.saved = <<>> \/ upg.saved[2] # NoAuth

\* A cutover that attempted the start of the Fast runtime no longer touches
\* the unit; before, nothing can start a Fast process but that attempt.
CutSide ==
    cut # Idle =>
        /\ {"pc", "created", "installed", "attempted"} \subseteq DOMAIN cut
        /\ cut.created \in BOOLEAN /\ cut.installed \in BOOLEAN /\ cut.attempted \in BOOLEAN
        /\ cut.attempted =>
              /\ cut.pc \in {"start", "observe", "undo-stop", "undo-auth", "undo-receipt"}
              /\ unit.kind = "fast" /\ loaded.kind = "fast" /\ auth # NoAuth
        /\ ~cut.attempted =>
              /\ ~fastStarted
              /\ cut.pc \notin {"start", "observe", "undo-receipt"}
              /\ cut.pc # "stop" => Stopped
              /\ cut.pc \in CutForward => loaded.kind = "legacy"
              /\ cut.installed => cut.created
              /\ ~cut.created => auth = NoAuth
              /\ cut.pc \in {"stop", "handoff", "retarget", "authorize"} => ~cut.created
              /\ cut.pc \in {"unit", "reload"} => auth # NoAuth
              /\ cut.pc = "reload" => unit.kind = "fast" /\ cut.installed
              /\ cut.pc \in {"undo-unit", "undo-reload", "undo-config", "undo-start"} =>
                    auth = NoAuth
              /\ cut.pc = "undo-reload" => unit.kind = "legacy"

Sides == HostSide /\ RmSide /\ UpgSide /\ CutSide
LegacyInv == crossed \/ Sides

\* What a start brings up.
LEMMA StartSide ==
    ASSUME Sides, SystemctlStart
    PROVE  /\ UNCHANGED <<current, unit, loaded>>
           /\ fastStarted' = (fastStarted \/ service'.kind = "fast")
           /\ \/ service' = service \/ service' = Down
              \/ service'.kind = "legacy" /\ loaded.kind = "legacy"
              \/ service'.kind = "fast" /\ loaded.kind = "fast" /\ auth # NoAuth
<1>1. Authorized => auth # NoAuth
  BY DEF Authorized, NoAuth
<1>2. service' = Started /\ loaded.kind \in Kind
  BY DEF SystemctlStart, Sides, HostSide
<1>3. \/ service' = service \/ service' = Down
      \/ service'.kind = "legacy" /\ loaded.kind = "legacy"
      \/ service'.kind = "fast" /\ loaded.kind = "fast" /\ auth # NoAuth
  BY <1>1, <1>2 DEF Started, Kind
<1> QED BY <1>3 DEF SystemctlStart

\* A start does not disturb the host's side, and starts a Fast process for
\* the first time only where the caller allows it.
LEMMA StartHostSide ==
    ASSUME Sides, SystemctlStart, UNCHANGED auth
    PROVE  /\ HostSide' /\ UNCHANGED <<unit, loaded>>
           /\ fastStarted => fastStarted'
           /\ fastStarted' => fastStarted \/ (loaded.kind = "fast" /\ auth # NoAuth)
<1>1. /\ UNCHANGED <<current, unit, loaded>>
      /\ fastStarted' = (fastStarted \/ service'.kind = "fast")
      /\ \/ service' = service \/ service' = Down
         \/ service'.kind = "legacy" /\ loaded.kind = "legacy"
         \/ service'.kind = "fast" /\ loaded.kind = "fast" /\ auth # NoAuth
  BY StartSide
<1>2. Down.kind = "none"
  BY DEF Down
<1>3. (service.kind = "fast" => fastStarted) /\ HostSide
  BY DEF Sides, HostSide
<1>4. fastStarted' => fastStarted \/ (loaded.kind = "fast" /\ auth # NoAuth)
  BY <1>1, <1>2, <1>3
<1>5. HostSide'
  BY <1>1, <1>2, <1>3 DEF HostSide, Kind
<1> QED BY <1>1, <1>4, <1>5

\* The release manager at work: the other tools are not, and it is the legacy
\* era.
LEMMA RmSideMoves ==
    ASSUME Sides, NEW p \in RmForward \cup RmBackward, NEW q \in RmForward \cup RmBackward,
           RmStep(p, q)
    PROVE  /\ rm # Idle /\ rm.pc = p /\ "pc" \in DOMAIN rm' /\ rm'.pc = q
           /\ auth = NoAuth /\ auth' = auth /\ ~fastStarted
           /\ cut = Idle /\ cut' = Idle /\ upg = Idle /\ upg' = Idle
<1>1. rm.pc = p /\ rm.pc # "idle" /\ rm' = [rm EXCEPT !.pc = q] /\ UNCHANGED <<cut, upg, auth>>
  BY DEF RmStep, RmForward, RmBackward, HostOnly, authorityVars
<1>2. rm # Idle
  BY <1>1 DEF Idle
<1>3. "pc" \in DOMAIN rm /\ cut = Idle /\ auth = NoAuth
  BY <1>2 DEF Sides, RmSide
<1>4. ~fastStarted /\ upg = Idle
  BY <1>3 DEF Sides, HostSide, UpgSide
<1> QED BY <1>1, <1>2, <1>3, <1>4

LEMMA RmSides ==
    ASSUME Sides, RmNext \/ RmFails
    PROVE  Sides'
<1>a. \A p \in {"stop", "units", "switch", "reload", "start", "health", "undo-stop",
                "undo-units", "undo-switch", "undo-reload", "undo-start", "undo-health"} :
         p \in RmForward \cup RmBackward
  BY DEF RmForward, RmBackward
<1>b. HostSide /\ RmSide /\ Down.kind = "none"
  BY DEF Sides, Down
<1>1. CASE \E p \in {"stop", "undo-stop"}, q \in {"units", "undo-units"} :
              RmStep(p, q) /\ SystemctlStop
  BY <1>1, <1>a, <1>b, RmSideMoves DEF Sides, HostSide, RmSide, UpgSide, CutSide, SystemctlStop
<1>2. CASE \E p \in {"units", "undo-units"}, q \in {"switch", "undo-switch"} : \E r :
              RmStep(p, q) /\ InstallUnit([kind |-> "legacy", rel |-> r])
  BY <1>2, <1>a, <1>b, RmSideMoves
     DEF Sides, HostSide, RmSide, UpgSide, CutSide, InstallUnit, Kind
<1>3. CASE \E p \in {"switch", "undo-switch"}, q \in {"reload", "undo-reload"} : \E r :
              RmStep(p, q) /\ SwitchTo(r)
  BY <1>3, <1>a, <1>b, RmSideMoves DEF Sides, HostSide, RmSide, UpgSide, CutSide, SwitchTo
<1>4. CASE \E p \in {"reload", "undo-reload"}, q \in {"start", "undo-start"} :
              RmStep(p, q) /\ DaemonReload
  BY <1>4, <1>a, <1>b, RmSideMoves DEF Sides, HostSide, RmSide, UpgSide, CutSide, DaemonReload
<1>5. CASE \E p \in {"start", "undo-start"}, q \in {"health", "undo-health"} :
              RmStep(p, q) /\ SystemctlStart
  BY <1>5, <1>a, <1>b, RmSideMoves, StartHostSide DEF Sides, RmSide, UpgSide, CutSide
<1>6. CASE /\ rm # Idle /\ HostUnchanged /\ UNCHANGED <<cut, upg, auth>>
           /\ rm' = Idle \/ rm' = [rm EXCEPT !.pc = "undo-stop"]
  <2>1. /\ "pc" \in DOMAIN rm /\ cut = Idle /\ auth = NoAuth /\ ~fastStarted /\ upg = Idle
    BY <1>6 DEF Sides, RmSide, HostSide, UpgSide
  <2>2. RmSide'
    BY <1>6, <2>1 DEF RmSide
  <2>3. HostSide'
    BY <1>6, <1>b DEF HostSide, HostUnchanged, hostVars
  <2> QED BY <1>6, <2>1, <2>2, <2>3 DEF Sides, UpgSide, CutSide
<1>7. CASE RmFails
  BY <1>6, <1>7 DEF RmFails, HostOnly, authorityVars
<1>8. CASE RmHealthy \/ (/\ rm.pc = "undo-health" /\ rm' = Idle
                         /\ UNCHANGED <<hostVars, fastStarted, cut, upg, boundVars>> /\ HostOnly)
  <2>1. rm # Idle
    BY <1>8 DEF RmHealthy, Idle
  <2> QED BY <1>6, <1>8, <2>1 DEF RmHealthy, HostUnchanged, HostOnly, authorityVars
<1> QED
  BY <1>1, <1>2, <1>3, <1>4, <1>5, <1>7, <1>8
     DEF RmNext, RmStop, RmUnits, RmSwitch, RmReload, RmStart, RmRollback

\* A step of the upgrade leaves the other tools to their sides: the era is
\* the Fast one, so no activation is at work, and a cutover is past its
\* attempt.
LEMMA UpgSideKeeps ==
    ASSUME Sides, upg # Idle, UNCHANGED <<rm, cut>>, HostSide', UpgSide', fastStarted'
    PROVE  Sides'
<1>1. fastStarted /\ auth # NoAuth
  BY DEF Sides, HostSide, UpgSide
<1>2. rm = Idle
  BY <1>1 DEF Sides, RmSide
<1>3. cut # Idle => cut.attempted
  BY <1>1 DEF Sides, CutSide
<1>4. unit'.kind = "fast" /\ loaded'.kind = "fast" /\ auth' # NoAuth
  BY DEF HostSide
<1>5. CutSide'
  BY <1>3, <1>4 DEF Sides, CutSide
<1> QED BY <1>2, <1>5 DEF Sides, RmSide

LEMMA UpgSides ==
    ASSUME Sides, UpgNext \/ UpgFails \/ UpgBreaks
    PROVE  Sides'
<1>1. upg # Idle
  <2>1. upg # Idle \/ upg.pc \in UpgForward \cup UpgBackward
    BY DEF UpgNext, UpgFails, UpgBreaks, UpgStep, UpgForward, UpgBackward, UpgStop, UpgSnapshot,
       UpgHandoff, UpgArchive, UpgRotate, UpgUnits, UpgSwitch, UpgReload, UpgStart, UpgVerify,
       UpgComplete, UpgFailureReceipt, UpgUndoStop, UpgRevoke, UpgRestoreFile, UpgUnarchive,
       UpgRestore
  <2>2. "idle" \notin UpgForward \cup UpgBackward
    BY DEF UpgForward, UpgBackward
  <2> QED BY <2>1, <2>2 DEF Idle
<1>2. /\ HostSide /\ fastStarted /\ {"pc", "saved"} \subseteq DOMAIN upg
      /\ upg.saved = <<>> \/ upg.saved[2] # NoAuth
      /\ unit.kind = "fast" /\ loaded.kind = "fast" /\ auth # NoAuth /\ service.kind # "legacy"
  BY <1>1 DEF Sides, HostSide, UpgSide
<1>3. UNCHANGED <<rm, cut>>
  BY DEF UpgNext, UpgFails, UpgBreaks, UpgStep, UpgStop, UpgSnapshot,
     UpgHandoff, UpgArchive, UpgRotate, UpgUnits, UpgSwitch, UpgReload, UpgStart, UpgVerify,
     UpgComplete, UpgFailureReceipt, UpgUndoStop, UpgRevoke, UpgRestoreFile, UpgUnarchive,
     UpgRestore, UpgReceipt, PutBack
<1>4. \/ upg' = Idle
      \/ ({"pc", "saved"} \subseteq DOMAIN upg' /\ upg'.saved = upg.saved)
      \/ ({"pc", "saved"} \subseteq DOMAIN upg' /\ upg'.saved = <<files, auth>>)
  BY <1>2 DEF UpgNext, UpgFails, UpgBreaks, UpgStep, UpgStop, UpgSnapshot,
     UpgHandoff, UpgArchive, UpgRotate, UpgUnits, UpgSwitch, UpgReload, UpgStart, UpgVerify,
     UpgComplete, UpgFailureReceipt, UpgUndoStop, UpgRevoke, UpgRestoreFile, UpgUnarchive,
     UpgRestore
<1>5. auth' # NoAuth
  <2>1. \/ auth' = auth
        \/ auth'.state \in {"ACTIVE", "REVOKED"}
        \/ upg.saved # <<>> /\ auth' = upg.saved[2]
    <3>1. CASE UpgRotate \/ UpgRevoke \/ UpgRestoreFile
      BY <3>1 DEF UpgRotate, UpgRevoke, UpgRestoreFile
    <3>2. CASE UpgHandoff \/ UpgArchive \/ UpgUnarchive \/ UpgBreaks
      BY <3>2 DEF UpgHandoff, UpgArchive, UpgUnarchive, UpgBreaks, UpgReceipt, ArchiveRoot,
         PutBack, HostOnly, authorityVars
    <3>3. CASE ~(UpgRotate \/ UpgRevoke \/ UpgRestoreFile \/ UpgHandoff \/ UpgArchive
                 \/ UpgUnarchive \/ UpgBreaks)
      BY <3>3 DEF UpgNext, UpgFails, UpgStop, UpgSnapshot, UpgUnits, UpgSwitch, UpgReload,
         UpgStart, UpgVerify, UpgComplete, UpgReceipt, UpgFailureReceipt, UpgUndoStop,
         UpgRestore, HostOnly, authorityVars
    <3> QED BY <3>1, <3>2, <3>3
  <2>2. NoAuth.state = "ABSENT"
    BY DEF NoAuth
  <2> QED BY <1>2, <2>1, <2>2
<1>6. \/ HostUnchanged \/ SystemctlStop \/ SystemctlStart \/ DaemonReload
      \/ \E r : SwitchTo(r) \/ InstallUnit([kind |-> "fast", rel |-> r])
  BY DEF UpgNext, UpgFails, UpgBreaks, UpgStop, UpgSnapshot, UpgHandoff, UpgArchive,
     UpgRotate, UpgUnits, UpgSwitch, UpgReload, UpgStart, UpgVerify, UpgComplete, UpgReceipt,
     UpgFailureReceipt, UpgUndoStop, UpgRevoke, UpgRestoreFile, UpgUnarchive, UpgRestore,
     ArchiveRoot, PutBack
<1>7. /\ unit'.kind = "fast" /\ loaded'.kind = "fast" /\ service'.kind # "legacy"
      /\ fastStarted'
  <2>0. Down.kind = "none"
    BY DEF Down
  <2>1. CASE SystemctlStart
    <3>1. /\ UNCHANGED <<unit, loaded>> /\ fastStarted' = (fastStarted \/ service'.kind = "fast")
          /\ \/ service' = service \/ service' = Down
             \/ service'.kind = "legacy" /\ loaded.kind = "legacy"
             \/ service'.kind = "fast" /\ loaded.kind = "fast" /\ auth # NoAuth
      BY <2>1, StartSide
    <3> QED BY <1>2, <2>0, <3>1
  <2>2. CASE HostUnchanged \/ SystemctlStop \/ DaemonReload
    BY <1>2, <2>0, <2>2 DEF HostUnchanged, hostVars, SystemctlStop, DaemonReload
  <2>3. CASE \E r : SwitchTo(r)
    BY <1>2, <2>3 DEF SwitchTo
  <2>4. CASE \E r : InstallUnit([kind |-> "fast", rel |-> r])
    BY <1>2, <2>4 DEF InstallUnit
  <2> QED BY <1>6, <2>1, <2>2, <2>3, <2>4
<1>8. HostSide'
  BY <1>2, <1>5, <1>7 DEF HostSide, Kind
<1>9. UpgSide'
  BY <1>2, <1>4, <1>7 DEF UpgSide
<1> QED BY <1>1, <1>3, <1>7, <1>8, <1>9, UpgSideKeeps

\* A step of the cutover: no activation is at work, and an upgrade is only in
\* the Fast era.
LEMMA CutSideKeeps ==
    ASSUME Sides, cut # Idle, UNCHANGED <<rm, upg>>, HostSide', CutSide',
           fastStarted => fastStarted'
    PROVE  Sides'
BY DEF Sides, RmSide, UpgSide

LEMMA CutSideMoves ==
    ASSUME Sides, NEW p \in CutSteps, NEW q \in CutSteps, CutStep(p, q)
    PROVE  /\ cut # Idle /\ cut.pc = p /\ cut' # Idle /\ cut'.pc = q
           /\ {"pc", "created", "installed", "attempted"} \subseteq DOMAIN cut'
           /\ cut'.created = cut.created /\ cut'.installed = cut.installed
           /\ cut'.attempted = cut.attempted
           /\ UNCHANGED <<rm, upg>>
           /\ HostSide /\ CutSide
<1>1. cut.pc = p /\ cut' = [cut EXCEPT !.pc = q] /\ p # "idle" /\ q # "idle"
  BY DEF CutStep, CutSteps, CutForward, CutBackward
<1>2. cut # Idle
  BY <1>1 DEF Idle
<1>3. {"pc", "created", "installed", "attempted"} \subseteq DOMAIN cut
  BY <1>2 DEF Sides, CutSide
<1>4. cut'.pc = q
  BY <1>1, <1>3
<1> QED BY <1>1, <1>2, <1>3, <1>4 DEF CutStep, Sides, Idle

\* The cutover's stops, and the stop that was reported failed.
LEMMA CutStopSides ==
    ASSUME Sides, CutStop \/ CutUndoStop
    PROVE  Sides'
<1> PICK p \in {"stop", "undo-stop"}, q \in {"handoff", "undo-auth"} :
      /\ CutStep(p, q) /\ SystemctlStop /\ HostOnly
      /\ p = "stop" <=> q = "handoff"
  BY DEF CutStop, CutUndoStop
<1>1. p \in CutSteps /\ q \in CutSteps
  BY DEF CutSteps, CutForward, CutBackward
<1>2. /\ UNCHANGED <<unit, loaded, auth, fastStarted>> /\ service' = Down /\ Stopped'
      /\ Down.kind = "none"
  BY DEF SystemctlStop, HostOnly, authorityVars, Stopped, Down
<1>3. HostSide'
  BY <1>1, <1>2, CutSideMoves DEF HostSide
<1>4. CutSide'
  BY <1>1, <1>2, CutSideMoves DEF CutSide, CutForward
<1> QED BY <1>1, <1>2, <1>3, <1>4, CutSideMoves, CutSideKeeps

\* The steps before the authorization leave the host and the authorization
\* alone.
LEMMA CutPrepareSides ==
    ASSUME Sides, CutHandoff \/ CutRetarget
    PROVE  Sides'
<1> PICK p \in {"handoff", "retarget"}, q \in {"retarget", "authorize"} :
      /\ CutStep(p, q) /\ HostUnchanged /\ UNCHANGED auth
  BY DEF CutHandoff, CutRetarget
<1>1. p \in CutSteps /\ q \in CutSteps
  BY DEF CutSteps, CutForward
<1>2. UNCHANGED <<unit, loaded, wanted, service, fastStarted, auth>>
  BY DEF HostUnchanged, hostVars
<1>3. HostSide'
  BY <1>1, <1>2, CutSideMoves DEF HostSide
<1>4. CutSide'
  BY <1>1, <1>2, CutSideMoves DEF CutSide, CutForward, Stopped
<1> QED BY <1>1, <1>2, <1>3, <1>4, CutSideMoves, CutSideKeeps

LEMMA CutAuthorizeSides ==
    ASSUME Sides, CutAuthorize
    PROVE  Sides'
<1>1. /\ cut.pc = "authorize" /\ cut # Idle /\ cut' = [cut EXCEPT !.pc = "unit", !.created = TRUE]
      /\ UNCHANGED <<rm, upg, unit, loaded, wanted, service, fastStarted>>
      /\ auth'.state = "ACTIVE"
  BY DEF CutAuthorize, Idle, HostUnchanged, hostVars
<1>2. CutSide /\ HostSide /\ {"pc", "created", "installed", "attempted"} \subseteq DOMAIN cut
  BY <1>1 DEF Sides, CutSide
<1>3. /\ ~cut.attempted /\ ~fastStarted /\ loaded.kind = "legacy" /\ Stopped
  BY <1>1, <1>2 DEF CutSide, CutForward
<1>4. /\ cut'.pc = "unit" /\ cut'.created = TRUE /\ cut'.installed = cut.installed
      /\ cut'.attempted = cut.attempted
      /\ {"pc", "created", "installed", "attempted"} \subseteq DOMAIN cut'
  BY <1>1, <1>2
<1>5. auth' # NoAuth
  BY <1>1 DEF NoAuth
<1>6. HostSide'
  BY <1>1, <1>2, <1>3 DEF HostSide
<1>7. CutSide'
  BY <1>1, <1>2, <1>3, <1>4, <1>5 DEF CutSide, CutForward, Stopped
<1> QED BY <1>1, <1>6, <1>7, CutSideKeeps

\* The installation and the reload, noted or not.
LEMMA CutInstallSides ==
    ASSUME Sides, cut # Idle, cut.pc = "unit",
           InstallUnit([kind |-> "fast", rel |-> cut.rel]), HostOnly, UNCHANGED <<rm, upg>>,
           \/ cut' = [cut EXCEPT !.pc = "reload", !.installed = TRUE]
           \/ cut' = [cut EXCEPT !.pc = "undo-stop"]
    PROVE  Sides'
<1>1. CutSide /\ HostSide /\ {"pc", "created", "installed", "attempted"} \subseteq DOMAIN cut
  BY DEF Sides, CutSide
<1>2. /\ ~cut.attempted /\ ~fastStarted /\ loaded.kind = "legacy" /\ Stopped /\ auth # NoAuth
      /\ cut.created
  BY <1>1 DEF CutSide, CutForward
<1>3. /\ unit'.kind = "fast"
      /\ UNCHANGED <<rm, upg, loaded, wanted, service, fastStarted, auth>>
  BY DEF InstallUnit, HostOnly, authorityVars
<1>4. /\ cut'.created = cut.created /\ cut'.attempted = cut.attempted
      /\ {"pc", "created", "installed", "attempted"} \subseteq DOMAIN cut'
      /\ \/ cut'.pc = "reload" /\ cut'.installed = TRUE
         \/ cut'.pc = "undo-stop" /\ cut'.installed = cut.installed
  BY <1>1
<1>5. HostSide'
  BY <1>1, <1>2, <1>3 DEF HostSide, Kind
<1>6. CutSide'
  BY <1>1, <1>2, <1>3, <1>4 DEF CutSide, CutForward, Stopped
<1> QED BY <1>3, <1>5, <1>6, CutSideKeeps

LEMMA CutReloadSides ==
    ASSUME Sides, cut # Idle, cut.pc = "reload", DaemonReload, HostOnly, UNCHANGED <<rm, upg>>,
           \/ cut' = [cut EXCEPT !.pc = "start", !.attempted = TRUE]
           \/ cut' = [cut EXCEPT !.pc = "undo-stop"]
    PROVE  Sides'
<1>1. CutSide /\ HostSide /\ {"pc", "created", "installed", "attempted"} \subseteq DOMAIN cut
  BY DEF Sides, CutSide
<1>2. /\ ~cut.attempted /\ ~fastStarted /\ Stopped /\ auth # NoAuth
      /\ cut.created /\ unit.kind = "fast"
  BY <1>1 DEF CutSide, CutForward
<1>3. /\ loaded' = unit /\ UNCHANGED <<rm, upg, unit, wanted, service, fastStarted, auth>>
  BY DEF DaemonReload, HostOnly, authorityVars
<1>4. /\ cut'.created = cut.created /\ cut'.installed = cut.installed
      /\ {"pc", "created", "installed", "attempted"} \subseteq DOMAIN cut'
      /\ \/ cut'.pc = "start" /\ cut'.attempted = TRUE
         \/ cut'.pc = "undo-stop" /\ cut'.attempted = cut.attempted
  BY <1>1
<1>5. HostSide'
  BY <1>1, <1>2, <1>3 DEF HostSide, Stopped, Down
<1>6. CutSide'
  BY <1>1, <1>2, <1>3, <1>4 DEF CutSide, CutForward, Stopped
<1> QED BY <1>3, <1>5, <1>6, CutSideKeeps

LEMMA CutStartSides ==
    ASSUME Sides, CutStart
    PROVE  Sides'
<1>1. "start" \in CutSteps /\ "observe" \in CutSteps
  BY DEF CutSteps, CutForward
<1>2. CutStep("start", "observe") /\ SystemctlStart /\ UNCHANGED auth
  BY DEF CutStart, HostOnly, authorityVars
<1>3. cut.attempted /\ unit.kind = "fast" /\ loaded.kind = "fast" /\ auth # NoAuth
  BY <1>1, <1>2, CutSideMoves DEF CutSide
<1>4. /\ HostSide' /\ UNCHANGED <<unit, loaded>> /\ (fastStarted => fastStarted')
  BY <1>2, StartHostSide
<1>5. CutSide'
  BY <1>1, <1>2, <1>3, <1>4, CutSideMoves DEF CutSide
<1> QED BY <1>1, <1>2, <1>4, <1>5, CutSideMoves, CutSideKeeps

\* A cutover that ends, or fails, leaves the host as it is.
LEMMA CutEndSides ==
    ASSUME Sides, cut # Idle, cut' = Idle, HostUnchanged, UNCHANGED <<rm, upg, auth>>
    PROVE  Sides'
<1>1. UNCHANGED <<unit, loaded, service, fastStarted>>
  BY DEF HostUnchanged, hostVars
<1>2. HostSide' /\ CutSide'
  BY <1>1 DEF Sides, HostSide, CutSide
<1> QED BY <1>1, <1>2, CutSideKeeps

\* The recovery after an attempted start.
LEMMA CutRevokeSides ==
    ASSUME Sides, CutRevoke
    PROVE  Sides'
<1>1. "undo-auth" \in CutSteps /\ "undo-receipt" \in CutSteps
  BY DEF CutSteps, CutBackward
<1>2. /\ CutStep("undo-auth", "undo-receipt") /\ cut.attempted
      /\ auth' = [auth EXCEPT !.state = "REVOKED"]
      /\ UNCHANGED <<unit, loaded, wanted, service, fastStarted>>
  BY DEF CutRevoke, HostUnchanged, hostVars
<1>3. unit.kind = "fast" /\ loaded.kind = "fast" /\ auth # NoAuth
  BY <1>1, <1>2, CutSideMoves DEF CutSide
<1>4. auth' # NoAuth
  <2>1. CASE "state" \in DOMAIN auth
    <3>1. auth'.state = "REVOKED"
      BY <1>2, <2>1
    <3> QED BY <3>1 DEF NoAuth
  <2>2. CASE "state" \notin DOMAIN auth
    <3>1. "state" \notin DOMAIN auth'
      BY <1>2, <2>2
    <3> QED BY <3>1 DEF NoAuth
  <2> QED BY <2>1, <2>2
<1>5. HostSide'
  BY <1>1, <1>2, <1>3, <1>4, CutSideMoves DEF HostSide
<1>6. CutSide'
  BY <1>1, <1>2, <1>3, <1>4, CutSideMoves DEF CutSide
<1> QED BY <1>1, <1>2, <1>5, <1>6, CutSideMoves, CutSideKeeps

\* The recovery before one: a Fast process has not started, and without an
\* authorization none will.
LEMMA CutRemoveSides ==
    ASSUME Sides, CutRemoveAuthorization
    PROVE  Sides'
<1> PICK q \in {"undo-unit", "undo-config"} :
      /\ CutStep("undo-auth", q) /\ ~cut.attempted
      /\ auth' = IF cut.created THEN NoAuth ELSE auth
      /\ UNCHANGED <<unit, loaded, wanted, service, fastStarted>>
  BY DEF CutRemoveAuthorization, HostUnchanged, hostVars
<1>1. "undo-auth" \in CutSteps /\ q \in CutSteps
  BY DEF CutSteps, CutBackward
<1>2. auth' = NoAuth /\ ~fastStarted
  BY <1>1, CutSideMoves DEF CutSide
<1>3. HostSide'
  BY <1>1, <1>2, CutSideMoves DEF HostSide
<1>4. CutSide'
  BY <1>1, <1>2, CutSideMoves DEF CutSide, CutForward, Stopped
<1> QED BY <1>1, <1>3, <1>4, CutSideMoves, CutSideKeeps

LEMMA CutRestoreSides ==
    ASSUME Sides, CutRestore
    PROVE  Sides'
<1>a. /\ "undo-unit" \in CutSteps /\ "undo-reload" \in CutSteps
      /\ "undo-config" \in CutSteps /\ "undo-start" \in CutSteps
  BY DEF CutSteps, CutBackward
<1>1. CASE CutStep("undo-unit", "undo-reload")
           /\ InstallUnit([kind |-> "legacy", rel |-> cut.rel]) /\ HostOnly
  <2>1. /\ unit'.kind = "legacy" /\ UNCHANGED <<loaded, wanted, service, fastStarted, auth>>
    BY <1>1 DEF InstallUnit, HostOnly, authorityVars
  <2>2. ~cut.attempted /\ ~fastStarted /\ auth = NoAuth
    BY <1>a, <1>1, CutSideMoves DEF CutSide
  <2>3. HostSide'
    BY <1>a, <1>1, <2>1, <2>2, CutSideMoves DEF HostSide, Kind
  <2>4. CutSide'
    BY <1>a, <1>1, <2>1, <2>2, CutSideMoves DEF CutSide, CutForward, Stopped
  <2> QED BY <1>a, <1>1, <2>1, <2>3, <2>4, CutSideMoves, CutSideKeeps
<1>2. CASE CutStep("undo-reload", "undo-config") /\ DaemonReload /\ HostOnly
  <2>1. /\ loaded' = unit /\ UNCHANGED <<unit, wanted, service, fastStarted, auth>>
    BY <1>2 DEF DaemonReload, HostOnly, authorityVars
  <2>2. ~cut.attempted /\ ~fastStarted /\ auth = NoAuth /\ unit.kind = "legacy"
    BY <1>a, <1>2, CutSideMoves DEF CutSide
  <2>3. HostSide'
    BY <1>a, <1>2, <2>1, <2>2, CutSideMoves DEF HostSide
  <2>4. CutSide'
    BY <1>a, <1>2, <2>1, <2>2, CutSideMoves DEF CutSide, CutForward, Stopped
  <2> QED BY <1>a, <1>2, <2>1, <2>3, <2>4, CutSideMoves, CutSideKeeps
<1>3. CASE CutStep("undo-config", "undo-start") /\ UNCHANGED auth /\ HostUnchanged
  <2>1. UNCHANGED <<unit, loaded, wanted, service, fastStarted>>
    BY <1>3 DEF HostUnchanged, hostVars
  <2>2. ~cut.attempted /\ ~fastStarted /\ auth = NoAuth
    BY <1>a, <1>3, CutSideMoves DEF CutSide
  <2>3. HostSide'
    BY <1>a, <1>3, <2>1, <2>2, CutSideMoves DEF HostSide
  <2>4. CutSide'
    BY <1>a, <1>3, <2>1, <2>2, CutSideMoves DEF CutSide, CutForward, Stopped
  <2> QED BY <1>a, <1>3, <2>1, <2>3, <2>4, CutSideMoves, CutSideKeeps
<1>4. CASE cut.pc = "undo-start" /\ cut' = Idle /\ SystemctlStart /\ UNCHANGED <<rm, upg, auth>>
  <2>1. cut # Idle
    BY <1>4 DEF Idle
  <2>2. HostSide' /\ (fastStarted => fastStarted')
    BY <1>4, StartHostSide
  <2>3. CutSide'
    BY <1>4 DEF CutSide
  <2> QED BY <1>4, <2>1, <2>2, <2>3, CutSideKeeps
<1> QED BY <1>1, <1>2, <1>3, <1>4 DEF CutRestore, HostOnly, authorityVars

\* A step that failed, with or without an effect.
LEMMA CutTurnsBack ==
    ASSUME Sides, cut # Idle, NEW q \in {"undo-stop", "undo-auth"}, cut' = [cut EXCEPT !.pc = q],
           HostUnchanged, UNCHANGED <<rm, upg, auth>>,
           q = "undo-auth" <=> cut.pc = "undo-stop", q = "undo-stop" => cut.pc # "stop"
    PROVE  Sides'
<1>1. CutSide /\ HostSide /\ {"pc", "created", "installed", "attempted"} \subseteq DOMAIN cut
  BY DEF Sides, CutSide
<1>2. UNCHANGED <<unit, loaded, wanted, service, fastStarted>>
  BY DEF HostUnchanged, hostVars
<1>3. /\ cut'.created = cut.created /\ cut'.installed = cut.installed
      /\ cut'.attempted = cut.attempted /\ cut'.pc = q
      /\ {"pc", "created", "installed", "attempted"} \subseteq DOMAIN cut'
  BY <1>1
<1>4. HostSide'
  BY <1>1, <1>2 DEF HostSide
<1>5. CutSide'
  BY <1>1, <1>2, <1>3 DEF CutSide, CutForward, Stopped
<1> QED BY <1>2, <1>4, <1>5, CutSideKeeps

LEMMA CutFailsSides ==
    ASSUME Sides, CutFails
    PROVE  Sides'
<1>1. /\ cut # Idle /\ HostUnchanged /\ UNCHANGED <<rm, upg, auth>>
      /\ \/ cut' = Idle
         \/ cut.pc = "undo-stop" /\ cut' = [cut EXCEPT !.pc = "undo-auth"]
         \/ cut.pc \in CutForward \ {"stop"} /\ cut' = [cut EXCEPT !.pc = "undo-stop"]
  BY DEF CutFails, HostOnly, authorityVars
<1>2. CASE cut' = Idle
  BY <1>1, <1>2, CutEndSides
<1>3. CASE cut.pc = "undo-stop" /\ cut' = [cut EXCEPT !.pc = "undo-auth"]
  BY <1>1, <1>3, CutTurnsBack
<1>4. CASE cut.pc \in CutForward \ {"stop"} /\ cut' = [cut EXCEPT !.pc = "undo-stop"]
  <2>1. cut.pc # "undo-stop" /\ cut.pc # "stop"
    BY <1>4 DEF CutForward
  <2> QED BY <1>1, <1>4, <2>1, CutTurnsBack
<1> QED BY <1>1, <1>2, <1>3, <1>4

LEMMA CutBreaksSides ==
    ASSUME Sides, CutBreaks
    PROVE  Sides'
<1>1. cut.pc \in {"stop", "unit", "reload", "observe"} /\ cut # Idle /\ UNCHANGED <<rm, upg>>
  <2>1. cut.pc \in {"stop", "unit", "reload", "observe"} /\ UNCHANGED <<rm, upg>>
    BY DEF CutBreaks
  <2>2. cut.pc # "idle"
    BY <2>1
  <2> QED BY <2>1, <2>2 DEF Idle
<1>2. CASE cut.pc = "stop"
  <2>1. SystemctlStop /\ cut' = Idle /\ UNCHANGED auth
    BY <1>2 DEF CutBreaks, HostOnly, authorityVars
  <2>2. /\ UNCHANGED <<unit, loaded, fastStarted>> /\ service' = Down /\ Down.kind = "none"
    BY <2>1 DEF SystemctlStop, Down
  <2>3. HostSide' /\ CutSide'
    BY <2>1, <2>2 DEF Sides, HostSide, CutSide
  <2> QED BY <1>1, <2>2, <2>3, CutSideKeeps
<1>3. CASE cut.pc = "unit"
  BY <1>1, <1>3, CutInstallSides DEF CutBreaks
<1>4. CASE cut.pc = "reload"
  BY <1>1, <1>4, CutReloadSides DEF CutBreaks
<1>5. CASE cut.pc = "observe"
  BY <1>1, <1>5, CutTurnsBack DEF CutBreaks, authorityVars
<1> QED BY <1>1, <1>2, <1>3, <1>4, <1>5

LEMMA CutSides ==
    ASSUME Sides, CutNext \/ CutFails \/ CutBreaks
    PROVE  Sides'
<1>1. CASE CutUnit
  BY <1>1, CutInstallSides DEF CutUnit, Idle
<1>2. CASE CutReload
  BY <1>2, CutReloadSides DEF CutReload, Idle
<1>3. CASE CutComplete \/ CutFailureReceipt
  <2>1. /\ cut.pc # "idle" /\ cut' = Idle /\ HostUnchanged /\ UNCHANGED <<rm, upg, auth>>
    BY <1>3 DEF CutComplete, CutFailureReceipt, authorityVars
  <2>2. cut # Idle
    BY <2>1 DEF Idle
  <2> QED BY <2>1, <2>2, CutEndSides
<1> QED
  BY <1>1, <1>2, <1>3, CutStopSides, CutPrepareSides, CutAuthorizeSides, CutStartSides,
     CutRevokeSides, CutRemoveSides, CutRestoreSides, CutFailsSides, CutBreaksSides DEF CutNext

\* Systemd and the PAPER process.
LEMMA ServiceSides ==
    ASSUME Sides, SystemdRestart \/ ServiceDies \/ LegacyCycle \/ FastDecide \/ FastExecute
    PROVE  Sides'
<1>1. CASE SystemdRestart
  <2>1. /\ SystemctlStart /\ UNCHANGED <<auth, rm, cut, upg>> /\ wanted /\ service = Down
        /\ Started # Down
    BY <1>1 DEF SystemdRestart, authorityVars
  <2>2. /\ HostSide' /\ UNCHANGED <<unit, loaded>> /\ (fastStarted => fastStarted')
        /\ fastStarted' => fastStarted \/ (loaded.kind = "fast" /\ auth # NoAuth)
    BY <2>1, StartHostSide
  <2>3. RmSide' /\ UpgSide'
    BY <2>1, <2>2 DEF Sides, RmSide, UpgSide
  <2>4. ASSUME cut # Idle, ~cut.attempted
        PROVE  cut.pc = "stop" /\ ~fastStarted' /\ auth = NoAuth
    <3>1. cut.pc = "stop" /\ loaded.kind = "legacy" /\ ~fastStarted /\ auth = NoAuth
      BY <2>1, <2>4 DEF Sides, CutSide, Stopped, CutForward
    <3> QED BY <2>2, <3>1
  <2>5. CutSide'
    BY <2>1, <2>2, <2>4 DEF Sides, CutSide, CutForward
  <2> QED BY <2>2, <2>3, <2>5 DEF Sides
<1>2. CASE ServiceDies
  <2>1. /\ service' = Down /\ Down.kind = "none"
        /\ UNCHANGED <<unit, loaded, wanted, fastStarted, auth, rm, cut, upg>>
    BY <1>2 DEF ServiceDies, authorityVars, Down
  <2> QED BY <2>1 DEF Sides, HostSide, RmSide, UpgSide, CutSide, Stopped
<1>3. CASE LegacyCycle \/ FastDecide \/ FastExecute
  <2>1. UNCHANGED <<unit, loaded, wanted, service, fastStarted, auth, rm, cut, upg>>
    BY <1>3 DEF LegacyCycle, FastDecide, FastExecute, hostVars
  <2> QED BY <2>1 DEF Sides, HostSide, RmSide, UpgSide, CutSide, Stopped
<1> QED BY <1>1, <1>2, <1>3

LEMMA CrashSides ==
    ASSUME Sides, ToolDies \/ Reboot
    PROVE  Sides'
<1>1. /\ rm' = Idle /\ cut' = Idle /\ upg' = Idle /\ UNCHANGED <<unit, auth, fastStarted>>
      /\ \/ UNCHANGED <<loaded, service>>
         \/ loaded' = unit /\ service' = Down
      /\ Down.kind = "none"
  BY DEF ToolDies, Reboot, Crash, hostVars, authorityVars, Down
<1> QED BY <1>1 DEF Sides, HostSide, RmSide, UpgSide, CutSide

\* The invocations: one that finds the other tool at work crosses it.
LEMMA InvokeSides ==
    ASSUME Sides, ~crossed',
           \/ \E release \in Releases : RmActivate(release) \/ UpgBegin(release)
           \/ \E run \in FinalRuns : CutPreflight(run)
    PROVE  Sides'
<1>1. UNCHANGED <<unit, loaded, wanted, service, fastStarted, auth>>
  BY DEF RmActivate, UpgBegin, CutPreflight, Invoke, hostVars, authorityVars
<1>2. HostSide /\ HostSide'
  BY <1>1 DEF Sides, HostSide
<1>3. CASE \E release \in Releases : RmActivate(release)
  <2>1. /\ cut = Idle /\ auth = NoAuth /\ UNCHANGED <<cut, upg>>
        /\ "pc" \in DOMAIN rm' /\ rm'.pc = "stop"
    <3>1. /\ auth = NoAuth /\ UNCHANGED <<cut, upg>>
          /\ "pc" \in DOMAIN rm' /\ rm'.pc = "stop"
      BY <1>3 DEF RmActivate
    <3>2. crossed' = (crossed \/ cut # Idle)
      BY <1>3 DEF RmActivate
    <3> QED BY <3>1, <3>2
  <2> QED BY <1>1, <1>2, <2>1 DEF Sides, RmSide, UpgSide, CutSide
<1>4. CASE \E release \in Releases : UpgBegin(release)
  <2>1. /\ service.kind = "fast" /\ UNCHANGED <<rm, cut>>
        /\ {"pc", "saved"} \subseteq DOMAIN upg' /\ upg'.saved = <<>>
    BY <1>4 DEF UpgBegin
  <2>2. fastStarted
    BY <1>2, <2>1 DEF HostSide
  <2> QED BY <1>1, <1>2, <2>1, <2>2 DEF Sides, RmSide, UpgSide, CutSide, Stopped
<1>5. CASE \E run \in FinalRuns : CutPreflight(run)
  <2>1. /\ rm = Idle /\ service.kind = "legacy" /\ auth = NoAuth /\ UNCHANGED <<rm, upg>>
        /\ {"pc", "created", "installed", "attempted"} \subseteq DOMAIN cut'
        /\ cut'.pc = "stop" /\ cut'.created = FALSE /\ cut'.installed = FALSE
        /\ cut'.attempted = FALSE
    <3>1. PICK run : CutPreflight(run)
      BY <1>5
    <3>2. cut' = [pc |-> "stop", rel |-> current, run |-> run, config |-> files.run,
                  created |-> FALSE, installed |-> FALSE, attempted |-> FALSE]
      BY <3>1 DEF CutPreflight
    <3>3. service.kind = "legacy" /\ auth = NoAuth /\ UNCHANGED <<rm, upg>>
      BY <3>1 DEF CutPreflight
    <3>4. crossed' = (crossed \/ rm # Idle)
      BY <3>1 DEF CutPreflight
    <3>5. rm = Idle
      BY <3>4
    <3> QED BY <3>2, <3>3, <3>5
  <2>2. ~fastStarted /\ loaded.kind = "legacy"
    BY <1>2, <2>1 DEF HostSide
  <2>3. CutSide'
    BY <1>1, <2>1, <2>2 DEF CutSide
  <2> QED BY <1>1, <1>2, <2>1, <2>2, <2>3 DEF Sides, RmSide, UpgSide
<1> QED BY <1>3, <1>4, <1>5

LEMMA LegacyInit == CutInit => LegacyInv
<1> SUFFICES ASSUME CutInit PROVE Sides
  BY DEF LegacyInv
<1>1. /\ unit = [kind |-> "legacy", rel |-> FirstRelease] /\ loaded = unit
      /\ service = [kind |-> "legacy", rel |-> FirstRelease, run |-> "legacy"]
      /\ auth = NoAuth /\ rm = Idle /\ cut = Idle /\ upg = Idle /\ fastStarted = FALSE
  BY DEF CutInit
<1> QED BY <1>1 DEF Sides, HostSide, RmSide, UpgSide, CutSide, Kind

\* What has crossed has crossed.
LEMMA CrossedStays ==
    ASSUME CutoverNext, crossed
    PROVE  crossed'
<1>1. CASE RmNext \/ RmFails
  BY <1>1 DEF RmNext, RmFails, RmStep, RmStop, RmUnits, RmSwitch, RmReload, RmStart, RmHealthy,
     RmRollback, Inject, Counts, boundVars
<1>2. CASE CutNext
  BY <1>2 DEF CutNext, CutStep, CutStop, CutHandoff, CutRetarget, CutAuthorize, CutUnit,
     CutReload, CutStart, CutComplete, CutUndoStop, CutRevoke, CutRemoveAuthorization,
     CutRestore, CutFailureReceipt, boundVars
<1>3. CASE CutFails \/ CutBreaks \/ UpgFails \/ UpgBreaks
  BY <1>3 DEF CutFails, CutBreaks, UpgFails, UpgBreaks, Inject, Counts, boundVars
<1>4. CASE UpgNext
  BY <1>4 DEF UpgNext, UpgStep, UpgStop, UpgSnapshot, UpgHandoff, UpgArchive, UpgRotate,
     UpgUnits, UpgSwitch, UpgReload, UpgStart, UpgVerify, UpgComplete, UpgUndoStop, UpgRevoke,
     UpgFailureReceipt, UpgRestoreFile, UpgUnarchive, UpgRestore, boundVars
<1>5. CASE \/ SystemdRestart \/ ServiceDies \/ LegacyCycle \/ FastDecide \/ FastExecute
           \/ ToolDies \/ Reboot
  BY <1>5 DEF SystemdRestart, ServiceDies, LegacyCycle, FastDecide, FastExecute, ToolDies,
     Reboot, Crash, boundVars
<1>6. CASE \/ \E release \in Releases : RmActivate(release) \/ UpgBegin(release)
           \/ \E run \in FinalRuns : CutPreflight(run)
  BY <1>6 DEF RmActivate, UpgBegin, CutPreflight
<1> QED BY <1>1, <1>2, <1>3, <1>4, <1>5, <1>6 DEF CutoverNext, Progress

LEMMA LegacyStep ==
    ASSUME LegacyInv, [CutoverNext]_cutoverVars
    PROVE  LegacyInv'
<1>1. CASE UNCHANGED cutoverVars
  BY <1>1 DEF LegacyInv, Sides, HostSide, RmSide, UpgSide, CutSide, Stopped, cutoverVars,
     hostVars, authorityVars, boundVars
<1>2. CASE CutoverNext
  <2> SUFFICES ASSUME ~crossed' PROVE Sides'
    BY DEF LegacyInv
  <2>1. Sides
    BY <1>2, CrossedStays DEF LegacyInv
  <2> QED
    BY <1>2, <2>1, RmSides, CutSides, UpgSides, ServiceSides, CrashSides, InvokeSides
       DEF CutoverNext, Progress
<1> QED BY <1>1, <1>2

\* Once a Fast process has held authority, the legacy score runtime never
\* starts again, whatever fails or dies and however the operator overlaps
\* the tools, unless an activation and the cutover crossed: after the start
\* was attempted the recovery of the cutover revokes and leaves the Fast
\* unit, and activate_release is blocked.
THEOREM LegacyIsOver == CutoverSpec => LegacyNeverReturns
<1>1. LegacyInv' /\ [CutoverNext]_cutoverVars =>
         [fastStarted /\ ~crossed' /\ service'.kind = "legacy"
            => service.kind = "legacy"]_cutoverVars
  <2> SUFFICES ASSUME LegacyInv', CutoverNext, fastStarted, ~crossed'
               PROVE  service'.kind # "legacy"
    OBVIOUS
  <2>1. fastStarted'
    BY FastStays
  <2> QED BY <2>1 DEF LegacyInv, Sides, HostSide
<1>2. LegacyInv /\ [CutoverNext]_cutoverVars => LegacyInv'
  BY LegacyStep
<1> QED BY <1>1, <1>2, LegacyInit, PTL DEF CutoverSpec, LegacyNeverReturns

-----------------------------------------------------------------------------
(* The staging of releases.                                                *)

Filling == {"venv", "wheel", "cleanup", "remove"}

Owned ==
    /\ \A m \in Managers :
         /\ pc[m] # "idle" => op[m] \in ReleaseNames
         /\ pc[m] = "venv" => dir[op[m]] = "payload"
         /\ pc[m] = "wheel" => dir[op[m]] = "venv"
         /\ pc[m] \in {"cleanup", "remove"} => dir[op[m]] \in {"payload", "venv"}
    /\ \A m, n \in Managers :
         pc[m] \in Filling /\ pc[n] \in Filling /\ op[m] = op[n] => m = n

AloneFacts ==
    /\ \A m, n \in Managers : pc[m] # "idle" /\ pc[n] # "idle" => m = n
    /\ running \in {Nothing, linked}
    /\ linked # Nothing => Verifies(linked)
    /\ \A m \in Managers :
         /\ pc[m] = "stop" => prev[m] = linked
         /\ pc[m] \in {"switch", "start", "restore"} => running = Nothing
         /\ pc[m] \in {"stop", "switch"} => Verifies(op[m])
         /\ pc[m] = "remove" => linked # op[m]
Alone == ~overlapped => AloneFacts

StagingInv == StagingTypeOK /\ overlapped \in BOOLEAN /\ Owned /\ Alone

USE StagingAssumption DEF StagingAssumption

LEMMA StagingInitInv == StagingInit => StagingInv
<1> SUFFICES ASSUME StagingInit PROVE StagingInv
  OBVIOUS
<1> USE DEF StagingInit
<1>1. StagingTypeOK
  BY DEF StagingTypeOK, Contents, Steps
<1>2. Owned /\ Alone
  BY DEF Owned, Alone, AloneFacts, Filling, Verifies
<1> QED BY <1>1, <1>2 DEF StagingInv

LEMMA UnpackInv ==
    ASSUME StagingInv, NEW m \in Managers, Unpack(m)
    PROVE  StagingInv'
<1> USE DEF Unpack, Goto, At, Fail, StagingOnly
<1>1. StagingTypeOK'
  BY DEF StagingInv, StagingTypeOK, Owned, Filling, Contents, Steps
<1>2. overlapped' \in BOOLEAN
  BY DEF StagingInv
<1>3. Owned'
  BY DEF StagingInv, StagingTypeOK, Owned, Filling, Contents, Steps
<1>4. Alone'
  BY DEF StagingInv, StagingTypeOK, Owned, Alone, AloneFacts, Filling, Verifies
<1> QED BY <1>1, <1>2, <1>3, <1>4 DEF StagingInv

LEMMA PublishInv ==
    ASSUME StagingInv, NEW m \in Managers, Publish(m)
    PROVE  StagingInv'
<1> USE DEF Publish, Goto, At, Fail, StagingOnly
<1>1. StagingTypeOK'
  BY DEF StagingInv, StagingTypeOK, Owned, Filling, Contents, Steps
<1>2. overlapped' \in BOOLEAN
  BY DEF StagingInv
<1>3. Owned'
  BY DEF StagingInv, StagingTypeOK, Owned, Filling, Contents, Steps
<1>4. Alone'
  BY DEF StagingInv, StagingTypeOK, Owned, Alone, AloneFacts, Filling, Verifies
<1> QED BY <1>1, <1>2, <1>3, <1>4 DEF StagingInv

LEMMA MakeVenvInv ==
    ASSUME StagingInv, NEW m \in Managers, MakeVenv(m)
    PROVE  StagingInv'
<1> USE DEF MakeVenv, Goto, At, Fail, StagingOnly
<1>1. StagingTypeOK'
  BY DEF StagingInv, StagingTypeOK, Owned, Filling, Contents, Steps
<1>2. overlapped' \in BOOLEAN
  BY DEF StagingInv
<1>3. Owned'
  BY DEF StagingInv, StagingTypeOK, Owned, Filling, Contents, Steps
<1>4. Alone'
  BY DEF StagingInv, StagingTypeOK, Owned, Alone, AloneFacts, Filling, Verifies
<1> QED BY <1>1, <1>2, <1>3, <1>4 DEF StagingInv

LEMMA InstallWheelInv ==
    ASSUME StagingInv, NEW m \in Managers, InstallWheel(m)
    PROVE  StagingInv'
<1> USE DEF InstallWheel, Goto, At, Fail, StagingOnly
<1>1. StagingTypeOK'
  BY DEF StagingInv, StagingTypeOK, Owned, Filling, Contents, Steps
<1>2. overlapped' \in BOOLEAN
  BY DEF StagingInv
<1>3. Owned'
  BY DEF StagingInv, StagingTypeOK, Owned, Filling, Contents, Steps
<1>4. Alone'
  BY DEF StagingInv, StagingTypeOK, Owned, Alone, AloneFacts, Filling, Verifies
<1> QED BY <1>1, <1>2, <1>3, <1>4 DEF StagingInv

LEMMA CleanupInv ==
    ASSUME StagingInv, NEW m \in Managers, Cleanup(m)
    PROVE  StagingInv'
<1> USE DEF Cleanup, Goto, At, Fail, StagingOnly
<1>1. StagingTypeOK'
  BY DEF StagingInv, StagingTypeOK, Owned, Filling, Contents, Steps
<1>2. overlapped' \in BOOLEAN
  BY DEF StagingInv
<1>3. Owned'
  BY DEF StagingInv, StagingTypeOK, Owned, Filling, Contents, Steps
<1>4. Alone'
  BY DEF StagingInv, StagingTypeOK, Owned, Alone, AloneFacts, Filling, Verifies
<1> QED BY <1>1, <1>2, <1>3, <1>4 DEF StagingInv

LEMMA RemoveInv ==
    ASSUME StagingInv, NEW m \in Managers, Remove(m)
    PROVE  StagingInv'
<1> USE DEF Remove, Goto, At, Fail, StagingOnly
<1>1. StagingTypeOK'
  BY DEF StagingInv, StagingTypeOK, Owned, Filling, Contents, Steps
<1>2. overlapped' \in BOOLEAN
  BY DEF StagingInv
<1>3. Owned'
  BY DEF StagingInv, StagingTypeOK, Owned, Filling, Contents, Steps
<1>4. Alone'
  BY DEF StagingInv, StagingTypeOK, Owned, Alone, AloneFacts, Filling, Verifies
<1> QED BY <1>1, <1>2, <1>3, <1>4 DEF StagingInv

LEMMA PreflightInv ==
    ASSUME StagingInv, NEW m \in Managers, Preflight(m)
    PROVE  StagingInv'
<1> USE DEF Preflight, Goto, At, Fail, ActivationOnly
<1>1. StagingTypeOK'
  BY DEF StagingInv, StagingTypeOK, Owned, Filling, Contents, Steps
<1>2. overlapped' \in BOOLEAN
  BY DEF StagingInv
<1>3. Owned'
  BY DEF StagingInv, StagingTypeOK, Owned, Filling, Contents, Steps
<1>4. Alone'
  BY DEF StagingInv, StagingTypeOK, Owned, Alone, AloneFacts, Filling, Verifies
<1> QED BY <1>1, <1>2, <1>3, <1>4 DEF StagingInv

LEMMA StopRuntimeInv ==
    ASSUME StagingInv, NEW m \in Managers, StopRuntime(m)
    PROVE  StagingInv'
<1> USE DEF StopRuntime, Goto, At, Fail, ActivationOnly
<1>1. StagingTypeOK'
  BY DEF StagingInv, StagingTypeOK, Owned, Filling, Contents, Steps
<1>2. overlapped' \in BOOLEAN
  BY DEF StagingInv
<1>3. Owned'
  BY DEF StagingInv, StagingTypeOK, Owned, Filling, Contents, Steps
<1>4. Alone'
  BY DEF StagingInv, StagingTypeOK, Owned, Alone, AloneFacts, Filling, Verifies
<1> QED BY <1>1, <1>2, <1>3, <1>4 DEF StagingInv

LEMMA SwitchInv ==
    ASSUME StagingInv, NEW m \in Managers, Switch(m)
    PROVE  StagingInv'
<1> USE DEF Switch, Goto, At, Fail, ActivationOnly
<1>1. StagingTypeOK'
  BY DEF StagingInv, StagingTypeOK, Owned, Filling, Contents, Steps
<1>2. overlapped' \in BOOLEAN
  BY DEF StagingInv
<1>3. Owned'
  BY DEF StagingInv, StagingTypeOK, Owned, Filling, Contents, Steps
<1>4. Alone'
  BY DEF StagingInv, StagingTypeOK, Owned, Alone, AloneFacts, Filling, Verifies
<1> QED BY <1>1, <1>2, <1>3, <1>4 DEF StagingInv

LEMMA StartInv ==
    ASSUME StagingInv, NEW m \in Managers, Start(m)
    PROVE  StagingInv'
<1> USE DEF Start, Goto, At, Fail, ActivationOnly
<1>1. StagingTypeOK'
  BY DEF StagingInv, StagingTypeOK, Owned, Filling, Contents, Steps
<1>2. overlapped' \in BOOLEAN
  BY DEF StagingInv
<1>3. Owned'
  BY DEF StagingInv, StagingTypeOK, Owned, Filling, Contents, Steps
<1>4. Alone'
  BY DEF StagingInv, StagingTypeOK, Owned, Alone, AloneFacts, Filling, Verifies
<1> QED BY <1>1, <1>2, <1>3, <1>4 DEF StagingInv

LEMMA HealthInv ==
    ASSUME StagingInv, NEW m \in Managers, Health(m)
    PROVE  StagingInv'
<1> USE DEF Health, Goto, At, Fail, ActivationOnly
<1>1. StagingTypeOK'
  BY DEF StagingInv, StagingTypeOK, Owned, Filling, Contents, Steps
<1>2. overlapped' \in BOOLEAN
  BY DEF StagingInv
<1>3. Owned'
  BY DEF StagingInv, StagingTypeOK, Owned, Filling, Contents, Steps
<1>4. Alone'
  BY DEF StagingInv, StagingTypeOK, Owned, Alone, AloneFacts, Filling, Verifies
<1> QED BY <1>1, <1>2, <1>3, <1>4 DEF StagingInv

LEMMA RollbackInv ==
    ASSUME StagingInv, NEW m \in Managers, Rollback(m)
    PROVE  StagingInv'
<1> USE DEF Rollback, Goto, At, Fail, ActivationOnly
<1>1. StagingTypeOK'
  BY DEF StagingInv, StagingTypeOK, Owned, Filling, Contents, Steps
<1>2. overlapped' \in BOOLEAN
  BY DEF StagingInv
<1>3. Owned'
  BY DEF StagingInv, StagingTypeOK, Owned, Filling, Contents, Steps
<1>4. Alone'
  BY DEF StagingInv, StagingTypeOK, Owned, Alone, AloneFacts, Filling, Verifies
<1> QED BY <1>1, <1>2, <1>3, <1>4 DEF StagingInv

LEMMA RestoreInv ==
    ASSUME StagingInv, NEW m \in Managers, Restore(m)
    PROVE  StagingInv'
<1> USE DEF Restore, Goto, At, Fail, ActivationOnly
<1>1. StagingTypeOK'
  BY DEF StagingInv, StagingTypeOK, Owned, Filling, Contents, Steps
<1>2. overlapped' \in BOOLEAN
  BY DEF StagingInv
<1>3. Owned'
  BY DEF StagingInv, StagingTypeOK, Owned, Filling, Contents, Steps
<1>4. Alone'
  BY DEF StagingInv, StagingTypeOK, Owned, Alone, AloneFacts, Filling, Verifies
<1> QED BY <1>1, <1>2, <1>3, <1>4 DEF StagingInv

LEMMA InstallInv ==
    ASSUME StagingInv, NEW m \in Managers, NEW r \in ReleaseNames, Install(m, r)
    PROVE  StagingInv'
<1> USE DEF Install, Begins, Goto, At
<1>1. StagingTypeOK'
  BY DEF StagingInv, StagingTypeOK, Owned, Filling, Contents, Steps
<1>2. overlapped' \in BOOLEAN
  BY DEF StagingInv
<1>3. Owned'
  BY DEF StagingInv, StagingTypeOK, Owned, Filling, Contents, Steps
<1>4. Alone'
  <2> SUFFICES ASSUME ~overlapped' PROVE AloneFacts'
    BY DEF Alone
  <2>1. ~overlapped /\ \A n \in Managers : pc[n] = "idle"
    BY DEF StagingInv
  <2> QED BY <2>1 DEF StagingInv, StagingTypeOK, Alone, AloneFacts, Verifies
<1> QED BY <1>1, <1>2, <1>3, <1>4 DEF StagingInv

LEMMA ActivateExistingInv ==
    ASSUME StagingInv, NEW m \in Managers, NEW r \in ReleaseNames, ActivateExisting(m, r)
    PROVE  StagingInv'
<1> USE DEF ActivateExisting, Begins, Goto, At
<1>1. StagingTypeOK'
  BY DEF StagingInv, StagingTypeOK, Owned, Filling, Contents, Steps
<1>2. overlapped' \in BOOLEAN
  BY DEF StagingInv
<1>3. Owned'
  BY DEF StagingInv, StagingTypeOK, Owned, Filling, Contents, Steps
<1>4. Alone'
  <2> SUFFICES ASSUME ~overlapped' PROVE AloneFacts'
    BY DEF Alone
  <2>1. ~overlapped /\ \A n \in Managers : pc[n] = "idle"
    BY DEF StagingInv
  <2> QED BY <2>1 DEF StagingInv, StagingTypeOK, Alone, AloneFacts, Verifies
<1> QED BY <1>1, <1>2, <1>3, <1>4 DEF StagingInv

LEMMA KilledInv ==
    ASSUME StagingInv, NEW m \in Managers, CommandKilled(m)
    PROVE  StagingInv'
<1> USE DEF CommandKilled, Goto
<1>1. StagingTypeOK'
  BY DEF StagingInv, StagingTypeOK, Owned, Filling, Contents, Steps
<1>2. overlapped' \in BOOLEAN
  BY DEF StagingInv
<1>3. Owned'
  BY DEF StagingInv, StagingTypeOK, Owned, Filling, Contents, Steps
<1>4. Alone'
  BY DEF StagingInv, StagingTypeOK, Owned, Alone, AloneFacts, Filling, Verifies
<1> QED BY <1>1, <1>2, <1>3, <1>4 DEF StagingInv

LEMMA RebootInv ==
    ASSUME StagingInv, HostReboots
    PROVE  StagingInv'
<1> USE DEF HostReboots
<1>1. StagingTypeOK'
  BY DEF StagingInv, StagingTypeOK, Owned, Filling, Contents, Steps
<1>2. overlapped' \in BOOLEAN
  BY DEF StagingInv
<1>3. Owned'
  BY DEF StagingInv, StagingTypeOK, Owned, Filling, Contents, Steps
<1>4. Alone'
  BY DEF StagingInv, StagingTypeOK, Owned, Alone, AloneFacts, Filling, Verifies
<1> QED BY <1>1, <1>2, <1>3, <1>4 DEF StagingInv

-----------------------------------------------------------------------------
LEMMA StagingStep == StagingInv /\ [StagingNext]_stagingVars => StagingInv'
<1> SUFFICES ASSUME StagingInv, [StagingNext]_stagingVars PROVE StagingInv'
  OBVIOUS
<1>1. CASE UNCHANGED stagingVars
  BY <1>1 DEF stagingVars, StagingInv, StagingTypeOK, Owned, Alone, AloneFacts, Filling,
              Verifies
<1>2. CASE \E m \in Managers, r \in ReleaseNames : Install(m, r) \/ ActivateExisting(m, r)
  BY <1>2, InstallInv, ActivateExistingInv
<1>3. CASE \E m \in Managers : Stages(m)
  BY <1>3, UnpackInv, PublishInv, MakeVenvInv, InstallWheelInv, CleanupInv,
     RemoveInv DEF Stages
<1>4. CASE \E m \in Managers : Activates(m)
  BY <1>4, PreflightInv, StopRuntimeInv, SwitchInv, StartInv, HealthInv,
     RollbackInv, RestoreInv DEF Activates
<1>5. CASE \E m \in Managers : CommandKilled(m)
  BY <1>5, KilledInv
<1>6. CASE HostReboots
  BY <1>6, RebootInv
<1> QED BY <1>1, <1>2, <1>3, <1>4, <1>5, <1>6 DEF StagingNext

LEMMA StagingInvariance == StagingSpec => []StagingInv
<1> QED BY StagingInitInv, StagingStep, PTL DEF StagingSpec

(***************************************************************************)
(* Theorems.                                                               *)
(***************************************************************************)

\* As long as one command runs at a time, whatever fails or is killed, the
\* units run the release the link names, and that release has its payload and
\* a Python.
THEOREM HostAlwaysRuns == StagingSpec => []HostRuns
<1>1. StagingInv => HostRuns
  BY DEF StagingInv, HostRuns, CurrentHasPython, RunsWhatItNames, Alone, AloneFacts
<1> QED BY <1>1, StagingInvariance, PTL

\* Whatever any number of commands do at the same time, a release that was
\* staged to its end is never taken apart or changed.
THEOREM CompleteReleasesStay == StagingSpec => CompleteStays
<1> DEFINE Stay == \A r \in ReleaseNames : dir[r] = "complete" => dir'[r] = "complete"
<1>1. StagingInv /\ [StagingNext]_stagingVars => [Stay]_stagingVars
  <2> SUFFICES ASSUME StagingInv, StagingNext PROVE Stay
    BY DEF stagingVars
  <2>1. CASE UNCHANGED dir
    BY <2>1
  <2>2. ASSUME NEW m \in Managers,
               Publish(m) \/ MakeVenv(m) \/ InstallWheel(m) \/ Remove(m)
        PROVE  Stay
    BY <2>2 DEF Publish, MakeVenv, InstallWheel, Remove, At, StagingInv, Owned,
                StagingTypeOK
  <2> QED
    BY <2>1, <2>2
    DEF StagingNext, Stages, Activates, Install, ActivateExisting, Unpack, Cleanup,
        StagingOnly, Preflight, StopRuntime, Switch, Start, Health, Rollback,
        Restore, ActivationOnly, CommandKilled, HostReboots
<1> QED BY <1>1, StagingInvariance, PTL DEF StagingSpec, CompleteStays
=============================================================================
