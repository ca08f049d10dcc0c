---------------------------- MODULE RiskControl -----------------------------
(***************************************************************************)
(* The operator's risk-control file (shreks_brain/risk_control/state.py)   *)
(* and the actors that change it: the host's command line and dashboard    *)
(* browsers.  An actor reads the state, decides, and later issues a command*)
(* with the revision it read; the command is decided under an exclusive    *)
(* file lock and replaces the file atomically.  An actor may die, or its   *)
(* write may fail, before or after the file was replaced.                  *)
(*                                                                         *)
(* The file is absent until it is initialized.  Timestamps come from the   *)
(* actor's clock, which may stand behind the file's (a host whose clock was*)
(* set back).  Reasons and the last command's name are left out.           *)
(***************************************************************************)
EXTENDS Integers

CONSTANTS
    Hosts,         \* host command-line invocations
    Browsers,      \* dashboard requests
    None,          \* no file, no revision seen, no lock holder, no job
    Times,         \* the timestamps a clock may show
    MaxRevision    \* bound: the last revision

ASSUME ActorAssumption ==
    /\ Hosts \cap Browsers = {}
    /\ None \notin Hosts \cup Browsers
    /\ Times \subseteq Nat
    /\ MaxRevision \in Nat
    /\ None \notin [revision : Nat, halt : BOOLEAN, kill : BOOLEAN, updated : Nat]

Actors == Hosts \cup Browsers

Commands == {"HALT", "KILL", "RESET", "CLEAR"}
Relaxing == {"RESET", "CLEAR"}

VARIABLES
    control,  \* the file: [revision, halt, kill, updated], or None
    holder,   \* who holds the lock
    seen,     \* actor -> the revision it read last, the one it will expect
    job       \* actor -> the state it decided under the lock, not yet written

vars == <<control, holder, seen, job>>

ControlStates ==
    [revision : Nat, halt : BOOLEAN, kill : BOOLEAN, updated : Nat]

Init ==
    /\ control = None
    /\ holder = None
    /\ seen = [a \in Actors |-> None]
    /\ job = [a \in Actors |-> None]

\* `initialize' of the command line: only where there is no file.
Initialize(a, at) ==
    /\ a \in Hosts /\ control = None /\ holder = None
    /\ control' = [revision |-> 0, halt |-> FALSE, kill |-> FALSE, updated |-> at]
    /\ UNCHANGED <<holder, seen, job>>

\* An actor reads the file, without the lock.
Look(a) ==
    /\ control # None
    /\ seen' = [seen EXCEPT ![a] = control.revision]
    /\ UNCHANGED <<control, holder, job>>

\* Mutant: the expected revision is not compared.
AcceptsAnyRevision(a, command, at) ==
    /\ command \in Relaxing => a \in Hosts
    /\ control # None /\ seen[a] # None
    /\ at >= control.updated
    /\ command = "RESET" => control.kill
    /\ command = "CLEAR" => control.halt /\ ~control.kill

\* What the authority accepts; anything else raises and changes nothing.
Accepts(a, command, at) ==
    /\ command \in Relaxing => a \in Hosts
    /\ control # None /\ seen[a] = control.revision
    /\ at >= control.updated
    /\ command = "RESET" => control.kill
    /\ command = "CLEAR" => control.halt /\ ~control.kill

\* Mutant: the kill switch leaves the entry halt as it is.
AfterKillWithoutHalt(command, at) ==
    [revision |-> control.revision + 1, updated |-> at,
     halt |-> command = "HALT" \/ (command # "CLEAR" /\ control.halt),
     kill |-> command = "KILL" \/ (command = "HALT" /\ control.kill)]

\* Only CLEAR leaves no halt, and it is accepted only without the kill switch;
\* RESET leaves the halt.
After(command, at) ==
    [revision |-> control.revision + 1, updated |-> at,
     halt |-> command # "CLEAR",
     kill |-> command = "KILL" \/ (command = "HALT" /\ control.kill)]

\* Mutant: a command is decided without taking the lock.
DecideUnlocked(a, command, at) ==
    /\ job[a] = None
    /\ Accepts(a, command, at)
    /\ control.revision < MaxRevision
    /\ holder' = a
    /\ job' = [job EXCEPT ![a] = After(command, at)]
    /\ UNCHANGED <<control, seen>>

\* apply_operator_risk_control_command up to the write: the lock is taken, the
\* file loaded and the command decided.
Decide(a, command, at) ==
    /\ holder = None
    /\ Accepts(a, command, at)
    /\ control.revision < MaxRevision
    /\ holder' = a
    /\ job' = [job EXCEPT ![a] = After(command, at)]
    /\ UNCHANGED <<control, seen>>

\* The file is replaced and the lock released, whether or not what follows the
\* replacement (chmod, directory fsync) fails and reports the command failed.
Replace(a) ==
    /\ job[a] # None
    /\ control' = job[a]
    /\ job' = [job EXCEPT ![a] = None]
    /\ holder' = None
    /\ UNCHANGED seen

\* The write fails or the actor dies before the replacement: the operating
\* system releases the lock, the file is as it was.
Abandon(a) ==
    /\ job[a] # None
    /\ job' = [job EXCEPT ![a] = None]
    /\ holder' = None
    /\ UNCHANGED <<control, seen>>

Next ==
    \/ \E a \in Actors, at \in Times : Initialize(a, at)
    \/ \E a \in Actors : Look(a)
    \/ \E a \in Actors, command \in Commands, at \in Times : Decide(a, command, at)
    \/ \E a \in Actors : Replace(a)
    \/ \E a \in Actors : Abandon(a)

Spec == Init /\ [][Next]_vars

-----------------------------------------------------------------------------
(* Properties.                                                             *)

\* The file, when there is one, is a state its constructor accepts: above all
\* the kill switch is never active without the entry halt.  A decided command
\* is written only while its actor holds the lock.
TypeOK ==
    /\ control \in ControlStates \cup {None}
    /\ control # None => (control.kill => control.halt)
    /\ holder \in Actors \cup {None}
    /\ job \in [Actors -> ControlStates \cup {None}]
    /\ \A a \in Actors : job[a] # None => holder = a
    /\ seen \in [Actors -> Nat \cup {None}]

Halted == control # None /\ control.halt
Killed == control # None /\ control.kill

\* Safety is relaxed only by the host, only one flag at a time, and only by an
\* actor that has read the very state it relaxes: a command decided on an older
\* state than the last safety command never undoes it.
RelaxedKnowingly ==
    [][(Halted /\ ~Halted') \/ (Killed /\ ~Killed') =>
          /\ holder \in Hosts
          /\ seen[holder] = control.revision
          /\ Killed => Halted']_vars

\* Every change of the file is one revision on the one before: no accepted
\* command is lost to a concurrent one, and time does not run backwards in it.
NothingLost ==
    [][control # None /\ control' # control =>
          /\ control' # None
          /\ control'.revision = control.revision + 1
          /\ control'.updated >= control.updated]_vars

\* The flags of the file are the operator controls the campaign reads; before
\* the file exists they count as not set.
Flags == INSTANCE OperatorControls WITH halt <- Halted, kill <- Killed

ImplementsControls == Flags!Spec
=============================================================================
