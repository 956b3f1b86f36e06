------------------------------ MODULE Launcher ------------------------------
(***************************************************************************)
(* scripts/start_instances_from_allocation.py under scripts/t3_e2e.sh: one *)
(* experiment starts the instances of allocation.json one after the other, *)
(* each once the one before answers /health, and writes their pids to      *)
(* instances.json when all are up; the script's exit trap stops the        *)
(* processes that file names.  The file survives the experiment, instances *)
(* may die or stay silent, and the operating system hands out the pids of  *)
(* dead processes again, to other processes and other users too: the       *)
(* PermissionError of a signal to another user's process is not caught and *)
(* ends the stop where it is (the trap ignores its exit status).           *)
(***************************************************************************)
EXTENDS Integers, FiniteSets, SequencesExt

CONSTANTS
    Pids,
    Allocations,  \* possible allocation.json: the GPUs of each instance
    NumGpus,  \* devices in CUDA_VISIBLE_DEVICES
    MaxRuns,  \* bound on the experiments
    Faults    \* subset of {"silent", "die", "other"}

ASSUME LauncherAssumption ==
    /\ Allocations \subseteq Seq(Nat \ {0}) /\ {NumGpus, MaxRuns} \subseteq Nat
    /\ Faults \subseteq {"silent", "die", "other"}

VARIABLES
    script,     \* where the script stands
    run,        \* number of the experiment
    wanted,     \* its allocation.json
    available,  \* available_gpus
    instances,  \* pids of the instances that became healthy
    waitingFor, \* the pid _wait_health waits for, as a set
    file,       \* instances.json: the pids in order
    at,         \* the item that the current loop of _stop looks at
    refused,    \* the loop in which the latest stop ended early, or "none"
    procs       \* live processes: pid -> [run, gpus, port, own]; run 0 is no
                \* instance, own says that the script's user may signal it
stop == <<at, refused>>
vars == <<script, run, wanted, available, instances, waitingFor, file, stop, procs>>

Live == DOMAIN procs
Without(S) == [p \in Live \ S |-> procs[p]]
With(p, x) == [q \in Live \cup {p} |-> IF q = p THEN x ELSE procs[q]]

Init ==
    /\ script = "down" /\ run = 0 /\ wanted = <<>> /\ available = <<>> /\ instances = <<>>
    /\ waitingFor = {} /\ file = <<>> /\ procs = <<>>
    /\ at = 1 /\ refused = "none"

Begin ==
    /\ script = "down" /\ run < MaxRuns
    /\ script' = "starting" /\ run' = run + 1 /\ wanted' \in Allocations
    /\ available' = [i \in 1..NumGpus |-> i] /\ instances' = <<>>
    /\ UNCHANGED <<waitingFor, file, stop, procs>>

\* The script exits: its trap runs _stop on the file, whoever wrote it.
Exit == script' = "terminate" /\ at' = 1 /\ refused' = "none"

\* "set -e": the workload or the controller fails before any instance starts.
EarlyExit ==
    /\ script = "starting" /\ instances = <<>> /\ waitingFor = {}
    /\ Exit
    /\ UNCHANGED <<run, wanted, available, instances, waitingFor, file, procs>>

Starting == script = "starting" /\ waitingFor = {} /\ Len(instances) < Len(wanted)
Need == wanted[Len(instances) + 1]

\* The next instance: ports count up from base_port in every run.
Instance == [run |-> run, gpus |-> ToSet(SubSeq(available, 1, Need)),
             port |-> Len(instances) + 1, own |-> TRUE]

\* "not enough CUDA_VISIBLE_DEVICES": SystemExit.
NotEnoughGpus ==
    /\ Starting /\ Len(available) < Need
    /\ Exit
    /\ UNCHANGED <<run, wanted, available, instances, waitingFor, file, procs>>

\* Mutant: the assigned GPUs stay available.
SpawnKeepsGpus(p) ==
    /\ Starting /\ Len(available) >= Need /\ p \notin Live
    /\ procs' = With(p, Instance)
    /\ waitingFor' = {p}
    /\ UNCHANGED <<script, run, wanted, available, instances, file, stop>>

\* _start_instance, with the first of the available GPUs.
Spawn(p) ==
    /\ Starting /\ Len(available) >= Need /\ p \notin Live
    /\ procs' = With(p, Instance)
    /\ available' = SubSeq(available, Need + 1, Len(available))
    /\ waitingFor' = {p}
    /\ UNCHANGED <<script, run, wanted, instances, file, stop>>

\* /health answers on the port, and the instance joins the list.  An orphan of
\* an earlier run answers there as well.
Healthy(p) ==
    /\ script = "starting" /\ waitingFor = {p}
    /\ \E q \in Live : procs[q].port = Len(instances) + 1
    /\ instances' = Append(instances, p) /\ waitingFor' = {}
    /\ UNCHANGED <<script, run, wanted, available, file, stop, procs>>

\* The port is an orphan's: the new instance cannot bind it and exits.
BindFails(p) ==
    /\ \E q \in Live : /\ procs[q].port = procs[p].port /\ procs[p].port # 0
                       /\ procs[q].run < procs[p].run
    /\ procs' = Without({p})
    /\ UNCHANGED <<script, run, wanted, available, instances, waitingFor, file, stop>>

\* 120 s without an answer: SystemExit.
HealthTimeout ==
    /\ script = "starting" /\ waitingFor # {}
    /\ "silent" \in Faults \/ waitingFor \cap Live = {}
    /\ Exit /\ waitingFor' = {}
    /\ UNCHANGED <<run, wanted, available, instances, file, procs>>

\* Mutant: only the last group's instances are written.
WriteStateLast ==
    /\ script = "starting" /\ Len(instances) = Len(wanted)
    /\ file' = <<Last(instances)>> /\ script' = "up"
    /\ UNCHANGED <<run, wanted, available, instances, waitingFor, stop, procs>>

\* All are up: state_path.write_text.
WriteState ==
    /\ script = "starting" /\ Len(instances) = Len(wanted)
    /\ file' = instances /\ script' = "up"
    /\ UNCHANGED <<run, wanted, available, instances, waitingFor, stop, procs>>

\* The workload ends, cannot be submitted, or its waiting loop gives up.
EndOfWork ==
    /\ script = "up" /\ Exit
    /\ UNCHANGED <<run, wanted, available, instances, waitingFor, file, procs>>

Item == file[at]

\* A loop of _stop looks at its next item; ProcessLookupError (a dead pid) is
\* caught.
Visit(loop) ==
    /\ script = loop /\ at \in DOMAIN file
    /\ Item \in Live => procs[Item].own
    /\ at' = at + 1
    /\ UNCHANGED <<script, run, wanted, available, instances, waitingFor, file, refused>>

\* SIGTERM: the process exits at once or lingers.
Terminate ==
    /\ Visit("terminate")
    /\ \E S \in SUBSET ({Item} \cap Live) : procs' = Without(S)

\* The last of the passes that ask, for at most 20 s, who is still alive; the
\* ones before it leave nothing behind.
Poll == Visit("poll") /\ UNCHANGED procs

\* SIGKILL.
Kill == Visit("kill") /\ procs' = Without({Item})

\* PermissionError: the process is another user's, and _stop ends here.
Refused ==
    /\ script \in {"terminate", "poll", "kill"} /\ at \in DOMAIN file
    /\ Item \in Live /\ ~procs[Item].own
    /\ script' = "down" /\ refused' = script
    /\ UNCHANGED <<run, wanted, available, instances, waitingFor, file, at, procs>>

\* Mutant: what survives the SIGTERM is waited for, but never killed.
EndLoopNoKill ==
    /\ script \in {"terminate", "poll"} /\ at = Len(file) + 1
    /\ script' = (IF script = "terminate" THEN "poll" ELSE "down")
    /\ at' = 1
    /\ UNCHANGED <<run, wanted, available, instances, waitingFor, file, refused, procs>>

\* The file ends, and the next loop starts over.
EndLoop ==
    /\ script \in {"terminate", "poll", "kill"} /\ at = Len(file) + 1
    /\ script' = [terminate |-> "poll", poll |-> "kill", kill |-> "down"][script]
    /\ at' = 1
    /\ UNCHANGED <<run, wanted, available, instances, waitingFor, file, refused, procs>>

\* Processes end by themselves; dead pids are handed out again.
Die(p) ==
    /\ procs[p].run = 0 \/ "die" \in Faults
    /\ procs' = Without({p})
    /\ UNCHANGED <<script, run, wanted, available, instances, waitingFor, file, stop>>

OtherProcess(p) ==
    /\ "other" \in Faults /\ p \notin Live
    /\ \E own \in BOOLEAN :
          procs' = With(p, [run |-> 0, gpus |-> {}, port |-> 0, own |-> own])
    /\ UNCHANGED <<script, run, wanted, available, instances, waitingFor, file, stop>>

Next ==
    \/ Begin \/ EarlyExit \/ NotEnoughGpus \/ HealthTimeout
    \/ WriteState \/ EndOfWork
    \/ Terminate \/ Poll \/ Kill \/ Refused \/ EndLoop
    \/ \E p \in Pids : Spawn(p) \/ Healthy(p) \/ OtherProcess(p)
    \/ \E p \in Live : Die(p) \/ BindFails(p)

Spec == Init /\ [][Next]_vars
-----------------------------------------------------------------------------
Instances == {p \in Live : procs[p].run # 0}

\* The instances of one experiment never share a GPU, whichever of them died and
\* whichever pid was handed out again.
RunGpusDisjoint ==
    \A p, q \in Instances :
        p # q /\ procs[p].run = procs[q].run => procs[p].gpus \cap procs[q].gpus = {}

\* The stop ended at another user's process and p is not it; when that was in the
\* kill loop, the file names p behind it only.
Spared(p) ==
    /\ refused # "none" /\ p \in ToSet(file)
    /\ \A j \in (IF refused = "kill" THEN 1 ELSE at)..at : file[j] # p

\* After the exit trap an instance that the file names, or whose experiment came
\* up, lives on only where _stop ended early, at a pid that another user's process
\* has got in the meantime, before it could kill the instance.  A failed start
\* is included, whose trap reads an earlier experiment's file.
OnlySparedSurvive ==
    script = "down" => \A p \in Instances :
        \/ p \in ToSet(file)
        \/ procs[p].run = run /\ Len(instances) = Len(wanted)
        => Spared(p)
=============================================================================
