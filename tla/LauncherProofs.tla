--------------------------- MODULE LauncherProofs ---------------------------
(* Theorems about Launcher, for every allocation, number of GPUs, number of  *)
(* experiments and choice of faults.                                         *)
EXTENDS Launcher, TLAPS

Loops == {"terminate", "poll", "kill"}
Scripts == {"down", "starting", "up"} \cup Loops

LauncherTypeOK ==
    /\ script \in Scripts
    /\ run \in Nat
    /\ wanted \in Seq(Nat \ {0})
    /\ available \in Seq(Int)
    /\ instances \in Seq(Pids)
    /\ waitingFor \subseteq Pids
    /\ file \in Seq(Pids)
    /\ at \in Nat \ {0}
    /\ refused \in {"none"} \cup Loops
    /\ \A p \in Live : /\ procs[p].run \in Nat /\ procs[p].run <= run
                       /\ procs[p].run # 0 => procs[p].own

\* The instances of the experiment under way.
Current == {p \in Live : procs[p].run = run /\ run # 0}

\* No device is listed twice, and what is available belongs to nobody.
GpusFree ==
    /\ \A i, j \in 1 .. Len(available) : available[i] = available[j] => i = j
    /\ \A p \in Current : procs[p].gpus \cap ToSet(available) = {}

\* The script knows the instances of its experiment: it waits for one and lists
\* the others.  When all came up the file names them.
Known ==
    /\ script # "starting" => waitingFor = {}
    /\ waitingFor # {} => Len(instances) < Len(wanted)
    /\ script = "starting" => Current \subseteq ToSet(instances) \cup waitingFor
    /\ script # "starting" /\ Len(instances) = Len(wanted) => Current \subseteq ToSet(file)

\* Behind the kill loop there is no instance, and none is where a stop ended early.
Stopping ==
    /\ script \in Loops => refused = "none"
    /\ script = "kill" => \A j \in DOMAIN file : j < at => file[j] \notin Instances
    /\ script = "down" /\ refused = "none" => \A j \in DOMAIN file : file[j] \notin Instances
    /\ script = "down" /\ refused # "none" => at \in DOMAIN file /\ file[at] \notin Instances
    /\ script = "down" /\ refused = "kill" =>
          \A j \in DOMAIN file : j < at => file[j] \notin Instances

LauncherInv == LauncherTypeOK /\ GpusFree /\ RunGpusDisjoint /\ Known /\ Stopping

\* The process table without some pids.
LEMMA WithoutDef ==
    ASSUME NEW S, procs' = Without(S)
    PROVE  Live' = Live \ S /\ \A p \in Live \ S : procs'[p] = procs[p]
  BY DEF Without, Live

\* Processes that end take nothing from the others.
LEMMA EndStep ==
    ASSUME LauncherTypeOK, GpusFree, RunGpusDisjoint,
           NEW S, Live' = Live \ S, \A p \in Live \ S : procs'[p] = procs[p],
           UNCHANGED <<run, wanted, available, instances, waitingFor, file, refused>>,
           script' \in Scripts, at' \in Nat \ {0}
    PROVE  /\ LauncherTypeOK' /\ GpusFree' /\ RunGpusDisjoint'
           /\ Current' = Current \ S /\ Instances' = Instances \ S
  <1>1. LauncherTypeOK'
    BY DEF LauncherTypeOK
  <1>2. Current' = Current \ S
    BY DEF Current
  <1>3. GpusFree'
    BY <1>2 DEF GpusFree, Current
  <1>4. RunGpusDisjoint' /\ Instances' = Instances \ S
    BY DEF RunGpusDisjoint, Instances
  <1> QED BY <1>1, <1>2, <1>3, <1>4

\* The first GPUs of the list are not in the rest of it.
LEMMA SplitGpus ==
    ASSUME NEW s \in Seq(Int), NEW n \in Nat, n <= Len(s),
           \A i, j \in 1 .. Len(s) : s[i] = s[j] => i = j
    PROVE  LET head == SubSeq(s, 1, n)
               tail == SubSeq(s, n + 1, Len(s))
           IN  /\ tail \in Seq(Int)
               /\ \A i, j \in 1 .. Len(tail) : tail[i] = tail[j] => i = j
               /\ ToSet(head) \cap ToSet(tail) = {}
               /\ ToSet(head) \subseteq ToSet(s) /\ ToSet(tail) \subseteq ToSet(s)
  <1> DEFINE head == SubSeq(s, 1, n)
             tail == SubSeq(s, n + 1, Len(s))
  <1>1. /\ head \in Seq(Int) /\ Len(head) = n
        /\ \A i \in 1 .. n : head[i] = s[i]
    OBVIOUS
  <1>2. /\ tail \in Seq(Int) /\ Len(tail) = Len(s) - n
        /\ \A i \in 1 .. Len(s) - n : tail[i] = s[i + n]
    OBVIOUS
  <1>3. DOMAIN s = 1 .. Len(s) /\ Len(s) \in Nat
        /\ DOMAIN head = 1 .. n /\ DOMAIN tail = 1 .. Len(s) - n
    BY <1>1, <1>2
  <1> HIDE DEF head, tail
  <1>4. \A i \in 1 .. Len(s) - n : i + n \in 1 .. Len(s)
    BY <1>3
  <1>5. \A i, j \in 1 .. Len(tail) : tail[i] = tail[j] => i = j
    <2> SUFFICES ASSUME NEW i \in 1 .. Len(tail), NEW j \in 1 .. Len(tail),
                        tail[i] = tail[j]
                 PROVE  i = j
      OBVIOUS
    <2>1. i + n \in 1 .. Len(s) /\ j + n \in 1 .. Len(s)
      BY <1>2, <1>4
    <2>2. tail[i] = s[i + n] /\ tail[j] = s[j + n]
      BY <1>2
    <2>3. s[i + n] = s[j + n]
      BY <2>2
    <2>4. i + n = j + n
      BY <2>1, <2>3
    <2> QED BY <1>2, <1>3, <2>4
  <1>6. ToSet(head) \subseteq ToSet(s)
    BY <1>1, <1>3 DEF ToSet
  <1>7. ToSet(tail) \subseteq ToSet(s)
    <2> SUFFICES ASSUME NEW g \in ToSet(tail)
                 PROVE  g \in ToSet(s)
      OBVIOUS
    <2>1. PICK i \in DOMAIN tail : g = tail[i]
      BY DEF ToSet
    <2>2. i + n \in DOMAIN s /\ g = s[i + n]
      BY <1>2, <1>3, <1>4, <2>1
    <2> QED BY <2>2 DEF ToSet
  <1>8. ToSet(head) \cap ToSet(tail) = {}
    <2> SUFFICES ASSUME NEW i \in 1 .. n, NEW j \in 1 .. Len(s) - n, head[i] = tail[j]
                 PROVE  FALSE
      BY <1>3 DEF ToSet
    <2>1. i \in 1 .. Len(s) /\ j + n \in 1 .. Len(s)
      BY <1>3, <1>4
    <2>2. head[i] = s[i] /\ tail[j] = s[j + n]
      BY <1>1, <1>2
    <2>3. i = j + n
      BY <2>1, <2>2
    <2> QED BY <1>3, <2>3
  <1> QED BY <1>2, <1>5, <1>6, <1>7, <1>8 DEF head, tail

\* The invariant holds initially.
LEMMA LauncherInit == Init => LauncherInv
  <1> SUFFICES ASSUME Init PROVE LauncherInv
    OBVIOUS
  <1>1. Live = {} /\ file = <<>> /\ script = "down" /\ refused = "none"
    BY DEF Init, Live
  <1>2. LauncherTypeOK /\ GpusFree /\ RunGpusDisjoint /\ Known
    BY <1>1 DEF Init, LauncherTypeOK, Scripts, GpusFree, RunGpusDisjoint, Known,
                Current, Instances, ToSet
  <1>3. Stopping
    BY <1>1 DEF Stopping, Instances, Loops
  <1> QED BY <1>2, <1>3 DEF LauncherInv

\* A new experiment has no instance yet, and all GPUs.
LEMMA BeginStep ==
    ASSUME LauncherInv, Begin
    PROVE  LauncherInv'
  <1> USE DEF LauncherInv
  <1>1. /\ script = "down" /\ script' = "starting" /\ run' = run + 1
        /\ wanted' \in Allocations
        /\ available' = [i \in 1 .. NumGpus |-> i] /\ instances' = <<>>
        /\ UNCHANGED <<waitingFor, file, at, refused, procs>>
    BY DEF Begin, stop
  <1>2. Live' = Live /\ \A p \in Live : procs'[p] = procs[p]
    BY <1>1 DEF Live
  <1>3. NumGpus \in Nat /\ wanted' \in Seq(Nat \ {0})
    BY <1>1, LauncherAssumption
  <1>4. /\ available' \in Seq(Int) /\ Len(available') = NumGpus
        /\ \A i \in 1 .. NumGpus : available'[i] = i
    BY <1>1, <1>3
  <1>5. LauncherTypeOK'
    BY <1>1, <1>2, <1>3, <1>4 DEF LauncherTypeOK, Scripts
  <1>6. Current' = {}
    <2>1. \A p \in Live : procs[p].run # run + 1
      BY DEF LauncherTypeOK
    <2> QED BY <1>1, <1>2, <2>1 DEF Current
  <1>7. GpusFree'
    BY <1>4, <1>6 DEF GpusFree
  <1>8. RunGpusDisjoint'
    BY <1>1, <1>2 DEF RunGpusDisjoint, Instances
  <1>9. Known' /\ Stopping'
    BY <1>1, <1>6 DEF Known, Stopping, Loops
  <1> QED BY <1>5, <1>7, <1>8, <1>9

\* The new instance gets GPUs that no other instance of the experiment has.
LEMMA SpawnStep ==
    ASSUME LauncherInv, NEW p \in Pids, Spawn(p)
    PROVE  LauncherInv'
  <1> USE DEF LauncherInv
  <1> DEFINE head == SubSeq(available, 1, Need)
             tail == SubSeq(available, Need + 1, Len(available))
  <1>1. /\ script = "starting" /\ waitingFor = {} /\ Len(instances) < Len(wanted)
        /\ Len(available) >= Need /\ p \notin Live
        /\ procs' = With(p, Instance)
        /\ available' = tail
        /\ waitingFor' = {p}
        /\ UNCHANGED <<script, run, wanted, instances, file, at, refused>>
    BY DEF Spawn, Starting, stop
  <1>2. Need \in Nat
    <2>1. /\ wanted \in Seq(Nat \ {0}) /\ Len(instances) \in Nat
          /\ Len(instances) + 1 \in 1 .. Len(wanted)
      BY <1>1 DEF LauncherTypeOK
    <2> QED BY <2>1 DEF Need
  <1>3. /\ tail \in Seq(Int)
        /\ \A i, j \in 1 .. Len(tail) : tail[i] = tail[j] => i = j
        /\ ToSet(head) \cap ToSet(tail) = {}
        /\ ToSet(head) \subseteq ToSet(available)
        /\ ToSet(tail) \subseteq ToSet(available)
    <2>1. /\ available \in Seq(Int) /\ Need <= Len(available)
          /\ \A i, j \in 1 .. Len(available) : available[i] = available[j] => i = j
      BY <1>1, <1>2 DEF LauncherTypeOK, GpusFree
    <2> QED BY <1>2, <2>1, SplitGpus
  <1> HIDE DEF head, tail
  <1>4. Instance.run = run /\ Instance.gpus = ToSet(head) /\ Instance.own
    BY DEF Instance, head
  <1>5. /\ Live' = Live \cup {p}
        /\ procs'[p] = Instance
        /\ \A q \in Live : q # p /\ procs'[q] = procs[q]
    BY <1>1 DEF Live, With
  <1>6. LauncherTypeOK'
    <2>1. \A q \in Live' : /\ procs'[q].run \in Nat /\ procs'[q].run <= run
                           /\ procs'[q].run # 0 => procs'[q].own
      BY <1>4, <1>5 DEF LauncherTypeOK
    <2> QED BY <1>1, <1>3, <2>1 DEF LauncherTypeOK
  <1>7. Current' \subseteq Current \cup {p}
    BY <1>1, <1>5 DEF Current
  <1>8. GpusFree'
    <2>1. ASSUME NEW q \in Current'
          PROVE  procs'[q].gpus \cap ToSet(tail) = {}
      <3>1. CASE q = p
        BY <1>3, <1>4, <1>5, <3>1
      <3>2. CASE q # p
        <4>1. q \in Current /\ procs'[q] = procs[q]
          BY <1>5, <1>7, <3>2 DEF Current
        <4> QED BY <1>3, <4>1 DEF GpusFree
      <3> QED BY <3>1, <3>2
    <2> QED BY <1>1, <1>3, <2>1 DEF GpusFree
  <1>9. RunGpusDisjoint'
    <2>1. \A q \in Live : procs[q].run = run /\ run # 0 =>
             procs[q].gpus \cap ToSet(head) = {}
      BY <1>3 DEF GpusFree, Current
    <2>2. ASSUME NEW q \in Live, NEW o \in Live, q # o, procs'[q].run # 0,
                 procs'[q].run = procs'[o].run
          PROVE  procs'[q].gpus \cap procs'[o].gpus = {}
      BY <1>5, <2>2 DEF RunGpusDisjoint, Instances
    <2>3. ASSUME NEW q \in Live, procs'[q].run # 0, procs'[q].run = procs'[p].run
          PROVE  procs'[q].gpus \cap procs'[p].gpus = {}
      BY <1>4, <1>5, <2>1, <2>3
    <2> QED BY <1>5, <2>2, <2>3 DEF RunGpusDisjoint, Instances
  <1>10. Known' /\ Stopping'
    BY <1>1, <1>7 DEF Known, Stopping, Loops
  <1> QED BY <1>6, <1>8, <1>9, <1>10

\* A process of somebody else is no instance.
LEMMA OtherStep ==
    ASSUME LauncherInv, NEW p \in Pids, OtherProcess(p)
    PROVE  LauncherInv'
  <1> USE DEF LauncherInv
  <1>0. PICK own \in BOOLEAN :
            procs' = With(p, [run |-> 0, gpus |-> {}, port |-> 0, own |-> own])
    BY DEF OtherProcess
  <1> DEFINE x == [run |-> 0, gpus |-> {}, port |-> 0, own |-> own]
  <1>1. /\ p \notin Live /\ procs' = With(p, x)
        /\ UNCHANGED <<script, run, wanted, available, instances, waitingFor, file, at, refused>>
    BY <1>0 DEF OtherProcess, stop
  <1>2. x.run = 0 /\ x.gpus = {} /\ run \in Nat
    BY DEF LauncherTypeOK
  <1> HIDE DEF x
  <1>3. /\ Live' = Live \cup {p} /\ procs'[p] = x
        /\ \A q \in Live : q # p /\ procs'[q] = procs[q]
    BY <1>1 DEF Live, With
  <1>4. LauncherTypeOK'
    <2>1. \A q \in Live : /\ procs'[q].run \in Nat /\ procs'[q].run <= run
                          /\ procs'[q].run # 0 => procs'[q].own
      BY <1>3 DEF LauncherTypeOK
    <2>2. procs'[p].run = 0 /\ procs'[p].run \in Nat /\ procs'[p].run <= run
      BY <1>2, <1>3
    <2>3. \A q \in Live' : /\ procs'[q].run \in Nat /\ procs'[q].run <= run
                           /\ procs'[q].run # 0 => procs'[q].own
      BY <1>3, <2>1, <2>2
    <2> QED BY <1>1, <2>3 DEF LauncherTypeOK
  <1>5. Current' = Current /\ Instances' = Instances
    BY <1>1, <1>2, <1>3 DEF Current, Instances
  <1>6. GpusFree'
    BY <1>1, <1>3, <1>5 DEF GpusFree, Current
  <1>7. RunGpusDisjoint'
    BY <1>2, <1>3 DEF RunGpusDisjoint, Instances
  <1>8. Known' /\ Stopping'
    BY <1>1, <1>5 DEF Known, Stopping
  <1> QED BY <1>4, <1>6, <1>7, <1>8

\* Steps that leave the processes and the GPUs alone.
LEMMA ScriptStep ==
    ASSUME LauncherInv,
           UNCHANGED <<run, wanted, available, procs>>,
           script' \in Scripts, instances' \in Seq(Pids), waitingFor' \subseteq Pids,
           file' \in Seq(Pids), at' \in Nat \ {0}, refused' \in {"none"} \cup Loops
    PROVE  /\ LauncherTypeOK' /\ GpusFree' /\ RunGpusDisjoint'
           /\ Current' = Current /\ Instances' = Instances
  <1> USE DEF LauncherInv
  <1>1. Live' = Live /\ Current' = Current /\ Instances' = Instances
    BY DEF Live, Current, Instances
  <1>2. LauncherTypeOK'
    BY <1>1 DEF LauncherTypeOK
  <1>3. GpusFree'
    BY <1>1 DEF GpusFree
  <1>4. RunGpusDisjoint'
    BY <1>1 DEF RunGpusDisjoint, Instances
  <1> QED BY <1>1, <1>2, <1>3, <1>4

\* One more element of a sequence of pids.
LEMMA AppendSet ==
    ASSUME NEW s \in Seq(Pids), NEW p \in Pids
    PROVE  /\ Append(s, p) \in Seq(Pids)
           /\ ToSet(Append(s, p)) = ToSet(s) \cup {p}
           /\ Len(Append(s, p)) = Len(s) + 1
  <1>1. /\ Append(s, p) \in Seq(Pids) /\ Len(Append(s, p)) = Len(s) + 1
        /\ Len(s) \in Nat
        /\ DOMAIN s = 1 .. Len(s) /\ DOMAIN Append(s, p) = 1 .. Len(s) + 1
        /\ \A i \in 1 .. Len(s) : Append(s, p)[i] = s[i]
        /\ Append(s, p)[Len(s) + 1] = p
    OBVIOUS
  <1> DEFINE t == Append(s, p)
             n == Len(s)
  <1> HIDE DEF t, n
  <1>2. ASSUME NEW x \in ToSet(t)
        PROVE  x \in ToSet(s) \cup {p}
    <2>1. PICK i \in DOMAIN t : x = t[i]
      BY DEF ToSet
    <2>2. i \in 1 .. n \/ i = n + 1
      BY <1>1, <2>1 DEF t, n
    <2> QED BY <1>1, <2>1, <2>2 DEF ToSet, t, n
  <1>3. ASSUME NEW x \in ToSet(s) \cup {p}
        PROVE  x \in ToSet(t)
    <2>1. CASE x = p
      <3>1. n + 1 \in DOMAIN t /\ t[n + 1] = x
        BY <1>1, <2>1 DEF t, n
      <3> QED BY <3>1 DEF ToSet
    <2>2. CASE x \in ToSet(s)
      <3>1. PICK i \in DOMAIN s : x = s[i]
        BY <2>2 DEF ToSet
      <3>2. i \in DOMAIN t /\ t[i] = x
        BY <1>1, <3>1 DEF t, n
      <3> QED BY <3>2 DEF ToSet
    <2> QED BY <2>1, <2>2
  <1>4. ToSet(t) = ToSet(s) \cup {p}
    BY <1>2, <1>3
  <1> QED BY <1>1, <1>4 DEF t

\* The script exits, and the stop begins.
LEMMA ExitStep ==
    ASSUME LauncherInv, Exit, waitingFor' = {}, script # "down",
           script = "starting" /\ Len(instances) = Len(wanted) =>
              instances = <<>> /\ waitingFor = {},
           UNCHANGED <<run, wanted, available, instances, file, procs>>
    PROVE  LauncherInv'
  <1> USE DEF LauncherInv
  <1>1. script' = "terminate" /\ at' = 1 /\ refused' = "none"
    BY DEF Exit
  <1>2. /\ LauncherTypeOK' /\ GpusFree' /\ RunGpusDisjoint' /\ Current' = Current
        /\ Instances' = Instances
    <2>1. instances \in Seq(Pids) /\ file \in Seq(Pids)
      BY DEF LauncherTypeOK
    <2> QED BY <1>1, <2>1, ScriptStep DEF Scripts, Loops
  <1>3. instances = <<>> => ToSet(instances) = {}
    BY DEF ToSet
  <1>4. Known'
    <2>1. ASSUME Len(instances) = Len(wanted)
          PROVE  Current \subseteq ToSet(file)
      BY <1>3, <2>1 DEF Known
    <2> QED BY <1>1, <1>2, <2>1 DEF Known
  <1>5. Stopping'
    BY <1>1 DEF Stopping, Loops
  <1> QED BY <1>2, <1>4, <1>5

\* One item of a loop of _stop: some of {the item} ends, in the kill loop the item.
LEMMA VisitStep ==
    ASSUME LauncherInv, NEW loop \in Loops, Visit(loop),
           NEW S, Live' = Live \ S, \A p \in Live \ S : procs'[p] = procs[p],
           loop = "kill" => file[at] \in S
    PROVE  LauncherInv'
  <1> USE DEF LauncherInv
  <1>1. /\ script = loop /\ at \in DOMAIN file /\ at' = at + 1
        /\ UNCHANGED <<script, run, wanted, available, instances, waitingFor, file, refused>>
    BY DEF Visit
  <1>2. script \in Scripts /\ at \in Nat \ {0} /\ at' \in Nat \ {0}
    BY <1>1 DEF LauncherTypeOK
  <1>3. /\ LauncherTypeOK' /\ GpusFree' /\ RunGpusDisjoint' /\ Current' = Current \ S
        /\ Instances' = Instances \ S
    BY <1>1, <1>2, EndStep
  <1>4. Known'
    BY <1>1, <1>3 DEF Known
  <1>5. Stopping'
    <2>1. ASSUME script = "kill", NEW j \in DOMAIN file, j < at + 1
          PROVE  file[j] \notin Instances \ S
      <3>1. j < at \/ j = at
        <4>1. j \in Nat
          BY DEF LauncherTypeOK
        <4> QED BY <1>2, <2>1, <4>1
      <3>2. CASE j < at
        BY <2>1, <3>2 DEF Stopping
      <3>3. CASE j = at
        BY <1>1, <2>1, <3>3
      <3> QED BY <3>1, <3>2, <3>3
    <2> QED BY <1>1, <1>3, <2>1 DEF Stopping, Loops
  <1> QED BY <1>3, <1>4, <1>5

\* The stop ends early, at a process that is no instance.
LEMMA RefusedStep ==
    ASSUME LauncherInv, Refused
    PROVE  LauncherInv'
  <1> USE DEF LauncherInv
  <1>1. /\ script \in Loops /\ at \in DOMAIN file
        /\ file[at] \in Live /\ ~procs[file[at]].own
        /\ script' = "down" /\ refused' = script
        /\ UNCHANGED <<run, wanted, available, instances, waitingFor, file, at, procs>>
    BY DEF Refused, Item, Loops
  <1>2. file[at] \notin Instances
    BY <1>1 DEF LauncherTypeOK, Instances
  <1>3. /\ LauncherTypeOK' /\ GpusFree' /\ RunGpusDisjoint' /\ Current' = Current
        /\ Instances' = Instances
    <2>1. /\ instances \in Seq(Pids) /\ file \in Seq(Pids) /\ waitingFor \subseteq Pids
          /\ at \in Nat \ {0}
      BY DEF LauncherTypeOK
    <2> QED BY <1>1, <2>1, ScriptStep DEF Scripts
  <1>4. Known'
    BY <1>1, <1>3 DEF Known, Loops
  <1>5. Stopping'
    BY <1>1, <1>2, <1>3 DEF Stopping, Loops
  <1> QED BY <1>3, <1>4, <1>5

\* The next loop, or the end of the stop.
LEMMA EndLoopStep ==
    ASSUME LauncherInv, EndLoop
    PROVE  LauncherInv'
  <1> USE DEF LauncherInv
  <1>1. /\ script \in Loops /\ at = Len(file) + 1 /\ at' = 1
        /\ script' = (CASE script = "terminate" -> "poll" [] script = "poll" -> "kill"
                        [] script = "kill" -> "down")
        /\ UNCHANGED <<run, wanted, available, instances, waitingFor, file, refused, procs>>
    BY DEF EndLoop, Loops
  <1>2. /\ LauncherTypeOK' /\ GpusFree' /\ RunGpusDisjoint' /\ Current' = Current
        /\ Instances' = Instances
    <2>1. /\ instances \in Seq(Pids) /\ file \in Seq(Pids) /\ waitingFor \subseteq Pids
          /\ refused \in {"none"} \cup Loops
      BY DEF LauncherTypeOK
    <2>2. script' \in Scripts
      BY <1>1 DEF Scripts, Loops
    <2>3. instances' = instances /\ file' = file /\ waitingFor' = waitingFor
          /\ refused' = refused /\ at' \in Nat \ {0} /\ UNCHANGED <<run, wanted, available, procs>>
      BY <1>1
    <2> QED BY <2>1, <2>2, <2>3, ScriptStep
  <1>3. Known'
    BY <1>1, <1>2 DEF Known, Loops
  <1>4. \A j \in DOMAIN file : j \in Nat /\ j < at /\ ~(j < 1)
    BY <1>1 DEF LauncherTypeOK
  <1>5. Stopping'
    BY <1>1, <1>2, <1>4 DEF Stopping, Loops
  <1> QED BY <1>2, <1>3, <1>5

\* Every step keeps the invariant.
LEMMA LauncherStep ==
    ASSUME LauncherInv, [Next]_vars
    PROVE  LauncherInv'
  <1> USE DEF LauncherInv
  <1>0. /\ instances \in Seq(Pids) /\ waitingFor \subseteq Pids /\ script \in Scripts
        /\ file \in Seq(Pids) /\ at \in Nat \ {0} /\ refused \in {"none"} \cup Loops
        /\ Len(instances) \in Nat /\ Len(wanted) \in Nat
    BY DEF LauncherTypeOK
  <1>1. CASE Begin
    BY <1>1, BeginStep
  <1>2. CASE EarlyExit
    <2>1. /\ script = "starting" /\ instances = <<>> /\ waitingFor = {} /\ Exit
          /\ UNCHANGED <<run, wanted, available, instances, waitingFor, file, procs>>
      BY <1>2 DEF EarlyExit
    <2> QED BY <2>1, ExitStep
  <1>3. CASE NotEnoughGpus
    <2>1. /\ script = "starting" /\ waitingFor = {} /\ Len(instances) < Len(wanted) /\ Exit
          /\ UNCHANGED <<run, wanted, available, instances, waitingFor, file, procs>>
      BY <1>3 DEF NotEnoughGpus, Starting
    <2> QED BY <1>0, <2>1, ExitStep
  <1>4. CASE HealthTimeout
    <2>1. /\ script = "starting" /\ waitingFor # {} /\ Exit /\ waitingFor' = {}
          /\ UNCHANGED <<run, wanted, available, instances, file, procs>>
      BY <1>4 DEF HealthTimeout
    <2>2. Len(instances) < Len(wanted)
      BY <2>1 DEF Known
    <2> QED BY <1>0, <2>1, <2>2, ExitStep
  <1>5. CASE WriteState
    <2>1. /\ script = "starting" /\ Len(instances) = Len(wanted)
          /\ file' = instances /\ script' = "up"
          /\ UNCHANGED <<run, wanted, available, instances, waitingFor, at, refused, procs>>
      BY <1>5 DEF WriteState, stop
    <2>2. /\ LauncherTypeOK' /\ GpusFree' /\ RunGpusDisjoint' /\ Current' = Current
      BY <1>0, <2>1, ScriptStep DEF Scripts
    <2>3. waitingFor = {} /\ Current \subseteq ToSet(instances)
      BY <1>0, <2>1 DEF Known
    <2>4. Known' /\ Stopping'
      BY <2>1, <2>2, <2>3 DEF Known, Stopping, Loops
    <2> QED BY <2>2, <2>4
  <1>6. CASE EndOfWork
    <2>1. /\ script = "up" /\ Exit
          /\ UNCHANGED <<run, wanted, available, instances, waitingFor, file, procs>>
      BY <1>6 DEF EndOfWork
    <2>2. waitingFor = {}
      BY <2>1 DEF Known
    <2> QED BY <2>1, <2>2, ExitStep
  <1>7. CASE Terminate
    <2>1. PICK S \in SUBSET ({Item} \cap Live) : procs' = Without(S)
      BY <1>7 DEF Terminate
    <2>2. Visit("terminate")
      BY <1>7 DEF Terminate
    <2>3. Live' = Live \ S /\ \A p \in Live \ S : procs'[p] = procs[p]
      BY <2>1, WithoutDef
    <2> QED BY <2>2, <2>3, VisitStep DEF Loops
  <1>8. CASE Poll
    <2>1. Visit("poll") /\ Live' = Live \ {} /\ \A p \in Live \ {} : procs'[p] = procs[p]
      BY <1>8 DEF Poll, Live
    <2> QED BY <2>1, VisitStep DEF Loops
  <1>9. CASE Kill
    <2>1. Visit("kill") /\ procs' = Without({Item}) /\ file[at] \in {Item}
      BY <1>9 DEF Kill, Item
    <2>2. Live' = Live \ {Item} /\ \A p \in Live \ {Item} : procs'[p] = procs[p]
      BY <2>1, WithoutDef
    <2> QED BY <2>1, <2>2, VisitStep DEF Loops
  <1>10. CASE Refused
    BY <1>10, RefusedStep
  <1>11. CASE EndLoop
    BY <1>11, EndLoopStep
  <1>12. ASSUME NEW p \in Pids, Healthy(p)
         PROVE  LauncherInv'
    <2>1. /\ script = "starting" /\ waitingFor = {p}
          /\ instances' = Append(instances, p) /\ waitingFor' = {}
          /\ UNCHANGED <<script, run, wanted, available, file, at, refused, procs>>
      BY <1>12 DEF Healthy, stop
    <2>2. instances' \in Seq(Pids) /\ ToSet(instances') = ToSet(instances) \cup {p}
      BY <1>0, <2>1, AppendSet
    <2>3. /\ LauncherTypeOK' /\ GpusFree' /\ RunGpusDisjoint' /\ Current' = Current
      BY <1>0, <2>1, <2>2, ScriptStep DEF Scripts
    <2>4. Known' /\ Stopping'
      BY <2>1, <2>2, <2>3 DEF Known, Stopping, Loops
    <2> QED BY <2>3, <2>4
  <1>13. ASSUME NEW p \in Live, Die(p) \/ BindFails(p)
         PROVE  LauncherInv'
    <2>1. /\ procs' = Without({p})
          /\ UNCHANGED <<script, run, wanted, available, instances, waitingFor, file, at, refused>>
      BY <1>13 DEF Die, BindFails, stop
    <2>2. Live' = Live \ {p} /\ \A q \in Live \ {p} : procs'[q] = procs[q]
      BY <2>1, WithoutDef
    <2>3. /\ LauncherTypeOK' /\ GpusFree' /\ RunGpusDisjoint' /\ Current' = Current \ {p}
          /\ Instances' = Instances \ {p}
      BY <1>0, <2>1, <2>2, EndStep
    <2>4. Known' /\ Stopping'
      BY <2>1, <2>3 DEF Known, Stopping
    <2> QED BY <2>3, <2>4
  <1>14. CASE UNCHANGED vars
    <2>1. UNCHANGED <<script, run, wanted, available, instances, waitingFor, file, at, refused, procs>>
      BY <1>14 DEF vars, stop
    <2>2. /\ LauncherTypeOK' /\ GpusFree' /\ RunGpusDisjoint' /\ Current' = Current
          /\ Instances' = Instances
      BY <1>0, <2>1, ScriptStep
    <2>3. Known' /\ Stopping'
      BY <2>1, <2>2 DEF Known, Stopping
    <2> QED BY <2>2, <2>3
  <1>15. CASE Next
    BY <1>1, <1>2, <1>3, <1>4, <1>5, <1>6, <1>7, <1>8, <1>9, <1>10, <1>11, <1>12, <1>13,
       <1>15, SpawnStep, OtherStep
       DEF Next
  <1> QED BY <1>14, <1>15

\* The launcher knows its processes and its GPUs throughout.
THEOREM LauncherInvariant == Spec => []LauncherInv
  <1>1. LauncherInv /\ [Next]_vars => LauncherInv'
    BY LauncherStep
  <1> QED BY <1>1, LauncherInit, PTL DEF Spec

\* No two instances of one experiment are started on the same GPU.
THEOREM GpusDisjoint == Spec => []RunGpusDisjoint
  <1>1. LauncherInv => RunGpusDisjoint
    BY DEF LauncherInv
  <1> QED BY <1>1, LauncherInvariant, PTL

\* After the exit trap, an instance that came up or that the file names lives on
\* only where the stop ended early at another user's process, although failed
\* starts read an older file and pids are handed out again.
THEOREM StopSpares == Spec => []OnlySparedSurvive
  <1>1. LauncherInv => OnlySparedSurvive
    <2> SUFFICES ASSUME LauncherInv, script = "down", NEW p \in Instances,
                        \/ p \in ToSet(file)
                        \/ procs[p].run = run /\ Len(instances) = Len(wanted)
                 PROVE  Spared(p)
      BY Zenon DEF OnlySparedSurvive
    <2> USE DEF LauncherInv
    <2>1. p \in ToSet(file)
      BY DEF LauncherTypeOK, Known, Current, Instances
    <2>2. PICK i \in DOMAIN file : file[i] = p
      BY <2>1 DEF ToSet
    <2>3. refused # "none"
      BY <2>2 DEF Stopping
    <2>4. /\ at \in DOMAIN file /\ file[at] # p /\ at \in Nat
          /\ \A j \in DOMAIN file : j \in Nat /\ j <= Len(file)
          /\ DOMAIN file = 1 .. Len(file) /\ Len(file) \in Nat
      BY <2>3 DEF Stopping, LauncherTypeOK
    <2>5. ASSUME NEW j \in (IF refused = "kill" THEN 1 ELSE at) .. at
          PROVE  file[j] # p
      <3>1. CASE refused = "kill"
        <4>1. j \in 1 .. at /\ at \in 1 .. Len(file)
          BY <2>4, <2>5, <3>1
        <4>2. j = at \/ (j \in DOMAIN file /\ j < at)
          BY <2>4, <4>1
        <4> QED BY <2>4, <3>1, <4>2 DEF Stopping
      <3>2. CASE refused # "kill"
        <4>1. j \in at .. at
          BY <2>5, <3>2
        <4>2. j = at
          BY <2>4, <4>1
        <4> QED BY <2>4, <4>2
      <3> QED BY <3>1, <3>2
    <2> QED BY <2>1, <2>3, <2>5 DEF Spared
  <1> QED BY <1>1, LauncherInvariant, PTL
=============================================================================
