--------------------------- MODULE VmmTargetProofs ---------------------------
(* Proofs about the native targets (module VmmTarget), for any number of      *)
(* repeats.                                                                    *)
EXTENDS VmmTarget, SequenceTheorems, TLAPS

(* Processes. *)

\* Starting a background process concerns that process and its pid file only.
LEMMA BackgroundFacts ==
    ASSUME TypeOK, ProcInv, NEW role \in Roles, Background(role)
    PROVE  /\ proc' \in [Roles \X Runs -> ProcStates] /\ pidfile' \in [Roles -> Runs \cup {0}]
           /\ \A o \in Roles, r \in Runs :
                 proc'[<<o, r>>] = "alive" => r = run /\ pidfile'[o] = run
           /\ pidfile'[role] = run
           /\ \A o \in Roles : o /= role => pidfile'[o] = pidfile[o]
           /\ \A o \in Roles, r \in Runs :
                 <<o, r>> /= <<role, run>> => proc'[<<o, r>>] = proc[<<o, r>>]
  <1>1. /\ proc \in [Roles \X Runs -> ProcStates] /\ pidfile \in [Roles -> Runs \cup {0}]
        /\ run \in Runs
    BY DEF TypeOK, ProcStates
  <1>2. <<role, run>> \in Roles \X Runs /\ "alive" \in ProcStates
    BY <1>1 DEF ProcStates
  <1>3. /\ proc' \in [Roles \X Runs -> ProcStates] /\ pidfile' \in [Roles -> Runs \cup {0}]
        /\ pidfile'[role] = run
        /\ \A o \in Roles : o /= role => pidfile'[o] = pidfile[o]
        /\ \A x \in Roles \X Runs : x /= <<role, run>> => proc'[x] = proc[x]
    BY <1>1, <1>2 DEF Background
  <1>4. \A o \in Roles, r \in Runs :
           <<o, r>> /= <<role, run>> => proc'[<<o, r>>] = proc[<<o, r>>]
    BY <1>3
  <1>5. \A o \in Roles, r \in Runs :
           proc'[<<o, r>>] = "alive" => r = run /\ pidfile'[o] = run
    BY <1>3, <1>4 DEF ProcInv
  <1>6. QED
    BY <1>3, <1>4, <1>5

\* A process that changes to anything but running unsignalled.
LEMMA SetFacts ==
    ASSUME NEW p \in [Roles \X Runs -> ProcStates], NEW x \in Roles \X Runs,
           NEW s \in ProcStates
    PROVE  /\ [p EXCEPT ![x] = s] \in [Roles \X Runs -> ProcStates]
           /\ [p EXCEPT ![x] = s][x] = s
           /\ \A o \in Roles, r \in Runs :
                 <<o, r>> /= x => [p EXCEPT ![x] = s][<<o, r>>] = p[<<o, r>>]
  OBVIOUS

\* A signal through the pid file: nothing is started, and what the file names is
\* not left running unsignalled.
LEMMA SignalFacts ==
    ASSUME TypeOK, NEW p \in [Roles \X Runs -> ProcStates], NEW role \in Roles
    PROVE  /\ Signal(p, role) \in [Roles \X Runs -> ProcStates]
           /\ \A o \in Roles, r \in Runs :
                 /\ Signal(p, role)[<<o, r>>] = "alive" => p[<<o, r>>] = "alive"
                 /\ Signal(p, role)[<<o, r>>] \in {"alive", "signalled"} =>
                       p[<<o, r>>] \in {"alive", "signalled"}
           /\ pidfile[role] /= 0 => Signal(p, role)[<<role, pidfile[role]>>] /= "alive"
  <1> DEFINE x == <<role, pidfile[role]>>
  <1>1. pidfile[role] \in Runs \cup {0}
    BY DEF TypeOK
  <1>2. CASE pidfile[role] = 0 \/ p[x] /= "alive"
    <2>1. Signal(p, role) = p
      BY <1>2 DEF Signal
    <2>2. QED
      BY <1>2, <2>1
  <1>3. CASE pidfile[role] /= 0 /\ p[x] = "alive"
    <2>1. Signal(p, role) = [p EXCEPT ![x] = "signalled"]
      BY <1>3 DEF Signal
    <2>2. x \in Roles \X Runs /\ "signalled" \in ProcStates
      BY <1>1, <1>3 DEF ProcStates
    <2> HIDE DEF x
    <2>3. /\ Signal(p, role) \in [Roles \X Runs -> ProcStates] /\ Signal(p, role)[x] = "signalled"
          /\ \A o \in Roles, r \in Runs :
                <<o, r>> /= x => Signal(p, role)[<<o, r>>] = p[<<o, r>>]
      BY <2>1, <2>2, SetFacts
    <2>4. QED
      BY <1>3, <2>3 DEF x
  <1>4. QED
    BY <1>2, <1>3

\* The spans of a target are recorded one after the other.
LEMMA FirstRecorded ==
    ASSUME NEW x
    PROVE  Append(<<>>, x) = <<x>>
  OBVIOUS

\* The second span recorded follows the first.
LEMMA SecondRecorded ==
    ASSUME NEW S, NEW x \in S, NEW y \in S
    PROVE  Append(<<x>>, y) = <<x, y>>
  <1> DEFINE a == Append(<<x>>, y)
             b == <<x, y>>
  <1>1. /\ <<x>> \in Seq(S) /\ Len(<<x>>) = 1
        /\ b \in Seq(S) /\ Len(b) = 2 /\ b[1] = x /\ b[2] = y
    OBVIOUS
  <1>2. a \in Seq(S) /\ Len(a) = 2 /\ a[1] = x /\ a[2] = y
    BY <1>1, AppendProperties
  <1> HIDE DEF a, b
  <1>3. \A i \in 1 .. Len(a) : a[i] = b[i]
    BY <1>1, <1>2
  <1>4. a = b
    BY <1>1, <1>2, <1>3, SeqEqual
  <1>5. QED
    BY <1>4 DEF a, b

-----------------------------------------------------------------------------
(* Steps that leave the processes and files alone. *)

\* Bring-up moves on: what teardown relies on is not touched.
LEMMA Moves ==
    ASSUME IInv, UNCHANGED <<kind, run, proc, pidfile, lock, mounted>>,
           pc \notin {"launch", "cleanup", "torndown"},
           pc' \notin {"launch", "cleanup", "torndown"}
    PROVE  ProcInv' /\ LockInv' /\ NothingLeftUnsignalled'
  <1>1. ProcInv'
    BY DEF IInv, ProcInv
  <1>2. LockInv'
    BY DEF IInv, LockInv, Executes
  <1>3. NothingLeftUnsignalled'
    BY DEF NothingLeftUnsignalled
  <1>4. QED
    BY <1>1, <1>2, <1>3

\* Configuring the guest touches no process.
LEMMA ConfigureIInv ==
    ASSUME IInv, Configure
    PROVE  IInv'
  <1> USE DEF hostVars, targetVars, Goto
  <1>1. ProcInv' /\ LockInv' /\ NothingLeftUnsignalled'
    BY Moves DEF Configure
  <1>2. TypeOK'
    BY DEF IInv, TypeOK, Configure, Steps
  <1>3. BringUpInv' /\ WindowOpensSteady'
    BY DEF IInv, BringUpInv, Configure, FirstSpan, WindowOpensSteady, Reads
  <1>4. TapInv'
    BY DEF IInv, BringUpInv, TapInv, Configure
  <1>5. QED
    BY <1>1, <1>2, <1>3, <1>4 DEF IInv

\* A failed request or an already running guest leave what provision recorded.
LEMMA StartIInv ==
    ASSUME IInv, Start
    PROVE  IInv'
  <1> USE DEF hostVars, Goto
  <1>1. ProcInv' /\ LockInv' /\ NothingLeftUnsignalled'
    BY Moves DEF Start
  <1>2. spans' = <<FirstSpan>> /\ guest' = "running" /\ pc = "start" /\ pc' = "steady"
    BY FirstRecorded DEF IInv, BringUpInv, Start, FirstSpan
  <1>3. TypeOK'
    BY <1>2 DEF IInv, TypeOK, Start, Steps, SpanNames, FirstSpan
  <1>4. BringUpInv' /\ WindowOpensSteady'
    BY <1>2 DEF IInv, BringUpInv, Start, FirstSpan, WindowOpensSteady, Reads
  <1>5. TapInv'
    BY <1>2 DEF IInv, TapInv, Start
  <1>6. QED
    BY <1>1, <1>3, <1>4, <1>5 DEF IInv

\* The readiness probe and the pinning.
LEMMA ReachSteadyIInv ==
    ASSUME IInv, ReachSteady
    PROVE  IInv'
  <1> USE DEF hostVars, Goto
  <1>1. ProcInv' /\ LockInv' /\ NothingLeftUnsignalled'
    BY Moves DEF ReachSteady
  <1>2. TypeOK'
    BY DEF IInv, TypeOK, ReachSteady, Steps, Configs
  <1>3. BringUpInv' /\ WindowOpensSteady'
    BY DEF IInv, BringUpInv, ReachSteady, FirstSpan, ExpectedSpans, WindowOpensSteady, Reads
  <1>4. TapInv'
    BY DEF IInv, TapInv, ReachSteady
  <1>5. QED
    BY <1>1, <1>2, <1>3, <1>4 DEF IInv

\* Pause, snapshot and resume.
LEMMA SnapshotIInv ==
    ASSUME IInv, Pause \/ CreateSnapshot \/ Resume
    PROVE  IInv'
  <1> USE DEF hostVars, Goto, Pause, CreateSnapshot, Resume
  <1>1. ProcInv' /\ LockInv' /\ NothingLeftUnsignalled'
    BY Moves
  <1>2. TypeOK'
    <2>1. spans' \in Seq(SpanNames)
      <3>1. spans \in Seq(SpanNames) /\ "snapshot.create" \in SpanNames
        BY DEF IInv, TypeOK, SpanNames
      <3>2. spans' = spans \/ spans' = Append(spans, "snapshot.create")
        OBVIOUS
      <3>3. QED
        BY <3>1, <3>2, AppendProperties
    <2>2. pc' \in Steps /\ guest' \in {"off", "running", "paused"}
      BY DEF IInv, TypeOK, Steps
    <2>3. UNCHANGED <<kind, conf, run, proc, pidfile, lock, mounted, tap, lastIx, pinning,
                      tap_ifindex>>
      OBVIOUS
    <2>4. QED
      BY <2>1, <2>2, <2>3 DEF IInv, TypeOK
  <1>3. BringUpInv' /\ WindowOpensSteady'
    <2>1. Reads(kind, conf)'
      BY DEF IInv, BringUpInv, Reads
    <2>2. CASE Pause
      BY <2>1, <2>2 DEF IInv, BringUpInv, FirstSpan, WindowOpensSteady
    <2>3. CASE CreateSnapshot
      <3>1. FirstSpan \in SpanNames /\ "snapshot.create" \in SpanNames /\ FirstSpan' = FirstSpan
        BY <2>3 DEF FirstSpan, SpanNames
      <3>2. spans' = <<FirstSpan, "snapshot.create">>
        BY <2>3, <3>1, SecondRecorded DEF IInv, BringUpInv
      <3>3. QED
        BY <2>1, <2>3, <3>1, <3>2 DEF IInv, BringUpInv, ExpectedSpans, WindowOpensSteady
    <2>4. CASE Resume
      BY <2>1, <2>4 DEF IInv, BringUpInv, FirstSpan, ExpectedSpans, WindowOpensSteady
    <2>5. QED
      BY <2>2, <2>3, <2>4
  <1>4. TapInv'
    BY DEF IInv, TapInv
  <1>5. QED
    BY <1>1, <1>2, <1>3, <1>4 DEF IInv

\* The tap: the ifindex recorded is that of the device just created.
LEMMA CreateTapIInv ==
    ASSUME IInv, CreateTap
    PROVE  IInv'
  <1> USE DEF Goto
  <1>1. ProcInv' /\ LockInv' /\ NothingLeftUnsignalled'
    BY Moves DEF CreateTap
  <1>2. TypeOK'
    BY DEF IInv, TypeOK, CreateTap, Steps
  <1>3. BringUpInv' /\ WindowOpensSteady'
    BY DEF IInv, BringUpInv, CreateTap, FirstSpan, WindowOpensSteady, Reads
  <1>4. TapInv'
    BY DEF IInv, BringUpInv, TapInv, CreateTap, TypeOK
  <1>5. QED
    BY <1>1, <1>2, <1>3, <1>4 DEF IInv

-----------------------------------------------------------------------------
(* Steps that start processes. *)

\* The VMM is started; all but firecracker boot the guest at once.
LEMMA LaunchIInv ==
    ASSUME IInv, Launch
    PROVE  IInv'
  <1> USE DEF Goto
  <1>1. pc = "launch" /\ Background("vmm") /\ "vmm" \in Roles
        /\ UNCHANGED <<kind, conf, run, mounted, tap, lastIx, pinning, tap_ifindex>>
    BY DEF Launch, Roles
  <1>2. /\ proc' \in [Roles \X Runs -> ProcStates] /\ pidfile' \in [Roles -> Runs \cup {0}]
        /\ \A o \in Roles, r \in Runs :
              proc'[<<o, r>>] = "alive" => r = run /\ pidfile'[o] = run
        /\ pidfile'["vmm"] = run
        /\ \A o \in Roles, r \in Runs :
              <<o, r>> /= <<"vmm", run>> => proc'[<<o, r>>] = proc[<<o, r>>]
    BY <1>1, BackgroundFacts DEF IInv
  <1>3. CASE kind = "firecracker"
    <2>1. /\ pc' = IF conf.stream THEN "mount" ELSE IF conf.restore THEN "load" ELSE "configure"
          /\ UNCHANGED <<guest, spans, lock>>
      BY <1>3 DEF Launch
    <2>2. TypeOK'
      BY <1>1, <1>2, <2>1 DEF IInv, TypeOK, Steps, ProcStates
    <2>3. ProcInv' /\ NothingLeftUnsignalled'
      BY <1>1, <1>2, <2>1 DEF IInv, ProcInv, NothingLeftUnsignalled
    <2>4. BringUpInv' /\ WindowOpensSteady'
      BY <1>1, <2>1 DEF IInv, BringUpInv, WindowOpensSteady, Reads, FirstSpan
    <2>5. TapInv' /\ LockInv'
      BY <1>1, <1>3, <2>1 DEF IInv, TapInv, LockInv
    <2>6. QED
      BY <2>2, <2>3, <2>4, <2>5 DEF IInv
  <1>4. CASE kind /= "firecracker"
    <2>1. pc' = "steady" /\ guest' = "running" /\ spans' = Append(spans, "boot.vmm_ready")
      BY <1>4 DEF Launch
    <2>2. spans' = <<FirstSpan>> /\ FirstSpan \in SpanNames /\ FirstSpan' = FirstSpan
      BY <1>1, <1>4, <2>1, FirstRecorded DEF IInv, BringUpInv, Reads, FirstSpan, SpanNames
    <2>3. lock' \in Runs \cup {0}
      BY <1>1 DEF Launch, IInv, TypeOK
    <2>4. TypeOK'
      BY <1>1, <1>2, <2>1, <2>2, <2>3 DEF IInv, TypeOK, Steps, ProcStates
    <2>5. ProcInv' /\ NothingLeftUnsignalled'
      BY <1>1, <1>2, <2>1 DEF IInv, ProcInv, NothingLeftUnsignalled
    <2>6. BringUpInv' /\ WindowOpensSteady'
      BY <1>1, <2>1, <2>2 DEF IInv, BringUpInv, WindowOpensSteady, Reads
    <2>7. TapInv'
      BY <1>1, <1>4, <2>1 DEF IInv, BringUpInv, Reads, TapInv
    <2>8. LockInv'
      <3>1. \A r \in Runs : r /= run => (Executes("vmm", r)' <=> Executes("vmm", r))
        BY <1>1, <1>2 DEF Executes
      <3>2. run \in Nat
        BY DEF IInv, TypeOK, Runs
      <3>3. QED
        BY <1>1, <1>2, <2>1, <3>1, <3>2 DEF IInv, LockInv
    <2>9. QED
      BY <2>4, <2>5, <2>6, <2>7, <2>8 DEF IInv
  <1>5. QED
    BY <1>3, <1>4

\* An aborted repeat is the last: only the types and the processes are left to say.
LEMMA Aborted ==
    ASSUME TypeOK', ProcInv', LockInv', BringUpInv, UNCHANGED <<kind, conf>>, pc' = "aborted"
    PROVE  IInv'
  BY DEF IInv, BringUpInv, Reads, TapInv, NothingLeftUnsignalled, WindowOpensSteady

\* The VMM of a failed launch may live on, but its pid file names it.
LEMMA LaunchFailsIInv ==
    ASSUME IInv, LaunchFails
    PROVE  IInv'
  <1> USE DEF Goto, targetVars
  <1>1. PICK s \in {"alive", "dead"} : proc' = [proc EXCEPT ![<<"vmm", run>>] = s]
    BY DEF LaunchFails
  <1>2. /\ pc = "launch" /\ pc' = "aborted" /\ pidfile' = [pidfile EXCEPT !["vmm"] = run]
        /\ UNCHANGED <<kind, conf, run, lock, mounted, tap, lastIx, targetVars>>
    BY DEF LaunchFails
  <1>3. /\ <<"vmm", run>> \in Roles \X Runs /\ s \in ProcStates /\ run \in Runs /\ "vmm" \in Roles
        /\ proc \in [Roles \X Runs -> ProcStates] /\ pidfile \in [Roles -> Runs \cup {0}]
    BY DEF IInv, TypeOK, Roles, ProcStates
  <1>4. /\ proc' \in [Roles \X Runs -> ProcStates]
        /\ \A o \in Roles, r \in Runs :
              <<o, r>> /= <<"vmm", run>> => proc'[<<o, r>>] = proc[<<o, r>>]
    BY <1>1, <1>3, SetFacts
  <1>5. /\ pidfile' \in [Roles -> Runs \cup {0}] /\ pidfile'["vmm"] = run
        /\ \A o \in Roles : o /= "vmm" => pidfile'[o] = pidfile[o]
    BY <1>2, <1>3
  <1>6. TypeOK'
    BY <1>2, <1>4, <1>5 DEF IInv, TypeOK, Steps, ProcStates
  <1>7. ProcInv'
    BY <1>2, <1>4, <1>5 DEF IInv, ProcInv
  <1>8. LockInv'
    <2>1. \A r \in Runs : r /= run => (Executes("vmm", r)' <=> Executes("vmm", r))
      BY <1>3, <1>4 DEF Executes
    <2>2. run \in Nat
      BY <1>3 DEF Runs
    <2>3. QED
      BY <1>2, <1>5, <2>1, <2>2 DEF IInv, LockInv
  <1>9. QED
    BY <1>2, <1>6, <1>7, <1>8, Aborted DEF IInv

\* The stream daemon or the uffd handler is started beside the VMM.
LEMMA Companion ==
    ASSUME IInv, NEW role \in {"uffd", "stream"}, Background(role),
           UNCHANGED <<kind, run, lock>>, mounted' \subseteq {run},
           pc \notin {"launch", "cleanup", "torndown"},
           pc' \notin {"launch", "cleanup", "torndown"}
    PROVE  /\ proc' \in [Roles \X Runs -> ProcStates] /\ pidfile' \in [Roles -> Runs \cup {0}]
           /\ ProcInv' /\ LockInv' /\ NothingLeftUnsignalled'
  <1>1. role \in Roles /\ "vmm" \in Roles /\ role /= "vmm"
    BY DEF Roles
  <1>2. /\ proc' \in [Roles \X Runs -> ProcStates] /\ pidfile' \in [Roles -> Runs \cup {0}]
        /\ \A o \in Roles, r \in Runs :
              proc'[<<o, r>>] = "alive" => r = run /\ pidfile'[o] = run
        /\ pidfile'["vmm"] = pidfile["vmm"]
        /\ \A r \in Runs : proc'[<<"vmm", r>>] = proc[<<"vmm", r>>]
    <2>1. /\ proc' \in [Roles \X Runs -> ProcStates] /\ pidfile' \in [Roles -> Runs \cup {0}]
          /\ \A o \in Roles, r \in Runs :
                proc'[<<o, r>>] = "alive" => r = run /\ pidfile'[o] = run
          /\ \A o \in Roles : o /= role => pidfile'[o] = pidfile[o]
          /\ \A o \in Roles, r \in Runs :
                <<o, r>> /= <<role, run>> => proc'[<<o, r>>] = proc[<<o, r>>]
      BY <1>1, BackgroundFacts DEF IInv
    <2>2. \A r \in Runs : <<"vmm", r>> /= <<role, run>>
      BY <1>1
    <2>3. QED
      BY <1>1, <2>1, <2>2, Zenon
  <1>3. ProcInv' /\ NothingLeftUnsignalled'
    BY <1>2 DEF ProcInv, NothingLeftUnsignalled
  <1>4. LockInv'
    BY <1>2 DEF IInv, LockInv, Executes, TypeOK
  <1>5. QED
    BY <1>2, <1>3, <1>4

\* The streaming mount comes with the process that serves it.
LEMMA MountStreamIInv ==
    ASSUME IInv, MountStream
    PROVE  IInv'
  <1> USE DEF Goto, targetVars
  <1>1. /\ pc = "mount" /\ pc' = "load" /\ Background("stream") /\ mounted' = mounted \cup {run}
        /\ UNCHANGED <<kind, conf, run, lock, tap, lastIx, targetVars>>
    BY DEF MountStream
  <1>2. mounted' \subseteq {run} /\ run \in Runs
    BY <1>1 DEF IInv, ProcInv, TypeOK
  <1>3. /\ proc' \in [Roles \X Runs -> ProcStates] /\ pidfile' \in [Roles -> Runs \cup {0}]
        /\ ProcInv' /\ LockInv' /\ NothingLeftUnsignalled'
    BY <1>1, <1>2, Companion
  <1>4. TypeOK'
    BY <1>1, <1>2, <1>3 DEF IInv, TypeOK, Steps, ProcStates
  <1>5. BringUpInv' /\ WindowOpensSteady' /\ TapInv'
    BY <1>1 DEF IInv, BringUpInv, Reads, FirstSpan, WindowOpensSteady, TapInv
  <1>6. QED
    BY <1>3, <1>4, <1>5 DEF IInv

\* The snapshot is loaded and its guest resumed.
LEMMA LoadIInv ==
    ASSUME IInv, Load
    PROVE  IInv'
  <1> USE DEF Goto
  <1>1. /\ pc = "load" /\ pc' = "start" /\ guest' = "running"
        /\ spans' = Append(spans, "restore.resume_to_steady")
        /\ UNCHANGED <<kind, conf, run, lock, mounted, tap, lastIx, pinning, tap_ifindex>>
    BY DEF Load
  <1>2. spans' = <<FirstSpan>> /\ FirstSpan \in SpanNames /\ FirstSpan' = FirstSpan /\ conf.restore
    BY <1>1, FirstRecorded DEF IInv, BringUpInv, FirstSpan, SpanNames
  <1>3. /\ proc' \in [Roles \X Runs -> ProcStates] /\ pidfile' \in [Roles -> Runs \cup {0}]
        /\ ProcInv' /\ LockInv' /\ NothingLeftUnsignalled'
    <2>1. CASE conf.uffd
      <3>1. Background("uffd") /\ mounted' \subseteq {run}
        BY <1>1, <2>1 DEF Load, IInv, ProcInv
      <3>2. QED
        BY <1>1, <3>1, Companion
    <2>2. CASE ~conf.uffd
      <3>1. UNCHANGED <<proc, pidfile>>
        BY <2>2 DEF Load
      <3>2. ProcInv' /\ LockInv' /\ NothingLeftUnsignalled'
        BY <1>1, <3>1, Moves
      <3>3. QED
        BY <3>1, <3>2 DEF IInv, TypeOK, ProcStates
    <2>3. QED
      BY <2>1, <2>2
  <1>4. TypeOK'
    BY <1>1, <1>2, <1>3 DEF IInv, TypeOK, Steps, ProcStates
  <1>5. BringUpInv' /\ WindowOpensSteady'
    BY <1>1, <1>2 DEF IInv, BringUpInv, Reads, WindowOpensSteady
  <1>6. TapInv'
    BY <1>1, <1>2 DEF IInv, TapInv
  <1>7. QED
    BY <1>3, <1>4, <1>5, <1>6 DEF IInv

\* Whatever a failing step of bring-up leaves, its pid file names.
LEMMA BringUpFailsIInv ==
    ASSUME IInv, BringUpFails
    PROVE  IInv'
  <1> USE DEF Goto, targetVars
  <1>1. /\ pc \notin {"launch", "cleanup", "torndown"} /\ pc' = "aborted"
        /\ UNCHANGED <<kind, conf, run, targetVars>>
    BY DEF BringUpFails
  <1>2. mounted \subseteq {run} /\ run \in Runs
    BY DEF IInv, ProcInv, TypeOK
  <1>3. CASE UNCHANGED hostVars
    <2> USE <1>3 DEF hostVars
    <2>1. ProcInv' /\ LockInv'
      BY <1>1, Moves
    <2>2. TypeOK'
      BY <1>1 DEF IInv, TypeOK, Steps
    <2>3. QED
      BY <1>1, <2>1, <2>2, Aborted DEF IInv
  <1>4. CASE /\ pidfile' = [pidfile EXCEPT !["stream"] = run]
             /\ proc' = [proc EXCEPT ![<<"stream", run>>] = "signalled"]
             /\ UNCHANGED <<mounted, lock, tap, lastIx>>
    <2>1. /\ <<"stream", run>> \in Roles \X Runs /\ "signalled" \in ProcStates
          /\ proc \in [Roles \X Runs -> ProcStates] /\ pidfile \in [Roles -> Runs \cup {0}]
          /\ "vmm" \in Roles /\ "stream" \in Roles
      BY <1>2 DEF IInv, TypeOK, Roles, ProcStates
    <2>2. /\ proc' \in [Roles \X Runs -> ProcStates] /\ proc'[<<"stream", run>>] = "signalled"
          /\ \A o \in Roles, r \in Runs :
                <<o, r>> /= <<"stream", run>> => proc'[<<o, r>>] = proc[<<o, r>>]
      BY <1>4, <2>1, SetFacts
    <2>3. /\ pidfile' \in [Roles -> Runs \cup {0}] /\ pidfile'["stream"] = run
          /\ \A o \in Roles : o /= "stream" => pidfile'[o] = pidfile[o]
      BY <1>2, <1>4, <2>1
    <2>4. TypeOK'
      BY <1>1, <1>4, <2>2, <2>3 DEF IInv, TypeOK, Steps, ProcStates
    <2>5. ProcInv'
      BY <1>1, <1>4, <2>2, <2>3 DEF IInv, ProcInv
    <2>6. LockInv'
      <3>1. \A r \in Runs : proc'[<<"vmm", r>>] = proc[<<"vmm", r>>]
        BY <2>1, <2>2
      <3>2. pidfile'["vmm"] = pidfile["vmm"]
        BY <2>1, <2>3
      <3>3. QED
        BY <1>1, <1>2, <3>1, <3>2 DEF IInv, LockInv, Executes
    <2>7. QED
      BY <1>1, <2>4, <2>5, <2>6, Aborted DEF IInv
  <1>5. ASSUME NEW role \in {"uffd", "stream"}, Background(role),
               mounted' \subseteq {run}, UNCHANGED <<lock, tap, lastIx>>
        PROVE  IInv'
    <2>1. /\ proc' \in [Roles \X Runs -> ProcStates] /\ pidfile' \in [Roles -> Runs \cup {0}]
          /\ ProcInv' /\ LockInv'
      BY <1>1, <1>5, Companion
    <2>2. TypeOK'
      BY <1>1, <1>2, <1>5, <2>1 DEF IInv, TypeOK, Steps, ProcStates
    <2>3. QED
      BY <1>1, <2>1, <2>2, Aborted DEF IInv
  <1>6. CASE /\ lastIx' = lastIx + 1
             /\ tap' = [ix |-> lastIx + 1, holder |-> 0]
             /\ UNCHANGED <<proc, pidfile, lock, mounted>>
    <2>1. ProcInv' /\ LockInv'
      BY <1>1, <1>6, Moves
    <2>2. TypeOK'
      BY <1>1, <1>6 DEF IInv, TypeOK, Steps
    <2>3. QED
      BY <1>1, <2>1, <2>2, Aborted DEF IInv
  <1>7. CASE /\ pc = "mount"
             /\ pidfile' = [pidfile EXCEPT !["stream"] = run]
             /\ proc' = [proc EXCEPT ![<<"stream", run>>] = "alive"]
             /\ mounted' = mounted \cup {run}
             /\ UNCHANGED <<lock, tap, lastIx>>
    <2>1. Background("stream") /\ mounted' \subseteq {run}
      BY <1>2, <1>7 DEF Background
    <2>2. QED
      BY <1>5, <1>7, <2>1
  <1>8. CASE pc = "load" /\ Background("uffd") /\ UNCHANGED <<lock, mounted, tap, lastIx>>
    BY <1>2, <1>5, <1>8
  <1>9. QED
    BY <1>3, <1>4, <1>6, <1>7, <1>8 DEF BringUpFails
-----------------------------------------------------------------------------
(* Teardown, the next repeat, and processes that end. *)

\* Teardown signals what the pid files name, and they name all that is alive.
LEMMA KillVmmIInv ==
    ASSUME IInv, KillVmm
    PROVE  IInv'
  <1> USE DEF Goto, targetVars
  <1> DEFINE mid == Signal(proc, "vmm")
  <1>1. /\ pc = "window" /\ pc' = "cleanup" /\ proc' = Signal(mid, "uffd")
        /\ UNCHANGED <<kind, conf, run, pidfile, lock, mounted, tap, lastIx, targetVars>>
    BY DEF KillVmm
  <1>2. /\ proc \in [Roles \X Runs -> ProcStates] /\ "vmm" \in Roles /\ "uffd" \in Roles
        /\ run \in Runs /\ run /= 0
    BY DEF IInv, TypeOK, ProcStates, Roles, Runs
  <1>3. /\ mid \in [Roles \X Runs -> ProcStates]
        /\ \A o \in Roles, r \in Runs :
              /\ mid[<<o, r>>] = "alive" => proc[<<o, r>>] = "alive"
              /\ mid[<<o, r>>] \in {"alive", "signalled"} => proc[<<o, r>>] \in {"alive", "signalled"}
        /\ pidfile["vmm"] /= 0 => mid[<<"vmm", pidfile["vmm"]>>] /= "alive"
    BY <1>2, SignalFacts DEF IInv
  <1> HIDE DEF mid
  <1>4. /\ proc' \in [Roles \X Runs -> ProcStates]
        /\ \A o \in Roles, r \in Runs :
              /\ proc'[<<o, r>>] = "alive" => mid[<<o, r>>] = "alive"
              /\ proc'[<<o, r>>] \in {"alive", "signalled"} => mid[<<o, r>>] \in {"alive", "signalled"}
        /\ pidfile["uffd"] /= 0 => proc'[<<"uffd", pidfile["uffd"]>>] /= "alive"
    <2>1. TypeOK /\ mid \in [Roles \X Runs -> ProcStates] /\ "uffd" \in Roles
      BY <1>2, <1>3 DEF IInv
    <2>2. /\ Signal(mid, "uffd") \in [Roles \X Runs -> ProcStates]
          /\ \A o \in Roles, r \in Runs :
                /\ Signal(mid, "uffd")[<<o, r>>] = "alive" => mid[<<o, r>>] = "alive"
                /\ Signal(mid, "uffd")[<<o, r>>] \in {"alive", "signalled"} =>
                      mid[<<o, r>>] \in {"alive", "signalled"}
          /\ pidfile["uffd"] /= 0 => Signal(mid, "uffd")[<<"uffd", pidfile["uffd"]>>] /= "alive"
      BY <2>1, SignalFacts
    <2>3. proc' = Signal(mid, "uffd")
      BY <1>1
    <2>4. QED
      BY <2>2, <2>3, Zenon
  <1>5. \A o \in Roles, r \in Runs :
           /\ proc'[<<o, r>>] = "alive" => proc[<<o, r>>] = "alive"
           /\ proc'[<<o, r>>] \in {"alive", "signalled"} => proc[<<o, r>>] \in {"alive", "signalled"}
    BY <1>3, <1>4
  <1>6. \A r \in Runs : proc'[<<"vmm", r>>] /= "alive" /\ proc'[<<"uffd", r>>] /= "alive"
    <2> SUFFICES ASSUME NEW r \in Runs
                 PROVE  proc'[<<"vmm", r>>] /= "alive" /\ proc'[<<"uffd", r>>] /= "alive"
      OBVIOUS
    <2>1. \A o \in Roles : proc[<<o, r>>] = "alive" => r = run /\ pidfile[o] = run
      BY DEF IInv, ProcInv
    <2>2. proc'[<<"vmm", r>>] /= "alive"
      BY <1>2, <1>3, <1>4, <2>1
    <2>3. proc'[<<"uffd", r>>] /= "alive"
      BY <1>2, <1>4, <1>5, <2>1
    <2>4. QED
      BY <2>2, <2>3
  <1>7. TypeOK'
    BY <1>1, <1>4 DEF IInv, TypeOK, Steps, ProcStates
  <1>8. ProcInv'
    BY <1>1, <1>5, <1>6 DEF IInv, ProcInv
  <1>9. LockInv'
    <2>1. \A r \in Runs : Executes("vmm", r)' => Executes("vmm", r)
      BY <1>2, <1>5 DEF Executes
    <2>2. QED
      BY <1>1, <1>2, <2>1 DEF IInv, LockInv
  <1>10. BringUpInv' /\ TapInv' /\ NothingLeftUnsignalled' /\ WindowOpensSteady'
    BY <1>1 DEF IInv, BringUpInv, Reads, TapInv, NothingLeftUnsignalled, WindowOpensSteady
  <1>11. QED
    BY <1>7, <1>8, <1>9, <1>10 DEF IInv

\* What is left of the repeat is signalled; a cloud-hypervisor has exited or was killed.
LEMMA CleanupIInv ==
    ASSUME IInv, Cleanup
    PROVE  IInv'
  <1> USE DEF Goto, targetVars
  <1> DEFINE mid == AfterWait
             x == <<"vmm", pidfile["vmm"]>>
  <1>1. /\ pc = "cleanup" /\ pc' = "torndown" /\ proc' = Signal(mid, "stream")
        /\ mounted' = mounted \ {run} /\ pidfile' = [role \in Roles |-> 0]
        /\ lock' = IF kind = "cloud-hypervisor" THEN 0 ELSE lock
        /\ tap' \in {NoTap, tap}
        /\ UNCHANGED <<kind, conf, run, lastIx, targetVars>>
    BY DEF Cleanup
  <1>2. /\ proc \in [Roles \X Runs -> ProcStates] /\ "vmm" \in Roles /\ "stream" \in Roles
        /\ run \in Runs /\ run /= 0 /\ run \in Nat /\ pidfile["vmm"] \in Runs \cup {0}
    BY DEF IInv, TypeOK, ProcStates, Roles, Runs
  <1>3. /\ mid \in [Roles \X Runs -> ProcStates]
        /\ \A o \in Roles, r \in Runs :
              mid[<<o, r>>] \in {"alive", "signalled"} => mid[<<o, r>>] = proc[<<o, r>>]
        /\ kind = "cloud-hypervisor" /\ pidfile["vmm"] /= 0 => mid[x] \notin {"alive", "signalled"}
    <2>1. CASE kind = "cloud-hypervisor" /\ Lives("vmm", pidfile["vmm"])
      <3>1. mid = [proc EXCEPT ![x] = "killed"]
        BY <2>1 DEF AfterWait
      <3>2. x \in Roles \X Runs /\ "killed" \in ProcStates
        BY <1>2, <2>1 DEF ProcStates, Lives
      <3> HIDE DEF mid, x
      <3>3. /\ mid \in [Roles \X Runs -> ProcStates] /\ mid[x] = "killed"
            /\ \A o \in Roles, r \in Runs : <<o, r>> /= x => mid[<<o, r>>] = proc[<<o, r>>]
        BY <1>2, <3>1, <3>2, SetFacts
      <3>4. QED
        BY <3>3
    <2>2. CASE ~(kind = "cloud-hypervisor" /\ Lives("vmm", pidfile["vmm"]))
      <3>1. mid = proc
        BY <2>2 DEF AfterWait
      <3>2. kind = "cloud-hypervisor" /\ pidfile["vmm"] /= 0 => mid[x] \notin {"alive", "signalled"}
        BY <1>2, <2>2, <3>1 DEF Lives
      <3>3. QED
        BY <1>2, <3>1, <3>2
    <2>3. QED
      BY <2>1, <2>2
  <1> HIDE DEF mid
  <1>4. /\ proc' \in [Roles \X Runs -> ProcStates]
        /\ \A o \in Roles, r \in Runs :
              /\ proc'[<<o, r>>] = "alive" => mid[<<o, r>>] = "alive"
              /\ proc'[<<o, r>>] \in {"alive", "signalled"} => mid[<<o, r>>] \in {"alive", "signalled"}
        /\ pidfile["stream"] /= 0 => proc'[<<"stream", pidfile["stream"]>>] /= "alive"
    <2>1. TypeOK /\ mid \in [Roles \X Runs -> ProcStates] /\ "stream" \in Roles
      BY <1>2, <1>3 DEF IInv
    <2> DEFINE new == Signal(mid, "stream")
    <2>2. /\ new \in [Roles \X Runs -> ProcStates]
          /\ \A o \in Roles, r \in Runs :
                /\ new[<<o, r>>] = "alive" => mid[<<o, r>>] = "alive"
                /\ new[<<o, r>>] \in {"alive", "signalled"} => mid[<<o, r>>] \in {"alive", "signalled"}
          /\ pidfile["stream"] /= 0 => new[<<"stream", pidfile["stream"]>>] /= "alive"
      BY <2>1, SignalFacts
    <2>3. QED
      BY <1>1, <2>2
  <1>5. \A o \in Roles, r \in Runs : proc'[<<o, r>>] /= "alive"
    <2> SUFFICES ASSUME NEW o \in Roles, NEW r \in Runs, proc'[<<o, r>>] = "alive"
                 PROVE  FALSE
      OBVIOUS
    <2>1. proc[<<o, r>>] = "alive"
      BY <1>3, <1>4
    <2>2. r = run /\ pidfile[o] = run /\ o = "stream"
      BY <1>1, <2>1 DEF IInv, ProcInv, Roles
    <2>3. QED
      BY <1>2, <1>4, <2>2
  <1>6. TypeOK'
    <2>1. tap' \in [ix : Nat, holder : Runs \cup {0}]
      BY <1>1 DEF IInv, TypeOK, NoTap
    <2>2. pidfile' \in [Roles -> Runs \cup {0}] /\ lock' \in Runs \cup {0} /\ mounted' \subseteq Runs
      BY <1>1 DEF IInv, TypeOK
    <2>3. QED
      BY <1>1, <1>4, <2>1, <2>2 DEF IInv, TypeOK, Steps, ProcStates
  <1>7. ProcInv' /\ NothingLeftUnsignalled'
    <2>1. mounted' = {}
      BY <1>1 DEF IInv, ProcInv
    <2>2. QED
      BY <1>1, <1>5, <2>1, <1>2 DEF ProcInv, NothingLeftUnsignalled, Roles
  <1>8. LockInv'
    <2> SUFFICES ASSUME kind = "cloud-hypervisor"
                 PROVE  LockInv'
      BY <1>1 DEF LockInv
    <2>1. \A r \in Runs : Executes("vmm", r)' =>
             Executes("vmm", r) /\ mid[<<"vmm", r>>] \in {"alive", "signalled"}
      BY <1>2, <1>3, <1>4 DEF Executes
    <2>2. ~Executes("vmm", run)'
      <3>1. SUFFICES ASSUME Executes("vmm", run)'
                     PROVE  FALSE
        OBVIOUS
      <3>2. Executes("vmm", run) /\ mid[<<"vmm", run>>] \in {"alive", "signalled"}
        BY <1>2, <2>1, <1>1, <3>1
      <3>3. pidfile["vmm"] = run
        BY <1>1, <3>2 DEF IInv, LockInv
      <3>4. QED
        BY <1>2, <1>3, <3>2, <3>3
    <2>3. QED
      BY <1>1, <2>1, <2>2 DEF IInv, LockInv
  <1>9. BringUpInv' /\ TapInv' /\ WindowOpensSteady'
    BY <1>1 DEF IInv, BringUpInv, Reads, TapInv, WindowOpensSteady
  <1>10. QED
    BY <1>6, <1>7, <1>8, <1>9 DEF IInv

\* The next repeat starts with nothing of this one unsignalled.
LEMMA NextRunIInv ==
    ASSUME IInv, NextRun
    PROVE  IInv'
  <1> USE DEF Goto, hostVars
  <1>1. run \in Nat /\ run' = run + 1 /\ run' \in Runs
    BY VmmAssumption DEF NextRun, IInv, TypeOK, Runs
  <1>2. TypeOK'
    <2>1. spans' \in Seq(SpanNames)
      BY DEF NextRun
    <2>2. pinning' \in BOOLEAN
      BY Zenon DEF NextRun
    <2>3. QED
      BY <1>1, <2>1, <2>2 DEF NextRun, IInv, TypeOK, Steps
  <1>3. ProcInv' /\ NothingLeftUnsignalled'
    BY DEF NextRun, IInv, ProcInv, NothingLeftUnsignalled
  <1>4. BringUpInv' /\ TapInv' /\ WindowOpensSteady'
    BY DEF NextRun, IInv, BringUpInv, Reads, FirstSpan, TapInv, WindowOpensSteady
  <1>5. LockInv'
    <2>1. \A r \in Runs : r \in Nat
      BY DEF Runs
    <2>2. \A r \in Runs : Executes("vmm", r)' <=> Executes("vmm", r)
      BY DEF NextRun, Executes
    <2>3. \A r \in Runs : r >= run /\ r /= run => r >= run'
      BY <1>1, <2>1
    <2>4. QED
      BY <2>2, <2>3 DEF NextRun, IInv, LockInv
  <1>6. QED
    BY <1>2, <1>3, <1>4, <1>5 DEF IInv

\* A process may end at any time; that only makes the obligations fewer.
LEMMA EndsIInv ==
    ASSUME IInv, NEW role \in Roles, NEW r \in Runs, Ends(role, r)
    PROVE  IInv'
  <1> USE DEF targetVars
  <1>1. /\ proc' = [proc EXCEPT ![<<role, r>>] = "dead"]
        /\ UNCHANGED <<kind, conf, run, pc, pidfile, lock, mounted, tap, lastIx, targetVars>>
    BY DEF Ends
  <1>2. proc \in [Roles \X Runs -> ProcStates] /\ <<role, r>> \in Roles \X Runs /\ "dead" \in ProcStates
    BY DEF IInv, TypeOK, ProcStates
  <1>3. /\ proc' \in [Roles \X Runs -> ProcStates] /\ proc'[<<role, r>>] = "dead"
        /\ \A o \in Roles, q \in Runs :
              <<o, q>> /= <<role, r>> => proc'[<<o, q>>] = proc[<<o, q>>]
    BY <1>1, <1>2, SetFacts
  <1>4. \A o \in Roles, q \in Runs :
           proc'[<<o, q>>] \in {"alive", "signalled"} => proc'[<<o, q>>] = proc[<<o, q>>]
    BY <1>3
  <1>5. TypeOK'
    BY <1>1, <1>3 DEF IInv, TypeOK, ProcStates
  <1>6. ProcInv' /\ NothingLeftUnsignalled'
    BY <1>1, <1>4 DEF IInv, ProcInv, NothingLeftUnsignalled, Roles
  <1>7. LockInv'
    <2>1. \A q \in Runs : Executes("vmm", q)' => Executes("vmm", q)
      BY <1>4 DEF Executes, Roles
    <2>2. run \in Runs
      BY DEF IInv, TypeOK
    <2>3. QED
      BY <1>1, <2>1, <2>2 DEF IInv, LockInv
  <1>8. BringUpInv' /\ TapInv' /\ WindowOpensSteady'
    BY <1>1 DEF IInv, BringUpInv, Reads, FirstSpan, ExpectedSpans, TapInv, WindowOpensSteady
  <1>9. QED
    BY <1>5, <1>6, <1>7, <1>8 DEF IInv
-----------------------------------------------------------------------------
(* The invariant. *)

\* The first repeat starts on a host without processes.
LEMMA InitIInv == Init => IInv
  <1> SUFFICES ASSUME Init PROVE IInv
    OBVIOUS
  <1>1. run \in Runs /\ 1 \in Runs
    BY VmmAssumption DEF Init, Runs
  <1>2. TypeOK
    <2>1. conf \in Configs /\ spans \in Seq(SpanNames)
      BY DEF Init
    <2>2. pinning \in BOOLEAN
      BY Zenon DEF Init
    <2>3. QED
      BY <1>1, <2>1, <2>2 DEF Init, TypeOK, Steps, NoTap, ProcStates
  <1>3. ProcInv /\ NothingLeftUnsignalled
    BY DEF Init, ProcInv, NothingLeftUnsignalled
  <1>4. BringUpInv /\ TapInv /\ WindowOpensSteady
    BY DEF Init, BringUpInv, TapInv, WindowOpensSteady
  <1>5. LockInv
    BY DEF Init, LockInv, Executes, Roles
  <1>6. QED
    BY <1>2, <1>3, <1>4, <1>5 DEF IInv

\* One case per action.
LEMMA NextIInv ==
    ASSUME IInv, [Next]_vars
    PROVE  IInv'
  <1>1. CASE UNCHANGED vars
    <2> USE <1>1 DEF vars, hostVars, targetVars
    <2>1. TypeOK' /\ ProcInv' /\ NothingLeftUnsignalled'
      BY DEF IInv, TypeOK, ProcInv, NothingLeftUnsignalled
    <2>2. BringUpInv' /\ TapInv' /\ WindowOpensSteady'
      BY DEF IInv, BringUpInv, Reads, FirstSpan, ExpectedSpans, TapInv, WindowOpensSteady
    <2>3. LockInv'
      BY DEF IInv, LockInv, Executes
    <2>4. QED
      BY <2>1, <2>2, <2>3 DEF IInv
  <1>2. QED
    BY <1>1, LaunchIInv, LaunchFailsIInv, MountStreamIInv, LoadIInv, ConfigureIInv,
       CreateTapIInv, StartIInv, ReachSteadyIInv, SnapshotIInv, BringUpFailsIInv,
       KillVmmIInv, CleanupIInv, NextRunIInv, EndsIInv DEF Next

\* The inductive invariant of the native targets holds throughout.
THEOREM Invariance == Spec => []IInv
  BY InitIInv, NextIInv, PTL DEF Spec

\* However many repeats a cell has and wherever its processes end or bring-up
\* stops, a teardown leaves no process unsignalled and no stream mounted.
THEOREM TeardownSignalsAll == Spec => []NothingLeftUnsignalled
  <1>1. IInv => NothingLeftUnsignalled
    BY DEF IInv
  <1>2. QED
    BY <1>1, Invariance, PTL

\* Every window opens on a running guest, pinned as asked, with its spans recorded.
THEOREM WindowIsSteady == Spec => []WindowOpensSteady
  <1>1. IInv => WindowOpensSteady
    BY DEF IInv
  <1>2. QED
    BY <1>1, Invariance, PTL

\* The tap reported for attribution is the one this repeat's VMM has open.
THEOREM TapIsOwn == Spec => []AttributesOwnTap
  <1>1. IInv => AttributesOwnTap
    BY DEF IInv, TapInv, AttributesOwnTap
  <1>2. QED
    BY <1>1, Invariance, PTL

\* However long the earlier repeats' cloud-hypervisors take to go, none of them still
\* executes and no lock file is left when the next is launched.
THEOREM SocketIsHandedOver == Spec => []SocketHandedOver
  <1>1. ASSUME IInv PROVE SocketHandedOver
    <2>1. run \in Runs /\ \A r \in 1 .. run - 1 : r \in Runs /\ ~(r >= run)
      BY <1>1, VmmAssumption DEF IInv, TypeOK, Runs
    <2>2. QED
      BY <1>1, <2>1 DEF IInv, LockInv, SocketHandedOver
  <1>2. QED
    BY <1>1, Invariance, PTL
=============================================================================
