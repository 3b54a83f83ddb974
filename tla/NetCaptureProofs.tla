-------------------------- MODULE NetCaptureProofs --------------------------
(* Proofs about the net gadget (module NetCapture), for any number of        *)
(* invocations, interfaces, CPUs and packets and any size of the stats map.  *)
EXTENDS NetCapture, FiniteSetTheorems, TLAPS

(* Handlers. *)

\* A handler that is under way has its packet's interface and direction.
LEMMA Handler ==
    ASSUME TypeOK, NEW c \in CPUs, cpu[c].pc /= "idle"
    PROVE  cpu[c] \in Handlers
  BY DEF TypeOK, Idle

\* Moving a handler on changes its place in the program and nothing else.
LEMMA GotoFacts ==
    ASSUME TypeOK, NEW c \in CPUs, cpu[c].pc /= "idle",
           NEW q \in {"lookup", "insert", "packets", "bytes", "sizes"}, Goto(c, q)
    PROVE  /\ cpu' \in [CPUs -> Handlers \cup {Idle}]
           /\ \A e \in CPUs : e /= c => cpu'[e] = cpu[e]
           /\ cpu'[c] \in Handlers
           /\ cpu'[c].pc = q /\ cpu'[c].p = cpu[c].p /\ cpu'[c].i = cpu[c].i
           /\ cpu'[c].d = cpu[c].d /\ cpu'[c].win = cpu[c].win
  <1> DEFINE h == [cpu[c] EXCEPT !.pc = q]
  <1>1. cpu[c] \in Handlers
    BY Handler
  <1>2. /\ h \in Handlers /\ h.pc = q /\ h.p = cpu[c].p /\ h.i = cpu[c].i
        /\ h.d = cpu[c].d /\ h.win = cpu[c].win
    BY <1>1 DEF Handlers
  <1>3. cpu' = [cpu EXCEPT ![c] = h]
    BY DEF Goto
  <1> HIDE DEF h
  <1>4. QED
    BY <1>2, <1>3 DEF TypeOK

\* A handler h works for invocation p on interface i in direction d, at pcs.
At(h, p, i, d, pcs) == h.pc \in pcs /\ h.p = p /\ h.i = i /\ h.d = d
One(b) == IF b THEN 1 ELSE 0

\* The number of handlers somewhere changes by the one whose CPU took the step.
LEMMA RunningCard ==
    ASSUME NEW c \in CPUs, \A e \in CPUs : e /= c => cpu'[e] = cpu[e],
           NEW p, NEW i, NEW d, NEW pcs
    PROVE  /\ Cardinality(Running(p, i, d, pcs)) \in Nat
           /\ Cardinality(Running(p, i, d, pcs))' \in Nat
           /\ Cardinality(Running(p, i, d, pcs))' + One(At(cpu[c], p, i, d, pcs)) =
                 Cardinality(Running(p, i, d, pcs)) + One(At(cpu'[c], p, i, d, pcs))
  <1> DEFINE R == Running(p, i, d, pcs)
             N == Running(p, i, d, pcs)'
  <1>1. R \subseteq CPUs /\ N \subseteq CPUs /\ R \ {c} = N \ {c}
    BY DEF Running
  <1>2. (c \in R <=> At(cpu[c], p, i, d, pcs)) /\ (c \in N <=> At(cpu'[c], p, i, d, pcs))
    BY DEF Running, At
  <1> HIDE DEF R, N
  <1>3. IsFiniteSet(R) /\ IsFiniteSet(N)
    BY <1>1, FS_Subset, NetAssumption
  <1>4. Cardinality(R) \in Nat /\ Cardinality(N) \in Nat
    BY <1>3, FS_CardinalityType
  <1>5. /\ Cardinality(R \ {c}) = IF c \in R THEN Cardinality(R) - 1 ELSE Cardinality(R)
        /\ Cardinality(N \ {c}) = IF c \in N THEN Cardinality(N) - 1 ELSE Cardinality(N)
    BY <1>3, FS_RemoveElement
  <1>6. Cardinality(N) + One(c \in R) = Cardinality(R) + One(c \in N)
    BY <1>1, <1>4, <1>5 DEF One
  <1>7. QED
    BY <1>2, <1>4, <1>6 DEF R, N, One

\* The same for the handlers of packets that crossed a target in its window.
LEMMA PendingCard ==
    ASSUME NEW c \in CPUs, \A e \in CPUs : e /= c => cpu'[e] = cpu[e],
           NEW p, NEW i, NEW d
    PROVE  LET pcs == {"lookup", "insert", "packets"}
           IN /\ Cardinality(Pending(p, i, d)) \in Nat
              /\ Cardinality(Pending(p, i, d))' \in Nat
              /\ Cardinality(Pending(p, i, d))' + One(At(cpu[c], p, i, d, pcs) /\ cpu[c].win) =
                    Cardinality(Pending(p, i, d)) + One(At(cpu'[c], p, i, d, pcs) /\ cpu'[c].win)
  <1> DEFINE pcs == {"lookup", "insert", "packets"}
             R == Pending(p, i, d)
             N == Pending(p, i, d)'
  <1>1. R \subseteq CPUs /\ N \subseteq CPUs /\ R \ {c} = N \ {c}
    BY DEF Pending, Running
  <1>2. /\ c \in R <=> At(cpu[c], p, i, d, pcs) /\ cpu[c].win
        /\ c \in N <=> At(cpu'[c], p, i, d, pcs) /\ cpu'[c].win
    BY DEF Pending, Running, At
  <1> HIDE DEF R, N
  <1>3. IsFiniteSet(R) /\ IsFiniteSet(N)
    BY <1>1, FS_Subset, NetAssumption
  <1>4. Cardinality(R) \in Nat /\ Cardinality(N) \in Nat
    BY <1>3, FS_CardinalityType
  <1>5. /\ Cardinality(R \ {c}) = IF c \in R THEN Cardinality(R) - 1 ELSE Cardinality(R)
        /\ Cardinality(N \ {c}) = IF c \in N THEN Cardinality(N) - 1 ELSE Cardinality(N)
    BY <1>3, FS_RemoveElement
  <1>6. Cardinality(N) + One(c \in R) = Cardinality(R) + One(c \in N)
    BY <1>1, <1>4, <1>5 DEF One
  <1>7. QED
    BY <1>2, <1>4, <1>6 DEF R, N, One

\* A handler that returns leaves its CPU to the next packet.
LEMMA IdleFacts ==
    ASSUME TypeOK, NEW c \in CPUs, cpu' = [cpu EXCEPT ![c] = Idle]
    PROVE  /\ cpu' \in [CPUs -> Handlers \cup {Idle}]
           /\ \A e \in CPUs : e /= c => cpu'[e] = cpu[e]
           /\ cpu'[c].pc = "idle"
  BY DEF TypeOK, Idle

\* Adding one to a counter leaves the other two.
LEMMA CounterAdd ==
    ASSUME NEW r \in Counters, NEW f \in {"packets", "bytes", "sizes"}
    PROVE  LET s == [r EXCEPT ![f] = @ + 1]
           IN /\ s \in Counters
              /\ s.packets = r.packets + One(f = "packets")
              /\ s.bytes = r.bytes + One(f = "bytes")
              /\ s.sizes = r.sizes + One(f = "sizes")
  <1>1. CASE f = "packets"
    BY <1>1 DEF Counters, One
  <1>2. CASE f = "bytes"
    BY <1>2 DEF Counters, One
  <1>3. CASE f = "sizes"
    BY <1>3 DEF Counters, One
  <1>4. QED
    BY <1>1, <1>2, <1>3

\* One atomic add moves one counter of one direction of one interface by one.
LEMMA AddFacts ==
    ASSUME TypeOK, HandlerInv, NEW c \in CPUs,
           NEW f \in {"packets", "bytes", "sizes"}, Add(c, f)
    PROVE  LET P == cpu[c].p  I == cpu[c].i  D == cpu[c].d
           IN /\ DOMAIN stats' = Procs
              /\ \A p \in Procs : DOMAIN stats'[p] = DOMAIN stats[p]
                                  /\ IsMap(stats'[p], [Dirs -> Counters])
              /\ I \in DOMAIN stats[P]
              /\ \A p \in Procs : \A i \in DOMAIN stats[p], d \in Dirs :
                    p /= P \/ i /= I \/ d /= D => stats'[p][i][d] = stats[p][i][d]
              /\ stats[P][I][D] \in Counters /\ stats'[P][I][D] \in Counters
              /\ stats'[P][I][D].packets = stats[P][I][D].packets + One(f = "packets")
              /\ stats'[P][I][D].bytes = stats[P][I][D].bytes + One(f = "bytes")
              /\ stats'[P][I][D].sizes = stats[P][I][D].sizes + One(f = "sizes")
  <1> DEFINE P == cpu[c].p
             I == cpu[c].i
             D == cpu[c].d
             s == [stats[P][I][D] EXCEPT ![f] = @ + 1]
             ds == [stats[P][I] EXCEPT ![D] = s]
             m == [stats[P] EXCEPT ![I] = ds]
  <1>1. P \in Procs /\ I \in Ifaces /\ D \in Dirs /\ I \in DOMAIN stats[P]
    BY Handler DEF Add, Handlers, HandlerInv
  <1>2. /\ IsMap(stats[P], [Dirs -> Counters]) /\ DOMAIN stats = Procs
        /\ stats[P][I] \in [Dirs -> Counters] /\ stats[P][I][D] \in Counters
    BY <1>1 DEF TypeOK, IsMap
  <1>3. stats' = [stats EXCEPT ![P] = m]
    BY DEF Add
  <1>4. /\ s \in Counters
        /\ s.packets = stats[P][I][D].packets + One(f = "packets")
        /\ s.bytes = stats[P][I][D].bytes + One(f = "bytes")
        /\ s.sizes = stats[P][I][D].sizes + One(f = "sizes")
    BY <1>2, CounterAdd
  <1> HIDE DEF s
  <1>5. ds \in [Dirs -> Counters] /\ ds[D] = s /\ \A d \in Dirs : d /= D => ds[d] = stats[P][I][d]
    BY <1>1, <1>2, <1>4
  <1> HIDE DEF ds
  <1>6. /\ DOMAIN m = DOMAIN stats[P] /\ IsMap(m, [Dirs -> Counters])
        /\ m[I] = ds /\ \A i \in DOMAIN stats[P] : i /= I => m[i] = stats[P][i]
    BY <1>1, <1>2, <1>5 DEF IsMap
  <1> HIDE DEF m, P, I, D
  <1>7. /\ DOMAIN stats' = Procs /\ stats'[P] = m
        /\ \A p \in Procs : p /= P => stats'[p] = stats[p]
    BY <1>1, <1>2, <1>3
  <1>8. \A p \in Procs : DOMAIN stats'[p] = DOMAIN stats[p] /\ IsMap(stats'[p], [Dirs -> Counters])
    BY <1>6, <1>7 DEF TypeOK
  <1>9. \A p \in Procs : \A i \in DOMAIN stats[p], d \in Dirs :
           p /= P \/ i /= I \/ d /= D => stats'[p][i][d] = stats[p][i][d]
    BY <1>5, <1>6, <1>7
  <1>10. stats'[P][I][D] = s
    BY <1>5, <1>6, <1>7
  <1>11. QED
    BY <1>1, <1>2, <1>4, <1>7, <1>8, <1>9, <1>10 DEF P, I, D

-----------------------------------------------------------------------------
(* tap_rx and tap_tx. *)

\* Counters only grow and entries only come, so what was read stays covered.
LEMMA ReadKept ==
    ASSUME IInv, UNCHANGED <<proc, left, head, series, atEnd>>,
           \A p \in Procs : /\ DOMAIN stats[p] \subseteq DOMAIN stats'[p]
                            /\ IsMap(stats'[p], [Dirs -> Counters]),
           \A p \in Procs : \A i \in DOMAIN stats[p], d \in Dirs :
              Covers(stats'[p][i][d], stats[p][i][d])
    PROVE  ReadInv'
  <1>1. ASSUME NEW p \in Procs, NEW i \in DOMAIN stats[p], NEW d \in Dirs
        PROVE  stats[p][i][d] \in Counters /\ stats'[p][i][d] \in Counters
    BY <1>1 DEF IInv, TypeOK, IsMap
  <1>2. ASSUME NEW p \in Procs, NEW i \in DOMAIN atEnd[p], NEW d \in Dirs
        PROVE  Covers(stats'[p][i][d], atEnd[p][i][d])
    <2>1. i \in DOMAIN stats[p] /\ Covers(stats[p][i][d], atEnd[p][i][d])
      BY <1>2 DEF IInv, ReadInv, ReadOf
    <2>2. atEnd[p][i][d] \in Counters
      BY <1>2 DEF IInv, TypeOK, IsMap
    <2>3. Covers(stats'[p][i][d], stats[p][i][d])
      BY <2>1
    <2>4. QED
      BY <1>1, <2>1, <2>2, <2>3 DEF Covers, Counters
  <1>3. ASSUME NEW p \in Procs, NEW i \in DOMAIN head[p], NEW d \in Dirs
        PROVE  head[p][i][d].packets <= stats'[p][i][d].sizes + Cardinality(CPUs)
    <2>1. i \in DOMAIN stats[p] /\ head[p][i][d].packets <= stats[p][i][d].sizes + Cardinality(CPUs)
      BY <1>3 DEF IInv, ReadInv, ReadOf
    <2>2. head[p][i][d] \in Counters /\ Cardinality(CPUs) \in Nat
      BY <1>3, FS_CardinalityType, NetAssumption DEF IInv, TypeOK, IsMap
    <2>3. Covers(stats'[p][i][d], stats[p][i][d])
      BY <2>1
    <2>4. QED
      BY <1>1, <2>1, <2>2, <2>3 DEF Covers, Counters
  <1>4. QED
    BY <1>2, <1>3 DEF IInv, ReadInv, ReadOf, Reported

\* A step that adds nothing to an existing entry, and at most an empty one, keeps
\* the counters in agreement.
LEMMA NoAdd ==
    ASSUME IInv, NEW c \in CPUs, \A e \in CPUs : e /= c => cpu'[e] = cpu[e],
           cpu[c].pc \notin {"bytes", "sizes"}, cpu'[c].pc \notin {"bytes", "sizes"},
           \A p \in Procs : /\ DOMAIN stats[p] \subseteq DOMAIN stats'[p]
                            /\ \A i \in DOMAIN stats[p] : stats'[p][i] = stats[p][i]
                            /\ \A i \in DOMAIN stats'[p] \ DOMAIN stats[p] : stats'[p][i] = Zero
    PROVE  /\ CountersAgree'
           /\ \A p \in Procs, i \in Ifaces, d \in Dirs : Counted(p, i, d)' = Counted(p, i, d)
           /\ \A p \in Procs : \A i \in DOMAIN stats[p], d \in Dirs :
                 Covers(stats'[p][i][d], stats[p][i][d])
  <1>1. ASSUME NEW p \in Procs, NEW i \in DOMAIN stats'[p], NEW d \in Dirs
        PROVE  LET s == stats'[p][i][d]
               IN /\ s.packets = s.sizes + Cardinality(Running(p, i, d, {"bytes", "sizes"}))'
                  /\ s.bytes = s.sizes + Cardinality(Running(p, i, d, {"sizes"}))'
    <2>1. /\ ~At(cpu[c], p, i, d, {"bytes", "sizes"}) /\ ~At(cpu'[c], p, i, d, {"bytes", "sizes"})
          /\ ~At(cpu[c], p, i, d, {"sizes"}) /\ ~At(cpu'[c], p, i, d, {"sizes"})
      BY DEF At
    <2>2. /\ Cardinality(Running(p, i, d, {"bytes", "sizes"}))' =
                Cardinality(Running(p, i, d, {"bytes", "sizes"}))
          /\ Cardinality(Running(p, i, d, {"sizes"}))' = Cardinality(Running(p, i, d, {"sizes"}))
      BY <2>1, RunningCard DEF One
    <2>3. CASE i \in DOMAIN stats[p]
      BY <2>2, <2>3 DEF IInv, CountersAgree
    <2>4. CASE i \notin DOMAIN stats[p]
      <3>1. /\ Running(p, i, d, {"bytes", "sizes"}) = {}
            /\ Running(p, i, d, {"sizes"}) = {}
        BY <2>4 DEF IInv, HandlerInv, Running
      <3>2. stats'[p][i][d] = [packets |-> 0, bytes |-> 0, sizes |-> 0]
        BY <2>4 DEF Zero
      <3>3. QED
        BY <2>2, <3>1, <3>2, FS_EmptySet
    <2>5. QED
      BY <2>3, <2>4
  <1>2. CountersAgree'
    BY <1>1 DEF CountersAgree
  <1>3. \A p \in Procs, i \in Ifaces, d \in Dirs : Counted(p, i, d)' = Counted(p, i, d)
    BY DEF Counted, Zero
  <1>4. ASSUME NEW p \in Procs, NEW i \in DOMAIN stats[p], NEW d \in Dirs
        PROVE  Covers(stats'[p][i][d], stats[p][i][d])
    <2>1. stats[p][i][d] \in Counters
      BY <1>4 DEF IInv, TypeOK, IsMap
    <2>2. QED
      BY <2>1 DEF Covers, Counters
  <1>5. QED
    BY <1>2, <1>3, <1>4

\* A handler that only moves, from one place before its first add to another.
LEMMA MoveIInv ==
    ASSUME IInv, NEW c \in CPUs, cpu[c].pc \in {"lookup", "insert"},
           NEW q \in {"insert", "packets"}, Goto(c, q),
           q = "packets" => cpu[c].i \in DOMAIN stats'[cpu[c].p],
           DOMAIN stats' = Procs,
           \A p \in Procs : /\ DOMAIN stats[p] \subseteq DOMAIN stats'[p]
                            /\ IsMap(stats'[p], [Dirs -> Counters])
                            /\ \A i \in DOMAIN stats[p] : stats'[p][i] = stats[p][i]
                            /\ \A i \in DOMAIN stats'[p] \ DOMAIN stats[p] : stats'[p][i] = Zero,
           UNCHANGED <<hostVars, loaderVars, history>>
    PROVE  IInv'
  <1> USE DEF hostVars, loaderVars, history
  <1>1. /\ cpu' \in [CPUs -> Handlers \cup {Idle}]
        /\ \A e \in CPUs : e /= c => cpu'[e] = cpu[e]
        /\ cpu'[c].pc = q /\ cpu'[c].p = cpu[c].p /\ cpu'[c].i = cpu[c].i
        /\ cpu'[c].d = cpu[c].d /\ cpu'[c].win = cpu[c].win
    BY GotoFacts DEF IInv
  <1>2. TypeOK'
    BY <1>1 DEF IInv, TypeOK
  <1>3. LinkInv'
    BY DEF IInv, LinkInv, Linked, Filtered
  <1>4. HandlerInv'
    <2> SUFFICES ASSUME NEW e \in CPUs, cpu'[e].pc \in {"packets", "bytes", "sizes"}
                 PROVE  cpu'[e].i \in DOMAIN stats'[cpu'[e].p]
      BY DEF HandlerInv
    <2>1. CASE e = c
      BY <1>1, <2>1
    <2>2. CASE e /= c
      <3>1. cpu[e] \in Handlers /\ cpu[e].i \in DOMAIN stats[cpu[e].p]
        BY <1>1, <2>2, Handler DEF IInv, HandlerInv
      <3>2. QED
        BY <1>1, <2>2, <3>1 DEF Handlers
    <2>3. QED
      BY <2>1, <2>2
  <1>5. /\ CountersAgree'
        /\ \A p \in Procs, i \in Ifaces, d \in Dirs : Counted(p, i, d)' = Counted(p, i, d)
        /\ \A p \in Procs : \A i \in DOMAIN stats[p], d \in Dirs :
              Covers(stats'[p][i][d], stats[p][i][d])
    BY <1>1, NoAdd
  <1>6. WindowInv'
    <2> SUFFICES ASSUME NEW p \in Procs, NEW i \in Ifaces, NEW d \in Dirs
                 PROVE  passed[p][i][d] <= Counted(p, i, d)' + dropped[p][i][d]
                                              + Cardinality(Pending(p, i, d))'
      BY DEF WindowInv
    <2>1. At(cpu'[c], p, i, d, {"lookup", "insert", "packets"}) <=>
             At(cpu[c], p, i, d, {"lookup", "insert", "packets"})
      BY <1>1 DEF At
    <2>2. Cardinality(Pending(p, i, d))' = Cardinality(Pending(p, i, d))
      BY <1>1, <2>1, PendingCard DEF One
    <2>3. QED
      BY <1>5, <2>2 DEF IInv, WindowInv
  <1>7. ReadInv'
    BY <1>5, ReadKept
  <1>8. QED
    BY <1>2, <1>3, <1>4, <1>5, <1>6, <1>7 DEF IInv

\* The first lookup.
LEMMA LookupIInv ==
    ASSUME IInv, NEW c \in CPUs, Lookup(c)
    PROVE  IInv'
  <1> DEFINE q == IF cpu[c].i \in DOMAIN StatOf(c) THEN "packets" ELSE "insert"
  <1>1. /\ cpu[c].pc = "lookup" /\ Goto(c, q)
        /\ UNCHANGED <<hostVars, stats, loaderVars, history>>
    BY DEF Lookup
  <1>2. q \in {"insert", "packets"} /\ (q = "packets" => cpu[c].i \in DOMAIN stats[cpu[c].p])
    BY DEF StatOf
  <1> HIDE DEF q
  <1>3. QED
    BY <1>1, <1>2, MoveIInv DEF IInv, TypeOK

\* BPF_NOEXIST makes an empty entry or leaves the one another CPU made.
LEMMA InsertIInv ==
    ASSUME IInv, NEW c \in CPUs, Insert(c)
    PROVE  IInv'
  <1> DEFINE P == cpu[c].p
             I == cpu[c].i
             m == Put(stats[P], I, Zero)
  <1>1. /\ cpu[c].pc = "insert" /\ Goto(c, "packets")
        /\ UNCHANGED <<hostVars, loaderVars, history>>
        /\ stats' = IF I \in DOMAIN stats[P] THEN stats ELSE [stats EXCEPT ![P] = m]
    BY DEF Insert, StatOf
  <1>2. P \in Procs /\ I \in Ifaces
    BY <1>1, Handler DEF IInv, Handlers
  <1>3. Zero \in [Dirs -> Counters]
    BY DEF Zero, Counters
  <1>4. IsMap(stats[P], [Dirs -> Counters]) /\ DOMAIN stats = Procs
    BY <1>2 DEF IInv, TypeOK
  <1> HIDE DEF P, I
  <1>5. /\ DOMAIN m = DOMAIN stats[P] \cup {I} /\ IsMap(m, [Dirs -> Counters])
        /\ m[I] = Zero /\ \A i \in DOMAIN stats[P] : i /= I => m[i] = stats[P][i]
    BY <1>2, <1>3, <1>4 DEF Put, IsMap
  <1> HIDE DEF m
  <1>6. /\ DOMAIN stats' = Procs
        /\ I \in DOMAIN stats'[P]
        /\ \A p \in Procs : /\ DOMAIN stats[p] \subseteq DOMAIN stats'[p]
                            /\ IsMap(stats'[p], [Dirs -> Counters])
                            /\ \A i \in DOMAIN stats[p] : stats'[p][i] = stats[p][i]
                            /\ \A i \in DOMAIN stats'[p] \ DOMAIN stats[p] : stats'[p][i] = Zero
    BY <1>1, <1>2, <1>4, <1>5 DEF IInv, TypeOK
  <1>7. QED
    BY <1>1, <1>6, MoveIInv DEF P, I

\* The map is full: the packet is given up, and counted as dropped if it belongs
\* to a window.
LEMMA DropSampleIInv ==
    ASSUME IInv, NEW c \in CPUs, DropSample(c)
    PROVE  IInv'
  <1> USE DEF hostVars, loaderVars
  <1> DEFINE P == cpu[c].p
             I == cpu[c].i
             D == cpu[c].d
             inner == [dropped[P][I] EXCEPT ![D] = @ + 1]
             outer == [dropped[P] EXCEPT ![I] = inner]
  <1>1. /\ cpu[c].pc = "insert" /\ cpu' = [cpu EXCEPT ![c] = Idle]
        /\ UNCHANGED <<hostVars, stats, loaderVars, passed, atEnd>>
        /\ dropped' = IF cpu[c].win THEN [dropped EXCEPT ![P] = outer] ELSE dropped
    BY DEF DropSample
  <1>2. P \in Procs /\ I \in Ifaces /\ D \in Dirs
    BY <1>1, Handler DEF IInv, Handlers
  <1>3. dropped \in [Procs -> [Ifaces -> [Dirs -> Nat]]]
    BY DEF IInv, TypeOK
  <1>4. inner \in [Dirs -> Nat] /\ \A d \in Dirs : inner[d] = dropped[P][I][d] + One(d = D)
    BY <1>2, <1>3 DEF One
  <1> HIDE DEF inner
  <1>5. /\ outer \in [Ifaces -> [Dirs -> Nat]]
        /\ outer[I] = inner /\ \A i \in Ifaces : i /= I => outer[i] = dropped[P][i]
    BY <1>2, <1>3, <1>4
  <1> HIDE DEF outer
  <1>6. dropped' \in [Procs -> [Ifaces -> [Dirs -> Nat]]]
    BY <1>1, <1>2, <1>3, <1>5
  <1>7. \A p \in Procs, i \in Ifaces, d \in Dirs :
           dropped'[p][i][d] = dropped[p][i][d] + One(cpu[c].win /\ p = P /\ i = I /\ d = D)
    <2> SUFFICES ASSUME NEW p \in Procs, NEW i \in Ifaces, NEW d \in Dirs
                 PROVE  dropped'[p][i][d] =
                           dropped[p][i][d] + One(cpu[c].win /\ p = P /\ i = I /\ d = D)
      OBVIOUS
    <2>1. dropped[p][i][d] \in Nat
      BY <1>3
    <2>2. CASE cpu[c].win /\ p = P
      BY <1>1, <1>2, <1>3, <1>4, <1>5, <2>1, <2>2 DEF One
    <2>3. CASE ~(cpu[c].win /\ p = P)
      BY <1>1, <1>2, <1>3, <2>1, <2>3 DEF One
    <2>4. QED
      BY <2>2, <2>3
  <1>8. /\ cpu' \in [CPUs -> Handlers \cup {Idle}]
        /\ \A e \in CPUs : e /= c => cpu'[e] = cpu[e]
        /\ cpu'[c].pc = "idle"
    BY <1>1, IdleFacts DEF IInv
  <1>9. TypeOK'
    BY <1>1, <1>6, <1>8 DEF IInv, TypeOK
  <1>10. LinkInv' /\ HandlerInv'
    BY <1>1, <1>8 DEF IInv, LinkInv, Linked, Filtered, HandlerInv
  <1>11. /\ CountersAgree'
         /\ \A p \in Procs, i \in Ifaces, d \in Dirs : Counted(p, i, d)' = Counted(p, i, d)
         /\ \A p \in Procs : \A i \in DOMAIN stats[p], d \in Dirs :
               Covers(stats'[p][i][d], stats[p][i][d])
    BY <1>1, <1>8, NoAdd
  <1>12. WindowInv'
    <2> SUFFICES ASSUME NEW p \in Procs, NEW i \in Ifaces, NEW d \in Dirs
                 PROVE  passed[p][i][d] <= Counted(p, i, d)' + dropped'[p][i][d]
                                              + Cardinality(Pending(p, i, d))'
      BY <1>1 DEF WindowInv
    <2>1. /\ Cardinality(Pending(p, i, d)) \in Nat /\ Cardinality(Pending(p, i, d))' \in Nat
          /\ Cardinality(Pending(p, i, d))' + One(cpu[c].win /\ p = P /\ i = I /\ d = D) =
                Cardinality(Pending(p, i, d))
      <3>1. ~At(cpu'[c], p, i, d, {"lookup", "insert", "packets"})
        BY <1>8 DEF At
      <3>2. At(cpu[c], p, i, d, {"lookup", "insert", "packets"}) <=> p = P /\ i = I /\ d = D
        BY <1>1 DEF At
      <3>3. QED
        BY <1>8, <3>1, <3>2, PendingCard DEF One
    <2>2. passed[p][i][d] <= Counted(p, i, d) + dropped[p][i][d] + Cardinality(Pending(p, i, d))
      BY DEF IInv, WindowInv
    <2>3. passed[p][i][d] \in Nat /\ dropped[p][i][d] \in Nat /\ Counted(p, i, d) \in Nat
      BY DEF IInv, TypeOK, IsMap, Counted, Counters
    <2>4. QED
      BY <1>7, <1>11, <2>1, <2>2, <2>3 DEF One
  <1>13. ReadInv'
    BY <1>1, <1>11, ReadKept DEF IInv, TypeOK
  <1>14. QED
    BY <1>9, <1>10, <1>11, <1>12, <1>13 DEF IInv

\* An atomic add and the move to the next place: the counters stay in agreement
\* because the handler is then counted among those past the add.
LEMMA AddIInv ==
    ASSUME IInv, NEW c \in CPUs, AddPackets(c) \/ AddBytes(c) \/ AddSize(c)
    PROVE  IInv'
  <1> USE DEF hostVars, loaderVars, history
  <1> DEFINE f == cpu[c].pc
             q == cpu'[c].pc
             P == cpu[c].p
             I == cpu[c].i
             D == cpu[c].d
  <1>1. /\ f \in {"packets", "bytes", "sizes"} /\ Add(c, f)
        /\ UNCHANGED <<hostVars, loaderVars, history>>
    BY DEF AddPackets, AddBytes, AddSize, Add
  <1>2. /\ cpu' \in [CPUs -> Handlers \cup {Idle}]
        /\ \A e \in CPUs : e /= c => cpu'[e] = cpu[e]
        /\ f = "packets" => q = "bytes"
        /\ f = "bytes" => q = "sizes"
        /\ f = "sizes" => q = "idle"
        /\ q /= "idle" => /\ cpu'[c].p = P /\ cpu'[c].i = I /\ cpu'[c].d = D
    <2>1. CASE AddPackets(c)
      <3>1. f = "packets" /\ Goto(c, "bytes")
        BY <2>1 DEF AddPackets, Add
      <3>2. QED
        BY <3>1, GotoFacts DEF IInv
    <2>2. CASE AddBytes(c)
      <3>1. f = "bytes" /\ Goto(c, "sizes")
        BY <2>2 DEF AddBytes, Add
      <3>2. QED
        BY <3>1, GotoFacts DEF IInv
    <2>3. CASE AddSize(c)
      <3>1. f = "sizes" /\ cpu' = [cpu EXCEPT ![c] = Idle]
        BY <2>3 DEF AddSize, Add
      <3>2. QED
        BY <3>1, IdleFacts DEF IInv
    <2>4. QED
      BY <2>1, <2>2, <2>3
  <1>3. P \in Procs /\ I \in Ifaces /\ D \in Dirs
    BY <1>1, Handler DEF IInv, Handlers
  <1>4. /\ DOMAIN stats' = Procs
        /\ \A p \in Procs : DOMAIN stats'[p] = DOMAIN stats[p]
                            /\ IsMap(stats'[p], [Dirs -> Counters])
        /\ I \in DOMAIN stats[P]
        /\ \A p \in Procs : \A i \in DOMAIN stats[p], d \in Dirs :
              p /= P \/ i /= I \/ d /= D => stats'[p][i][d] = stats[p][i][d]
        /\ stats[P][I][D] \in Counters /\ stats'[P][I][D] \in Counters
        /\ stats'[P][I][D].packets = stats[P][I][D].packets + One(f = "packets")
        /\ stats'[P][I][D].bytes = stats[P][I][D].bytes + One(f = "bytes")
        /\ stats'[P][I][D].sizes = stats[P][I][D].sizes + One(f = "sizes")
    BY <1>1, AddFacts DEF IInv
  <1> HIDE DEF f, q, P, I, D
  <1>5. TypeOK' /\ LinkInv'
    BY <1>1, <1>2, <1>4 DEF IInv, TypeOK, LinkInv, Linked, Filtered
  <1>6. HandlerInv'
    <2> SUFFICES ASSUME NEW e \in CPUs, cpu'[e].pc \in {"packets", "bytes", "sizes"}
                 PROVE  cpu'[e].i \in DOMAIN stats'[cpu'[e].p]
      BY DEF HandlerInv
    <2>1. CASE e = c
      BY <1>2, <1>3, <1>4, <2>1 DEF q
    <2>2. CASE e /= c
      <3>1. cpu[e] \in Handlers /\ cpu[e].i \in DOMAIN stats[cpu[e].p]
        BY <1>2, <2>2, Handler DEF IInv, HandlerInv
      <3>2. QED
        BY <1>2, <1>4, <2>2, <3>1 DEF Handlers
    <2>3. QED
      BY <2>1, <2>2
  <1>7. ASSUME NEW p \in Procs, NEW i \in DOMAIN stats[p], NEW d \in Dirs
        PROVE  LET s == stats'[p][i][d]
               IN /\ s.packets = s.sizes + Cardinality(Running(p, i, d, {"bytes", "sizes"}))'
                  /\ s.bytes = s.sizes + Cardinality(Running(p, i, d, {"sizes"}))'
    <2> DEFINE here == p = P /\ i = I /\ d = D
               both == Cardinality(Running(p, i, d, {"bytes", "sizes"}))
               last == Cardinality(Running(p, i, d, {"sizes"}))
               bothN == Cardinality(Running(p, i, d, {"bytes", "sizes"}))'
               lastN == Cardinality(Running(p, i, d, {"sizes"}))'
    <2>1. /\ stats[p][i][d].packets = stats[p][i][d].sizes + both
          /\ stats[p][i][d].bytes = stats[p][i][d].sizes + last
      BY DEF IInv, CountersAgree
    <2>2. stats[p][i][d] \in Counters
      BY DEF IInv, TypeOK, IsMap
    <2>3. /\ both \in Nat /\ bothN \in Nat /\ last \in Nat /\ lastN \in Nat
          /\ bothN + One(here /\ f \in {"bytes", "sizes"}) =
                both + One(here /\ f \in {"packets", "bytes"})
          /\ lastN + One(here /\ f = "sizes") = last + One(here /\ f = "bytes")
      <3>1. At(cpu[c], p, i, d, {"bytes", "sizes"}) <=> here /\ f \in {"bytes", "sizes"}
        BY DEF At, P, I, D, f
      <3>2. At(cpu[c], p, i, d, {"sizes"}) <=> here /\ f = "sizes"
        BY DEF At, P, I, D, f
      <3>3. At(cpu'[c], p, i, d, {"bytes", "sizes"}) <=> here /\ f \in {"packets", "bytes"}
        BY <1>1, <1>2 DEF At, q
      <3>4. At(cpu'[c], p, i, d, {"sizes"}) <=> here /\ f = "bytes"
        BY <1>1, <1>2 DEF At, q
      <3>5. /\ both \in Nat /\ bothN \in Nat
            /\ bothN + One(At(cpu[c], p, i, d, {"bytes", "sizes"})) =
                  both + One(At(cpu'[c], p, i, d, {"bytes", "sizes"}))
        BY <1>2, RunningCard
      <3>6. /\ last \in Nat /\ lastN \in Nat
            /\ lastN + One(At(cpu[c], p, i, d, {"sizes"})) = last + One(At(cpu'[c], p, i, d, {"sizes"}))
        BY <1>2, RunningCard
      <3>7. QED
        BY <3>1, <3>2, <3>3, <3>4, <3>5, <3>6 DEF One
    <2> HIDE DEF both, last, bothN, lastN
    <2>4. CASE here
      <3>1. /\ stats'[p][i][d].packets = stats[p][i][d].packets + One(f = "packets")
            /\ stats'[p][i][d].bytes = stats[p][i][d].bytes + One(f = "bytes")
            /\ stats'[p][i][d].sizes = stats[p][i][d].sizes + One(f = "sizes")
        BY <1>4, <2>4
      <3>2. /\ stats[p][i][d].packets \in Nat /\ stats[p][i][d].bytes \in Nat
            /\ stats[p][i][d].sizes \in Nat
        BY <2>2 DEF Counters
      <3>3. /\ stats'[p][i][d].packets = stats'[p][i][d].sizes + bothN
            /\ stats'[p][i][d].bytes = stats'[p][i][d].sizes + lastN
        BY <1>1, <2>1, <2>3, <2>4, <3>1, <3>2 DEF One
      <3>4. QED
        BY <3>3 DEF bothN, lastN
    <2>5. CASE ~here
      <3>1. stats'[p][i][d] = stats[p][i][d]
        BY <1>4, <2>5
      <3>2. bothN = both /\ lastN = last
        BY <2>3, <2>5 DEF One
      <3>3. QED
        BY <2>1, <3>1, <3>2 DEF bothN, lastN
    <2>6. QED
      BY <2>4, <2>5
  <1>8. CountersAgree'
    BY <1>4, <1>7 DEF CountersAgree
  <1>9. ASSUME NEW p \in Procs, NEW i \in DOMAIN stats[p], NEW d \in Dirs
        PROVE  Covers(stats'[p][i][d], stats[p][i][d])
    <2>1. stats[p][i][d] \in Counters
      BY DEF IInv, TypeOK, IsMap
    <2>2. CASE p = P /\ i = I /\ d = D
      BY <1>4, <2>1, <2>2 DEF Covers, Counters, One
    <2>3. CASE ~(p = P /\ i = I /\ d = D)
      BY <1>4, <2>1, <2>3 DEF Covers, Counters
    <2>4. QED
      BY <2>2, <2>3
  <1>10. ReadInv'
    BY <1>1, <1>4, <1>9, ReadKept
  <1>11. WindowInv'
    <2> SUFFICES ASSUME NEW p \in Procs, NEW i \in Ifaces, NEW d \in Dirs
                 PROVE  passed[p][i][d] <= Counted(p, i, d)' + dropped[p][i][d]
                                              + Cardinality(Pending(p, i, d))'
      BY <1>1 DEF WindowInv
    <2> DEFINE first == f = "packets" /\ p = P /\ i = I /\ d = D
               pend == Cardinality(Pending(p, i, d))
               pendN == Cardinality(Pending(p, i, d))'
    <2>1. /\ pend \in Nat /\ pendN \in Nat
          /\ pendN + One(first /\ cpu[c].win) = pend
      <3>1. At(cpu[c], p, i, d, {"lookup", "insert", "packets"}) <=> first
        BY <1>1 DEF At, P, I, D, f
      <3>2. ~At(cpu'[c], p, i, d, {"lookup", "insert", "packets"})
        BY <1>1, <1>2 DEF At, q
      <3>3. /\ pend \in Nat /\ pendN \in Nat
            /\ pendN + One(At(cpu[c], p, i, d, {"lookup", "insert", "packets"}) /\ cpu[c].win) =
               pend + One(At(cpu'[c], p, i, d, {"lookup", "insert", "packets"}) /\ cpu'[c].win)
        BY <1>2, PendingCard
      <3>4. QED
        BY <3>1, <3>2, <3>3 DEF One
    <2> HIDE DEF pend, pendN
    <2>2. Counted(p, i, d) \in Nat /\ Counted(p, i, d)' = Counted(p, i, d) + One(first)
      <3>1. CASE i \in DOMAIN stats[p]
        <4>1. stats[p][i][d] \in Counters
          BY <3>1 DEF IInv, TypeOK, IsMap
        <4>2. stats'[p][i][d].packets = stats[p][i][d].packets + One(first)
          <5>1. CASE p = P /\ i = I /\ d = D
            BY <1>4, <5>1 DEF One
          <5>2. CASE ~(p = P /\ i = I /\ d = D)
            BY <1>4, <3>1, <4>1, <5>2 DEF One, Counters
          <5>3. QED
            BY <5>1, <5>2
        <4>3. QED
          BY <1>4, <3>1, <4>1, <4>2 DEF Counted, Counters
      <3>2. CASE i \notin DOMAIN stats[p]
        BY <1>4, <3>2 DEF Counted, One
      <3>3. QED
        BY <3>1, <3>2
    <2>3. passed[p][i][d] <= Counted(p, i, d) + dropped[p][i][d] + pend
      BY DEF IInv, WindowInv, pend
    <2>4. passed[p][i][d] \in Nat /\ dropped[p][i][d] \in Nat
      BY DEF IInv, TypeOK
    <2>5. passed[p][i][d] <= Counted(p, i, d)' + dropped[p][i][d] + pendN
      BY <2>1, <2>2, <2>3, <2>4 DEF One
    <2>6. QED
      BY <2>5 DEF pendN
  <1>12. QED
    BY <1>5, <1>6, <1>8, <1>10, <1>11 DEF IInv

\* In a window the hooks of the targets that are there are the invocation's own,
\* so a packet on one of them runs its program.
LEMMA WindowHooks ==
    ASSUME IInv, NEW p \in Procs, NEW i \in present, NEW d \in Dirs, InWindow(p, i, d)
    PROVE  (IF d = "rx" THEN xdp[i] ELSE tc[i]) = p
  <1>1. PICK n \in DOMAIN proc[p].ifaces : i = proc[p].ifaces[n]
    BY DEF InWindow, Targets
  <1>2. (Linked(p, n) => xdp[i] = p) /\ (Filtered(p, n) => tc[i] = p)
    BY <1>1 DEF IInv, LinkInv
  <1>3. QED
    BY <1>2 DEF InWindow, Linked, Filtered, Dirs

\* A packet arrives.
LEMMA PacketIInv ==
    ASSUME IInv, NEW c \in CPUs, NEW i \in Ifaces, NEW d \in Dirs, Packet(c, i, d)
    PROVE  IInv'
  <1> USE DEF loaderVars
  <1> DEFINE prog == IF d = "rx" THEN xdp[i] ELSE tc[i]
             rec == [pc |-> "lookup", p |-> prog, i |-> i, d |-> d, win |-> InWindow(prog, i, d)]
             up(p) == [passed[p] EXCEPT ![i][d] = @ + 1]
  <1>1. /\ i \in present /\ cpu[c] = Idle /\ packets' = packets + 1
        /\ passed' = [p \in Procs |-> IF InWindow(p, i, d) THEN up(p) ELSE passed[p]]
        /\ cpu' = IF prog = None THEN cpu ELSE [cpu EXCEPT ![c] = rec]
        /\ UNCHANGED <<present, xdp, tc, stats, loaderVars, dropped, atEnd>>
    BY DEF Packet
  <1>2. prog \in Procs \cup {None}
    BY DEF IInv, TypeOK
  <1>3. \A p \in Procs : InWindow(p, i, d) => prog = p
    BY <1>1, WindowHooks
  <1>4. prog /= None => rec \in Handlers
    BY <1>2 DEF Handlers, InWindow, IInv, TypeOK
  <1>5. rec.pc = "lookup" /\ rec.p = prog /\ rec.i = i /\ rec.d = d /\ rec.win = InWindow(prog, i, d)
    OBVIOUS
  <1> HIDE DEF rec, prog
  <1>6. /\ cpu' \in [CPUs -> Handlers \cup {Idle}]
        /\ \A e \in CPUs : e /= c => cpu'[e] = cpu[e]
        /\ cpu'[c] = IF prog = None THEN Idle ELSE rec
    BY <1>1, <1>4 DEF IInv, TypeOK
  <1>7. passed \in [Procs -> [Ifaces -> [Dirs -> Nat]]]
    BY DEF IInv, TypeOK
  <1>8. ASSUME NEW p \in Procs
        PROVE  /\ up(p) \in [Ifaces -> [Dirs -> Nat]]
               /\ \A j \in Ifaces, e \in Dirs : up(p)[j][e] = passed[p][j][e] + One(j = i /\ e = d)
    <2> DEFINE f == passed[p]
               row == [f[i] EXCEPT ![d] = @ + 1]
    <2>1. f \in [Ifaces -> [Dirs -> Nat]]
      BY <1>7
    <2>2. up(p) = [f EXCEPT ![i] = row]
      OBVIOUS
    <2> HIDE DEF f
    <2>3. row \in [Dirs -> Nat] /\ \A e \in Dirs : row[e] = f[i][e] + One(e = d)
      BY <2>1 DEF One
    <2> HIDE DEF row, up
    <2>4. up(p) \in [Ifaces -> [Dirs -> Nat]]
      BY <2>1, <2>2, <2>3
    <2>5. \A j \in Ifaces, e \in Dirs : up(p)[j][e] = f[j][e] + One(j = i /\ e = d)
      BY <2>1, <2>2, <2>3 DEF One
    <2>6. QED
      BY <2>4, <2>5 DEF f
  <1> HIDE DEF up
  <1>9. TypeOK'
    <2>1. passed' \in [Procs -> [Ifaces -> [Dirs -> Nat]]]
      BY <1>1, <1>7, <1>8
    <2>2. packets' \in Nat
      BY <1>1 DEF IInv, TypeOK
    <2>3. QED
      BY <1>1, <1>6, <2>1, <2>2 DEF IInv, TypeOK
  <1>10. LinkInv' /\ HandlerInv'
    BY <1>1, <1>5, <1>6 DEF IInv, LinkInv, Linked, Filtered, HandlerInv, Idle
  <1>11. /\ CountersAgree'
         /\ \A p \in Procs, j \in Ifaces, e \in Dirs : Counted(p, j, e)' = Counted(p, j, e)
         /\ \A p \in Procs : \A j \in DOMAIN stats[p], e \in Dirs :
               Covers(stats'[p][j][e], stats[p][j][e])
    <2>1. cpu[c].pc \notin {"bytes", "sizes"} /\ cpu'[c].pc \notin {"bytes", "sizes"}
      BY <1>1, <1>5, <1>6 DEF Idle
    <2>2. QED
      BY <1>1, <1>6, <2>1, NoAdd
  <1>12. WindowInv'
    <2> SUFFICES ASSUME NEW p \in Procs, NEW j \in Ifaces, NEW e \in Dirs
                 PROVE  passed'[p][j][e] <= Counted(p, j, e)' + dropped[p][j][e]
                                               + Cardinality(Pending(p, j, e))'
      BY <1>1 DEF WindowInv
    <2> DEFINE new == InWindow(p, i, d) /\ j = i /\ e = d
               pend == Cardinality(Pending(p, j, e))
               pendN == Cardinality(Pending(p, j, e))'
    <2>1. passed'[p][j][e] = passed[p][j][e] + One(new)
      <3>1. passed[p][j][e] \in Nat
        BY <1>7
      <3>2. CASE InWindow(p, i, d)
        BY <1>1, <1>8, <3>2 DEF One
      <3>3. CASE ~InWindow(p, i, d)
        BY <1>1, <3>1, <3>3 DEF One
      <3>4. QED
        BY <3>2, <3>3
    <2>2. pend \in Nat /\ pendN \in Nat /\ pendN >= pend + One(new)
      <3>1. ~At(cpu[c], p, j, e, {"lookup", "insert", "packets"})
        BY <1>1 DEF At, Idle
      <3>2. new => At(cpu'[c], p, j, e, {"lookup", "insert", "packets"}) /\ cpu'[c].win
        <4>1. SUFFICES ASSUME new
                       PROVE  At(cpu'[c], p, j, e, {"lookup", "insert", "packets"}) /\ cpu'[c].win
          OBVIOUS
        <4>2. prog = p /\ prog /= None
          BY <1>3, <4>1, NetAssumption
        <4>3. QED
          BY <1>5, <1>6, <4>1, <4>2 DEF At
      <3>3. /\ pend \in Nat /\ pendN \in Nat
            /\ pendN + One(At(cpu[c], p, j, e, {"lookup", "insert", "packets"}) /\ cpu[c].win) =
               pend + One(At(cpu'[c], p, j, e, {"lookup", "insert", "packets"}) /\ cpu'[c].win)
        BY <1>6, PendingCard
      <3> HIDE DEF pend, pendN, new
      <3>4. QED
        BY <3>1, <3>2, <3>3 DEF One
    <2>3. passed[p][j][e] <= Counted(p, j, e) + dropped[p][j][e] + pend
      BY DEF IInv, WindowInv
    <2>4. passed[p][j][e] \in Nat /\ dropped[p][j][e] \in Nat /\ Counted(p, j, e) \in Nat
      BY DEF IInv, TypeOK, IsMap, Counted, Counters
    <2> HIDE DEF pend, pendN, new
    <2>5. passed'[p][j][e] <= Counted(p, j, e) + dropped[p][j][e] + pendN
      BY <2>1, <2>2, <2>3, <2>4 DEF One
    <2>6. QED
      BY <1>11, <2>5 DEF pendN
  <1>13. ReadInv'
    BY <1>1, <1>11, ReadKept DEF IInv, TypeOK
  <1>14. QED
    BY <1>9, <1>10, <1>11, <1>12, <1>13 DEF IInv

-----------------------------------------------------------------------------
(* The interfaces and the loaders. *)

\* What only maps, handlers and packet counts decide is kept by the steps of others.
LEMMA Quiet ==
    ASSUME IInv, UNCHANGED <<stats, cpu, passed, dropped>>
    PROVE  HandlerInv' /\ CountersAgree' /\ WindowInv'
  <1>1. HandlerInv'
    BY DEF IInv, HandlerInv
  <1>2. \A p, i, d, pcs : Running(p, i, d, pcs)' = Running(p, i, d, pcs)
    BY DEF Running
  <1>3. \A p, i, d : Pending(p, i, d)' = Pending(p, i, d)
    BY DEF Pending, Running
  <1>4. CountersAgree'
    BY <1>2 DEF IInv, CountersAgree
  <1>5. WindowInv'
    BY <1>3 DEF IInv, WindowInv, Counted
  <1>6. QED
    BY <1>1, <1>4, <1>5

\* An interface goes, and with it the hooks on it.
LEMMA VanishIInv ==
    ASSUME IInv, NEW i \in Ifaces, Vanish(i)
    PROVE  IInv'
  <1> USE DEF progVars, loaderVars, history
  <1>1. TypeOK'
    BY DEF Vanish, IInv, TypeOK
  <1>2. LinkInv'
    BY DEF Vanish, IInv, TypeOK, LinkInv, Linked, Filtered
  <1>3. ReadInv'
    BY DEF Vanish, IInv, ReadInv, ReadOf, Reported
  <1>4. QED
    BY <1>1, <1>2, <1>3, Quiet DEF Vanish, IInv

Loader == [pc : Stages, tx : BOOLEAN, ifaces : Seq(Ifaces), at : Nat]

\* A step of a loader moves that invocation only.
LEMMA StepFacts ==
    ASSUME TypeOK, NEW p \in Procs, NEW pc \in Stages, NEW at \in Nat, Step(p, pc, at)
    PROVE  /\ proc' \in [Procs -> Loader]
           /\ \A q \in Procs : q /= p => proc'[q] = proc[q]
           /\ proc'[p].pc = pc /\ proc'[p].at = at
           /\ proc'[p].tx = proc[p].tx /\ proc'[p].ifaces = proc[p].ifaces
  <1> DEFINE r == [proc[p] EXCEPT !.pc = pc, !.at = at]
  <1>1. proc \in [Procs -> Loader]
    BY DEF TypeOK, Loader
  <1>2. /\ r \in Loader /\ r.pc = pc /\ r.at = at
        /\ r.tx = proc[p].tx /\ r.ifaces = proc[p].ifaces
    BY <1>1 DEF Loader
  <1>3. proc' = [proc EXCEPT ![p] = r]
    BY DEF Step
  <1> HIDE DEF r
  <1>4. QED
    BY <1>1, <1>2, <1>3

\* A loader that changes neither a fragment nor which of its interfaces it holds,
\* and takes nothing from the others, keeps the invariant.
LEMMA LoaderIInv ==
    ASSUME IInv, NEW p \in Procs,
           proc' \in [Procs -> Loader], \A q \in Procs : q /= p => proc'[q] = proc[q],
           xdp' \in [Ifaces -> Procs \cup {None}], tc' \in [Ifaces -> Procs \cup {None}],
           \A i \in Ifaces, q \in Procs : q /= p /\ xdp[i] = q => xdp'[i] = q,
           \A i \in Ifaces, q \in Procs : q /= p /\ xdp[i] = q /\ tc[i] = q => tc'[i] = q,
           proc'[p].pc \in {"xdp", "tc"} => proc'[p].at \in DOMAIN proc'[p].ifaces,
           \A n \in DOMAIN proc'[p].ifaces :
              LET i == proc'[p].ifaces[n]
              IN i \in present => /\ Linked(p, n)' => xdp'[i] = p
                                  /\ Filtered(p, n)' => tc'[i] = p,
           /\ proc[p].pc \in {"read", "done"} => proc'[p].pc \in {"read", "done"}
           /\ proc'[p].pc = "done" => left[p] = {}
           /\ proc'[p].tx = proc[p].tx \/ proc[p].pc \notin {"read", "done"},
           UNCHANGED <<present, packets, progVars, left, head, series, history>>
    PROVE  IInv'
  <1> USE DEF progVars, history
  <1>1. TypeOK'
    BY DEF IInv, TypeOK, Loader
  <1>2. LinkInv'
    <2> SUFFICES ASSUME NEW q \in Procs
                 PROVE  /\ proc'[q].pc \in {"xdp", "tc"} => proc'[q].at \in DOMAIN proc'[q].ifaces
                        /\ \A n \in DOMAIN proc'[q].ifaces :
                              LET i == proc'[q].ifaces[n]
                              IN i \in present => /\ Linked(q, n)' => xdp'[i] = q
                                                  /\ Filtered(q, n)' => tc'[i] = q
      BY DEF LinkInv
    <2>1. CASE q = p
      BY <2>1
    <2>2. CASE q /= p
      <3>1. /\ proc'[q] = proc[q]
            /\ \A n : (Linked(q, n)' <=> Linked(q, n)) /\ (Filtered(q, n)' <=> Filtered(q, n))
        BY <2>2 DEF Linked, Filtered
      <3>2. proc[q].pc \in {"xdp", "tc"} => proc[q].at \in DOMAIN proc[q].ifaces
        BY DEF IInv, LinkInv
      <3>3. ASSUME NEW n \in DOMAIN proc[q].ifaces, proc[q].ifaces[n] \in present
            PROVE  /\ Linked(q, n) => xdp'[proc[q].ifaces[n]] = q
                   /\ Filtered(q, n) => tc'[proc[q].ifaces[n]] = q
        <4>1. proc[q].ifaces[n] \in Ifaces
          BY <3>3 DEF IInv, TypeOK
        <4>2. /\ Linked(q, n) => xdp[proc[q].ifaces[n]] = q
              /\ Filtered(q, n) => tc[proc[q].ifaces[n]] = q
          BY <3>3 DEF IInv, LinkInv
        <4>3. Filtered(q, n) => Linked(q, n)
          BY DEF Filtered, Linked
        <4>4. QED
          BY <2>2, <4>1, <4>2, <4>3
      <3>4. QED
        BY <3>1, <3>2, <3>3
    <2>3. QED
      BY <2>1, <2>2
  <1>3. ReadInv'
    <2> SUFFICES ASSUME NEW q \in Procs
                 PROVE  /\ proc'[q].pc \notin {"read", "done"} => atEnd[q] = Empty /\ head[q] = Empty
                        /\ proc'[q].pc = "done" => left[q] = {}
                        /\ \A i \in DOMAIN atEnd[q], d \in Dirs :
                              Reported(q, d, atEnd[q][i][d])' <=> Reported(q, d, atEnd[q][i][d])
      BY DEF IInv, ReadInv, ReadOf
    <2>1. proc[q].pc \notin {"read", "done"} => atEnd[q] = Empty /\ head[q] = Empty
      BY DEF IInv, ReadInv, ReadOf
    <2>2. proc[q].pc = "done" => left[q] = {}
      BY DEF IInv, ReadInv, ReadOf
    <2>3. DOMAIN Empty = {}
      BY DEF Empty
    <2>4. QED
      BY <2>1, <2>2, <2>3 DEF Reported
  <1>4. QED
    BY <1>1, <1>2, <1>3, Quiet DEF IInv

\* Leaving main takes the invocation's own links only.
LEMMA DropLinksFacts ==
    ASSUME IInv, NEW p \in Procs, DropLinks(p)
    PROVE  /\ xdp' \in [Ifaces -> Procs \cup {None}]
           /\ \A i \in Ifaces, q \in Procs : q /= p /\ xdp[i] = q => xdp'[i] = q
  BY DEF DropLinks, IInv, TypeOK

\* target_ifaces, and the attaches that fail.
LEMMA StartIInv ==
    ASSUME IInv, NEW p \in Procs,
           \/ \E args \in Args : Launch(p, args) \/ RefuseTargets(p, args)
           \/ AttachFails(p)
    PROVE  IInv'
  <1> USE DEF hostVars
  <1>1. tc \in [Ifaces -> Procs \cup {None}] /\ xdp \in [Ifaces -> Procs \cup {None}]
    BY DEF IInv, TypeOK
  <1>2. ASSUME NEW args \in Args, Launch(p, args)
        PROVE  IInv'
    <2> DEFINE r == [pc |-> "xdp", tx |-> args.tx, ifaces |-> args.ifaces, at |-> 1]
    <2>1. /\ proc[p].pc = "new" /\ proc' = [proc EXCEPT ![p] = r]
          /\ UNCHANGED <<hostVars, progVars, left, head, series, history>>
      BY <1>2 DEF Launch
    <2>2. args.ifaces \in Seq(Ifaces) /\ args.tx \in BOOLEAN /\ args.ifaces /= <<>>
      BY <1>2, NetAssumption DEF Launch
    <2>3. 1 \in DOMAIN args.ifaces /\ \A n \in DOMAIN args.ifaces : ~(n < 1)
      BY <2>2
    <2>4. r \in Loader /\ r.pc = "xdp" /\ r.ifaces = args.ifaces /\ r.at = 1
      BY <2>2 DEF Loader, Stages
    <2> HIDE DEF r
    <2>5. /\ proc' \in [Procs -> Loader] /\ proc'[p] = r
          /\ \A q \in Procs : q /= p => proc'[q] = proc[q]
      BY <2>1, <2>4 DEF IInv, TypeOK, Loader
    <2>6. \A n \in DOMAIN proc'[p].ifaces : ~Linked(p, n)' /\ ~Filtered(p, n)'
      BY <2>3, <2>4, <2>5 DEF Linked, Filtered
    <2>7. QED
      BY <1>1, <2>1, <2>3, <2>4, <2>5, <2>6, LoaderIInv
  <1>3. ASSUME NEW args \in Args, RefuseTargets(p, args)
        PROVE  IInv'
    <2>1. /\ proc[p].pc = "new" /\ Step(p, "failed", 1)
          /\ UNCHANGED <<hostVars, progVars, left, head, series, history>>
      BY <1>3 DEF RefuseTargets
    <2>2. /\ proc' \in [Procs -> Loader] /\ proc'[p].pc = "failed"
          /\ \A q \in Procs : q /= p => proc'[q] = proc[q]
      BY <2>1, StepFacts DEF IInv, Stages
    <2>3. \A n : ~Linked(p, n)' /\ ~Filtered(p, n)'
      BY <2>2 DEF Linked, Filtered
    <2>4. QED
      BY <1>1, <2>1, <2>2, <2>3, LoaderIInv
  <1>4. ASSUME AttachFails(p)
        PROVE  IInv'
    <2>1. /\ proc[p].pc \in {"xdp", "tc"} /\ Step(p, "failed", 1) /\ DropLinks(p)
          /\ UNCHANGED <<present, tc, packets, progVars, left, head, series, history>>
      BY <1>4 DEF AttachFails
    <2>2. /\ proc' \in [Procs -> Loader] /\ proc'[p].pc = "failed"
          /\ \A q \in Procs : q /= p => proc'[q] = proc[q]
      BY <2>1, StepFacts DEF IInv, Stages
    <2>3. \A n : ~Linked(p, n)' /\ ~Filtered(p, n)'
      BY <2>2 DEF Linked, Filtered
    <2>4. /\ xdp' \in [Ifaces -> Procs \cup {None}]
          /\ \A i \in Ifaces, q \in Procs : q /= p /\ xdp[i] = q => xdp'[i] = q
      BY <2>1, DropLinksFacts
    <2>5. QED
      BY <1>1, <2>1, <2>2, <2>3, <2>4, LoaderIInv
  <1>5. QED
    BY <1>2, <1>3, <1>4

\* The fragment is written and the process ends.
LEMMA WriteFragmentIInv ==
    ASSUME IInv, NEW p \in Procs, WriteFragment(p)
    PROVE  IInv'
  <1>1. /\ proc[p].pc = "read" /\ left[p] = {} /\ Step(p, "done", 1) /\ DropLinks(p)
        /\ UNCHANGED <<present, tc, packets, progVars, left, head, series, history>>
    BY DEF WriteFragment
  <1>2. /\ proc' \in [Procs -> Loader] /\ proc'[p].pc = "done"
        /\ \A q \in Procs : q /= p => proc'[q] = proc[q]
        /\ proc'[p].tx = proc[p].tx
    BY <1>1, StepFacts DEF IInv, Stages
  <1>3. \A n : ~Linked(p, n)' /\ ~Filtered(p, n)'
    BY <1>2 DEF Linked, Filtered
  <1>4. /\ xdp' \in [Ifaces -> Procs \cup {None}]
        /\ \A i \in Ifaces, q \in Procs : q /= p /\ xdp[i] = q => xdp'[i] = q
    BY <1>1, DropLinksFacts
  <1>5. tc \in [Ifaces -> Procs \cup {None}]
    BY DEF IInv, TypeOK
  <1>6. QED
    BY <1>1, <1>2, <1>3, <1>4, <1>5, LoaderIInv

\* What the loader knows of the interface it attaches to next.
LEMMA AtIface ==
    ASSUME IInv, NEW p \in Procs, proc[p].pc \in {"xdp", "tc"}
    PROVE  /\ proc[p].at \in Nat /\ proc[p].at \in DOMAIN proc[p].ifaces
           /\ DOMAIN proc[p].ifaces = 1..Len(proc[p].ifaces) /\ Len(proc[p].ifaces) \in Nat
           /\ \A n \in DOMAIN proc[p].ifaces : proc[p].ifaces[n] \in Ifaces
           /\ 1 \in DOMAIN proc[p].ifaces /\ \A n \in DOMAIN proc[p].ifaces : ~(n < 1)
           /\ ~Last(p) => proc[p].at + 1 \in DOMAIN proc[p].ifaces
           /\ Last(p) => \A n \in DOMAIN proc[p].ifaces : n = proc[p].at \/ n < proc[p].at
           /\ \A n \in DOMAIN proc[p].ifaces : n < proc[p].at + 1 => n = proc[p].at \/ n < proc[p].at
  <1>1. proc[p].at \in DOMAIN proc[p].ifaces
    BY DEF IInv, LinkInv
  <1>2. proc[p].at \in Nat /\ proc[p].ifaces \in Seq(Ifaces)
    BY DEF IInv, TypeOK
  <1>3. QED
    BY <1>1, <1>2 DEF Last

\* The XDP links are taken one after the other.
LEMMA AttachXdpIInv ==
    ASSUME IInv, NEW p \in Procs, AttachXdp(p)
    PROVE  IInv'
  <1> DEFINE I == Iface(p)
             q == IF ~Last(p) THEN "xdp" ELSE IF proc[p].tx THEN "tc" ELSE "window"
             n1 == IF Last(p) THEN 1 ELSE proc[p].at + 1
  <1>1. /\ proc[p].pc = "xdp" /\ I \in present /\ xdp[I] = None /\ xdp' = [xdp EXCEPT ![I] = p]
        /\ UNCHANGED <<present, tc, packets, progVars, left, head, series, history>>
    BY DEF AttachXdp
  <1>2. Step(p, q, n1)
    BY DEF AttachXdp
  <1>3. /\ proc' \in [Procs -> Loader] /\ proc'[p].pc = q /\ proc'[p].at = n1
        /\ \A r \in Procs : r /= p => proc'[r] = proc[r]
        /\ proc'[p].tx = proc[p].tx /\ proc'[p].ifaces = proc[p].ifaces
    <2>1. q \in Stages
      BY DEF Stages
    <2>2. n1 \in Nat
      BY <1>1, AtIface
    <2> HIDE DEF q, n1
    <2>3. QED
      BY <1>2, <2>1, <2>2, StepFacts DEF IInv
  <1>4. n1 \in DOMAIN proc[p].ifaces /\ q \in {"xdp", "tc", "window"}
    BY <1>1, AtIface
  <1>5. tc \in [Ifaces -> Procs \cup {None}] /\ xdp \in [Ifaces -> Procs \cup {None}]
    BY DEF IInv, TypeOK
  <1>6. I \in Ifaces
    BY <1>1 DEF IInv, TypeOK
  <1>7. ASSUME NEW n \in DOMAIN proc[p].ifaces, proc[p].ifaces[n] \in present
        PROVE  /\ Linked(p, n)' => xdp'[proc[p].ifaces[n]] = p
               /\ ~Filtered(p, n)'
    <2>1. ~Filtered(p, n)'
      BY <1>1, <1>3, AtIface DEF Filtered
    <2>2. Linked(p, n)' => n = proc[p].at \/ n < proc[p].at
      BY <1>1, <1>3, AtIface DEF Linked
    <2>3. n < proc[p].at => xdp[proc[p].ifaces[n]] = p
      BY <1>1, <1>7 DEF IInv, LinkInv, Linked
    <2>4. proc[p].ifaces[n] \in Ifaces
      BY <1>1, AtIface
    <2>5. QED
      BY <1>1, <1>5, <2>1, <2>2, <2>3, <2>4 DEF Iface
  <1> HIDE DEF I, q, n1
  <1>8. /\ xdp' \in [Ifaces -> Procs \cup {None}]
        /\ \A i \in Ifaces, r \in Procs : r /= p /\ xdp[i] = r => xdp'[i] = r
    BY <1>1, <1>5, <1>6, NetAssumption
  <1>9. \A n \in DOMAIN proc'[p].ifaces :
           LET i == proc'[p].ifaces[n]
           IN i \in present => /\ Linked(p, n)' => xdp'[i] = p
                               /\ Filtered(p, n)' => tc'[i] = p
    BY <1>1, <1>3, <1>7
  <1>10. QED
    BY <1>1, <1>3, <1>4, <1>5, <1>8, <1>9, LoaderIInv

\* The tc filters replace what is there, which is nobody else's who has the link.
LEMMA AttachTcIInv ==
    ASSUME IInv, NEW p \in Procs, AttachTc(p)
    PROVE  IInv'
  <1> DEFINE I == Iface(p)
             q == IF Last(p) THEN "window" ELSE "tc"
             n1 == IF Last(p) THEN 1 ELSE proc[p].at + 1
  <1>1. /\ proc[p].pc = "tc" /\ I \in present /\ tc' = [tc EXCEPT ![I] = p]
        /\ UNCHANGED <<present, xdp, packets, progVars, left, head, series, history>>
    BY DEF AttachTc
  <1>2. Step(p, q, n1)
    BY DEF AttachTc
  <1>3. /\ proc' \in [Procs -> Loader] /\ proc'[p].pc = q /\ proc'[p].at = n1
        /\ \A r \in Procs : r /= p => proc'[r] = proc[r]
        /\ proc'[p].tx = proc[p].tx /\ proc'[p].ifaces = proc[p].ifaces
    <2>1. q \in Stages
      BY DEF Stages
    <2>2. n1 \in Nat
      BY <1>1, AtIface
    <2> HIDE DEF q, n1
    <2>3. QED
      BY <1>2, <2>1, <2>2, StepFacts DEF IInv
  <1>4. n1 \in DOMAIN proc[p].ifaces /\ q \in {"xdp", "tc", "window"}
    BY <1>1, AtIface
  <1>5. tc \in [Ifaces -> Procs \cup {None}] /\ xdp \in [Ifaces -> Procs \cup {None}]
    BY DEF IInv, TypeOK
  <1>6. I \in Ifaces /\ xdp[I] = p
    BY <1>1, AtIface DEF IInv, TypeOK, LinkInv, Linked, Iface
  <1>7. ASSUME NEW n \in DOMAIN proc[p].ifaces, proc[p].ifaces[n] \in present
        PROVE  /\ xdp[proc[p].ifaces[n]] = p
               /\ Filtered(p, n)' => tc'[proc[p].ifaces[n]] = p
    <2>1. xdp[proc[p].ifaces[n]] = p
      BY <1>1, <1>7 DEF IInv, LinkInv, Linked
    <2>2. Filtered(p, n)' => n = proc[p].at \/ n < proc[p].at
      BY <1>1, <1>3, AtIface DEF Filtered
    <2>3. n < proc[p].at => tc[proc[p].ifaces[n]] = p
      BY <1>1, <1>7 DEF IInv, LinkInv, Filtered
    <2>4. proc[p].ifaces[n] \in Ifaces
      BY <1>1, AtIface
    <2>5. QED
      BY <1>1, <1>5, <2>1, <2>2, <2>3, <2>4 DEF Iface
  <1> HIDE DEF I, q, n1
  <1>8. /\ tc' \in [Ifaces -> Procs \cup {None}]
        /\ \A i \in Ifaces, r \in Procs : r /= p /\ xdp[i] = r /\ tc[i] = r => tc'[i] = r
    BY <1>1, <1>5, <1>6
  <1>9. \A n \in DOMAIN proc'[p].ifaces :
           LET i == proc'[p].ifaces[n]
           IN i \in present => /\ Linked(p, n)' => xdp'[i] = p
                               /\ Filtered(p, n)' => tc'[i] = p
    BY <1>1, <1>3, <1>7
  <1>10. QED
    BY <1>1, <1>3, <1>4, <1>5, <1>8, <1>9, LoaderIInv

\* A readout is not disturbed by the loader of another invocation.
LEMMA ReadOfOthers ==
    ASSUME IInv, NEW p \in Procs, ReadOf(p)', UNCHANGED stats,
           \A q \in Procs : q /= p =>
              /\ proc'[q] = proc[q] /\ left'[q] = left[q] /\ head'[q] = head[q]
              /\ series'[q] = series[q] /\ atEnd'[q] = atEnd[q]
    PROVE  ReadInv'
  <1> SUFFICES ASSUME NEW q \in Procs, q /= p
               PROVE  ReadOf(q)'
    BY DEF ReadInv
  <1>1. ReadOf(q)
    BY DEF IInv, ReadInv
  <1>2. QED
    BY <1>1 DEF ReadOf, Reported

\* The window closes with nothing read yet.
LEMMA EndWindowIInv ==
    ASSUME IInv, NEW p \in Procs, EndWindow(p)
    PROVE  IInv'
  <1> USE DEF hostVars, progVars
  <1>1. /\ proc[p].pc = "window" /\ Step(p, "read", 1)
        /\ left' = [left EXCEPT ![p] = DOMAIN stats[p]]
        /\ atEnd' = [atEnd EXCEPT ![p] = stats[p]]
        /\ UNCHANGED <<hostVars, progVars, head, series, passed, dropped>>
    BY DEF EndWindow
  <1>2. /\ proc' \in [Procs -> Loader] /\ proc'[p].pc = "read"
        /\ \A q \in Procs : q /= p => proc'[q] = proc[q]
        /\ proc'[p].tx = proc[p].tx
    BY <1>1, StepFacts DEF IInv, Stages
  <1>3. IsMap(stats[p], [Dirs -> Counters])
    BY DEF IInv, TypeOK
  <1>4. left \in [Procs -> SUBSET Ifaces] /\ DOMAIN atEnd = Procs
    BY DEF IInv, TypeOK
  <1>5. /\ left' \in [Procs -> SUBSET Ifaces] /\ left'[p] = DOMAIN stats[p]
        /\ DOMAIN atEnd' = Procs /\ atEnd'[p] = stats[p]
        /\ \A q \in Procs : q /= p => left'[q] = left[q] /\ atEnd'[q] = atEnd[q]
    BY <1>1, <1>3, <1>4 DEF IsMap
  <1>6. TypeOK'
    <2>1. \A q \in Procs : IsMap(atEnd'[q], [Dirs -> Counters])
      BY <1>3, <1>5 DEF IInv, TypeOK
    <2>2. QED
      BY <1>1, <1>2, <1>5, <2>1 DEF IInv, TypeOK, Loader
  <1>7. LinkInv'
    <2>1. \A n : ~Linked(p, n)' /\ ~Filtered(p, n)'
      BY <1>2 DEF Linked, Filtered
    <2>2. QED
      BY <1>1, <1>2, <2>1 DEF IInv, LinkInv, Linked, Filtered
  <1>8. ReadOf(p)'
    <2>1. head'[p] = Empty /\ DOMAIN Empty = {}
      BY <1>1 DEF IInv, ReadInv, ReadOf, Empty
    <2>2. \A i \in DOMAIN stats[p], d \in Dirs : Covers(stats[p][i][d], stats[p][i][d])
      BY <1>3 DEF IsMap, Covers, Counters
    <2>3. QED
      BY <1>1, <1>2, <1>5, <2>1, <2>2 DEF ReadOf
  <1>9. ReadInv'
    BY <1>1, <1>2, <1>5, <1>8, ReadOfOthers
  <1>10. QED
    BY <1>1, <1>6, <1>7, <1>9, Quiet DEF IInv

\* The first half of a copy: no more than one handler per CPU is between the
\* packet counter and the size histogram of the entry.
LEMMA ReadHeadIInv ==
    ASSUME IInv, NEW p \in Procs, NEW i \in Ifaces, ReadHead(p, i)
    PROVE  IInv'
  <1> USE DEF hostVars, progVars, history
  <1> DEFINE m == Put(head[p], i, stats[p][i])
  <1>1. /\ proc[p].pc = "read" /\ i \in left[p] /\ head[p] = Empty
        /\ head' = [head EXCEPT ![p] = m]
        /\ UNCHANGED <<hostVars, progVars, proc, left, series, history>>
    BY DEF ReadHead
  <1>2. i \in DOMAIN atEnd[p] /\ i \in DOMAIN stats[p]
    BY <1>1 DEF IInv, ReadInv, ReadOf
  <1>3. /\ stats[p][i] \in [Dirs -> Counters]
        /\ DOMAIN Empty = {}
    BY <1>2 DEF IInv, TypeOK, IsMap, Empty
  <1>4. DOMAIN m = {i} /\ m[i] = stats[p][i] /\ IsMap(m, [Dirs -> Counters])
    BY <1>1, <1>3 DEF Put, IsMap
  <1> HIDE DEF m
  <1>5. DOMAIN head' = Procs /\ head'[p] = m /\ \A q \in Procs : q /= p => head'[q] = head[q]
    BY <1>1 DEF IInv, TypeOK
  <1>6. TypeOK'
    BY <1>1, <1>4, <1>5 DEF IInv, TypeOK
  <1>7. LinkInv'
    BY <1>1 DEF IInv, LinkInv, Linked, Filtered
  <1>8. ReadOf(p)'
    <2>1. ASSUME NEW d \in Dirs
          PROVE  stats[p][i][d].packets <= stats[p][i][d].sizes + Cardinality(CPUs)
      <3> DEFINE R == Running(p, i, d, {"bytes", "sizes"})
      <3>1. stats[p][i][d].packets = stats[p][i][d].sizes + Cardinality(R)
        BY <1>2 DEF IInv, CountersAgree
      <3>2. R \subseteq CPUs
        BY DEF Running
      <3> HIDE DEF R
      <3>3. Cardinality(R) <= Cardinality(CPUs) /\ IsFiniteSet(R)
        BY <3>2, FS_Subset, NetAssumption
      <3>4. Cardinality(R) \in Nat /\ Cardinality(CPUs) \in Nat
        BY <3>3, FS_CardinalityType, NetAssumption
      <3>5. stats[p][i][d].sizes \in Nat
        BY <1>3 DEF Counters
      <3>6. QED
        BY <3>1, <3>3, <3>4, <3>5
    <2>2. ReadOf(p)
      BY DEF IInv, ReadInv
    <2>3. QED
      BY <1>1, <1>2, <1>4, <1>5, <2>1, <2>2 DEF ReadOf, Reported
  <1>9. ReadInv'
    BY <1>1, <1>5, <1>8, ReadOfOthers
  <1>10. QED
    BY <1>1, <1>6, <1>7, <1>9, Quiet DEF IInv

\* The second half, and push_dir.
LEMMA ReadSizesIInv ==
    ASSUME IInv, NEW p \in Procs, NEW i \in Ifaces, ReadSizes(p, i)
    PROVE  IInv'
  <1> USE DEF hostVars, progVars, history
  <1> DEFINE copy == [d \in Dirs |-> [head[p][i][d] EXCEPT !.sizes = stats[p][i][d].sizes]]
             new == [d \in {e \in Dirs : Reported(p, e, copy[e])} |-> copy[d]]
             m == Put(series[p], i, new)
  <1>1. /\ proc[p].pc = "read" /\ i \in left[p] /\ i \in DOMAIN head[p]
        /\ left' = [left EXCEPT ![p] = @ \ {i}]
        /\ series' = [series EXCEPT ![p] = m]
        /\ head' = [head EXCEPT ![p] = Empty]
        /\ UNCHANGED <<hostVars, progVars, proc, history>>
    BY DEF ReadSizes
  <1>2. ReadOf(p) /\ i \in DOMAIN atEnd[p] /\ i \in DOMAIN stats[p]
    BY <1>1 DEF IInv, ReadInv, ReadOf
  <1>3. /\ head[p][i] \in [Dirs -> Counters] /\ stats[p][i] \in [Dirs -> Counters]
        /\ atEnd[p][i] \in [Dirs -> Counters]
    BY <1>1, <1>2 DEF IInv, TypeOK, IsMap
  <1>4. ASSUME NEW d \in Dirs
        PROVE  /\ copy[d].packets = head[p][i][d].packets /\ copy[d].bytes = head[p][i][d].bytes
               /\ copy[d].sizes = stats[p][i][d].sizes
    BY <1>3 DEF Counters
  <1> HIDE DEF copy
  <1>5. ASSUME NEW d \in Dirs, Reported(p, d, atEnd[p][i][d])
        PROVE  /\ d \in DOMAIN new /\ Covers(new[d], atEnd[p][i][d])
               /\ new[d].packets <= new[d].sizes + Cardinality(CPUs)
    <2>1. /\ Covers(stats[p][i][d], atEnd[p][i][d]) /\ Covers(head[p][i][d], atEnd[p][i][d])
          /\ head[p][i][d].packets <= stats[p][i][d].sizes + Cardinality(CPUs)
      BY <1>1, <1>2, <1>5 DEF ReadOf
    <2>2. Covers(copy[d], atEnd[p][i][d]) /\ copy[d].packets <= copy[d].sizes + Cardinality(CPUs)
      BY <1>4, <1>5, <2>1 DEF Covers
    <2>3. copy[d].packets > 0
      <3>1. atEnd[p][i][d].packets > 0 /\ atEnd[p][i][d].packets \in Nat /\ head[p][i][d].packets \in Nat
        BY <1>3, <1>5 DEF Reported, Counters
      <3>2. copy[d].packets >= atEnd[p][i][d].packets /\ copy[d].packets \in Nat
        BY <1>4, <1>5, <2>2, <3>1 DEF Covers
      <3>3. QED
        BY <3>1, <3>2
    <2>4. Reported(p, d, copy[d])
      BY <1>5, <2>3 DEF Reported
    <2>5. QED
      BY <1>5, <2>2, <2>4
  <1> HIDE DEF new
  <1>6. /\ i \in DOMAIN m /\ m[i] = new
        /\ \A j \in DOMAIN series[p] : j /= i => j \in DOMAIN m /\ m[j] = series[p][j]
    BY DEF Put
  <1> HIDE DEF m
  <1>7. /\ IsMap(Empty, [Dirs -> Counters]) /\ DOMAIN Empty = {}
    BY DEF IsMap, Empty
  <1>8. left \in [Procs -> SUBSET Ifaces] /\ DOMAIN series = Procs /\ DOMAIN head = Procs
    BY DEF IInv, TypeOK
  <1>9. /\ left' \in [Procs -> SUBSET Ifaces] /\ left'[p] = left[p] \ {i}
        /\ DOMAIN series' = Procs /\ series'[p] = m /\ DOMAIN head' = Procs /\ head'[p] = Empty
        /\ \A q \in Procs : q /= p =>
              left'[q] = left[q] /\ series'[q] = series[q] /\ head'[q] = head[q]
    BY <1>1, <1>8
  <1>10. TypeOK'
    BY <1>1, <1>7, <1>9 DEF IInv, TypeOK
  <1>11. LinkInv'
    BY <1>1 DEF IInv, LinkInv, Linked, Filtered
  <1>12. ReadOf(p)'
    BY <1>1, <1>2, <1>5, <1>6, <1>7, <1>9 DEF ReadOf, Reported
  <1>13. ReadInv'
    BY <1>1, <1>9, <1>12, ReadOfOthers
  <1>14. QED
    BY <1>1, <1>10, <1>11, <1>13, Quiet DEF IInv
-----------------------------------------------------------------------------
(* The invariant. *)

\* No gadget has been started and every CPU is idle.
LEMMA InitIInv == Init => IInv
  <1> SUFFICES ASSUME Init PROVE IInv
    OBVIOUS
  <1>1. IsMap(Empty, [Dirs -> Counters]) /\ DOMAIN Empty = {}
    BY DEF IsMap, Empty
  <1>2. NoTargets \in [pc : Stages, tx : BOOLEAN, ifaces : Seq(Ifaces), at : Nat]
    BY DEF NoTargets, Stages
  <1>3. TypeOK
    BY <1>1, <1>2 DEF Init, TypeOK
  <1>4. LinkInv
    BY DEF Init, LinkInv, NoTargets
  <1>5. HandlerInv
    BY DEF Init, HandlerInv, Idle
  <1>6. CountersAgree
    BY <1>1 DEF Init, CountersAgree
  <1>7. WindowInv
    <2>1. ASSUME NEW p \in Procs, NEW i \in Ifaces, NEW d \in Dirs
          PROVE  Cardinality(Pending(p, i, d)) = 0
      <3>1. Pending(p, i, d) = {}
        BY DEF Init, Pending, Running, Idle
      <3>2. QED
        BY <3>1, FS_EmptySet
    <2>2. ASSUME NEW p \in Procs, NEW i \in Ifaces, NEW d \in Dirs
          PROVE  passed[p][i][d] = 0 /\ dropped[p][i][d] = 0 /\ Counted(p, i, d) = 0
      BY <1>1 DEF Init, Counted
    <2>3. QED
      BY <2>1, <2>2 DEF WindowInv
  <1>8. ReadInv
    BY <1>1 DEF Init, ReadInv, ReadOf, NoTargets
  <1>9. QED
    BY <1>3, <1>4, <1>5, <1>6, <1>7, <1>8 DEF IInv

\* Every step of host, handler or loader keeps the invariant.
LEMMA NextIInv ==
    ASSUME IInv, [Next]_vars
    PROVE  IInv'
  <1>1. CASE \E i \in Ifaces : Vanish(i)
    BY <1>1, VanishIInv
  <1>2. ASSUME NEW c \in CPUs, ProgNext(c)
        PROVE  IInv'
    BY <1>2, LookupIInv, InsertIInv, DropSampleIInv, AddIInv DEF ProgNext
  <1>3. ASSUME NEW c \in CPUs, \E i \in Ifaces, d \in Dirs : Packet(c, i, d)
        PROVE  IInv'
    BY <1>3, PacketIInv
  <1>4. ASSUME NEW p \in Procs, LoaderNext(p)
        PROVE  IInv'
    BY <1>4, StartIInv, AttachXdpIInv, AttachTcIInv, EndWindowIInv, WriteFragmentIInv,
       ReadHeadIInv, ReadSizesIInv DEF LoaderNext
  <1>5. CASE UNCHANGED vars
    <2> USE <1>5 DEF vars, hostVars, progVars, loaderVars, history
    <2>1. TypeOK'
      BY DEF IInv, TypeOK
    <2>2. LinkInv'
      BY DEF IInv, LinkInv, Linked, Filtered
    <2>3. ReadInv'
      BY DEF IInv, ReadInv, ReadOf, Reported
    <2>4. QED
      BY <2>1, <2>2, <2>3, Quiet DEF IInv
  <1>6. QED
    BY <1>1, <1>2, <1>3, <1>4, <1>5 DEF Next

\* The inductive invariant of the net gadget holds throughout.
THEOREM Invariance == Spec => []IInv
  BY InitIInv, NextIInv, PTL DEF Spec

\* The three counters of an entry differ by exactly the handlers between the adds,
\* however many CPUs meet the same interface at once (stat_for, tap_rx, tap_tx).
THEOREM CountersAlwaysAgree == Spec => []CountersAgree
  <1>1. IInv => CountersAgree
    BY DEF IInv
  <1>2. QED
    BY <1>1, Invariance, PTL

\* Whatever invocations overlap, a packet on a target in an invocation's window is
\* counted by that invocation, in one of its handlers or dropped at a full map.
THEOREM WindowIsCounted == Spec => []WindowPacketsCounted
  <1>1. ASSUME IInv
        PROVE  WindowPacketsCounted
    <2> SUFFICES ASSUME NEW p \in Procs, NEW i \in Ifaces, NEW d \in Dirs
                 PROVE  passed[p][i][d] <= Counted(p, i, d) + dropped[p][i][d]
                           + Cardinality(Running(p, i, d, {"lookup", "insert", "packets"}))
      BY DEF WindowPacketsCounted
    <2> DEFINE R == Running(p, i, d, {"lookup", "insert", "packets"})
               W == Pending(p, i, d)
    <2>1. passed[p][i][d] <= Counted(p, i, d) + dropped[p][i][d] + Cardinality(W)
      BY <1>1 DEF IInv, WindowInv
    <2>2. W \subseteq R /\ R \subseteq CPUs
      BY DEF Pending, Running
    <2>3. passed[p][i][d] \in Nat /\ dropped[p][i][d] \in Nat /\ Counted(p, i, d) \in Nat
      BY <1>1 DEF IInv, TypeOK, IsMap, Counted, Counters
    <2> HIDE DEF R, W
    <2>4. IsFiniteSet(R)
      BY <2>2, FS_Subset, NetAssumption
    <2>5. IsFiniteSet(W) /\ Cardinality(W) <= Cardinality(R)
      BY <2>2, <2>4, FS_Subset
    <2>6. Cardinality(W) \in Nat /\ Cardinality(R) \in Nat
      BY <2>4, <2>5, FS_CardinalityType
    <2>7. passed[p][i][d] <= Counted(p, i, d) + dropped[p][i][d] + Cardinality(R)
      BY <2>1, <2>3, <2>5, <2>6
    <2>8. QED
      BY <2>7 DEF R
  <1>2. QED
    BY <1>1, Invariance, PTL

\* A written fragment has everything counted when its window closed, and its size
\* histogram lacks at most one packet per CPU (main's loop over the map).
THEOREM FragmentIsComplete == Spec => []FragmentCovers
  <1>1. IInv => FragmentCovers
    BY DEF IInv, ReadInv, ReadOf, FragmentCovers
  <1>2. QED
    BY <1>1, Invariance, PTL
=============================================================================
