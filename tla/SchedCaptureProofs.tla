-------------------------- MODULE SchedCaptureProofs --------------------------
(* Proofs about the control-plane gadget (module SchedCapture), for any number *)
(* of CPUs, tasks and cgroups, any allow-list and any capacity of its maps.    *)
EXTENDS SchedCapture, FiniteSetTheorems, TLAPS

Pcs == {"idle", "slice", "insert", "wait", "new", "count", "clear", "set"}

(* A step of on_switch between two of its map operations. *)

\* The CPU goes on to another step of its switch.
Moves(c, p) ==
    /\ pc[c] /= "idle" /\ p \in Pcs \ {"idle"}
    /\ p \in {"slice", "insert"} => pc[c] \in {"slice", "insert"}
    /\ pc' = [pc EXCEPT ![c] = p]
    /\ UNCHANGED <<clock, state, running, oncpu_cur, now, next, since, ran, woken, stray>>

\* A CPU is in on_switch only once that is attached.
LEMMA PastAttach ==
    ASSUME IInv, NEW c \in Cpus, pc[c] /= "idle"
    PROVE  loader \notin Attaching
  BY DEF IInv, LoaderInv

\* Where tasks are and which slices are tracked does not depend on the step.
LEMMA MovesPlace ==
    ASSUME IInv, NEW c \in Cpus, NEW p, Moves(c, p)
    PROVE  /\ pc' \in [Cpus -> Pcs] /\ pc'[c] = p
           /\ \A d \in Cpus : d /= c => pc'[d] = pc[d]
           /\ PlaceInv' /\ SliceInv'
  <1>1. /\ pc \in [Cpus -> Pcs] /\ pc'[c] = p /\ pc' \in [Cpus -> Pcs]
        /\ \A d \in Cpus : d /= c => pc'[d] = pc[d]
    BY DEF IInv, TypeOK, Moves, Pcs
  <1>2. PlaceInv'
    BY <1>1 DEF IInv, PlaceInv, Moves
  <1>3. SliceInv'
    BY <1>1 DEF IInv, SliceInv, Moves, allowed_cg
  <1>4. QED
    BY <1>1, <1>2, <1>3

\* After the slice was dealt with, the accounts stay as they are.
LEMMA MovesAccounts ==
    ASSUME IInv, NEW c \in Cpus, NEW p, Moves(c, p),
           pc[c] \notin {"slice", "insert"}, UNCHANGED <<oncpu_ns, charged, lost>>
    PROVE  AccountInv' /\ LossInv'
  <1>1. /\ \A g \in Allowed : Charging(g)' = Charging(g) /\ Inserting(g)' = Inserting(g)
    BY MovesPlace DEF Charging, Inserting, Moves
  <1>2. /\ \A d \in Cpus : Pending(d)' = Pending(d)
        /\ \A g \in Allowed : Accumulated(g)' = Accumulated(g)
    BY DEF Pending, Instants, Accumulated, Moves
  <1>3. AccountInv'
    <2> SUFFICES ASSUME NEW g \in Allowed
                 PROVE  /\ IsFiniteSet(ran'[g])
                        /\ \A q \in ran'[g] : q[2] < since'[q[1]]
                        /\ charged'[g] \subseteq ran'[g]
                        /\ Accumulated(g)' = Cardinality(charged'[g])
                        /\ \A d \in Charging(g)' : Pending(d)' \subseteq ran'[g] \ charged'[g]
                        /\ lost'[g] = 0 =>
                              \A q \in ran'[g] \ charged'[g] :
                                  \E d \in Charging(g)' : q \in Pending(d)'
      BY DEF AccountInv
    <2>1. ran' = ran /\ since' = since /\ charged' = charged /\ lost' = lost
      BY DEF Moves
    <2>2. \A d \in Charging(g) : d \in Cpus
      BY DEF Charging
    <2>3. QED
      BY <1>1, <1>2, <2>1, <2>2 DEF IInv, AccountInv
  <1>4. LossInv'
    BY <1>1 DEF IInv, LossInv, Full
  <1>5. QED
    BY <1>3, <1>4

\* The task coming on has no wakeup to answer.
LEMMA NoWaitIInv ==
    ASSUME IInv, NEW c \in Cpus, NoWait(c), UNCHANGED loaderVars
    PROVE  IInv'
  <1>1. Moves(c, "set") /\ UNCHANGED <<wakeup_ts, runq, oncpu_ns, charged, lost>>
    BY DEF NoWait, Moves, Pcs
  <1>2. UNCHANGED <<loader, start, seen, fragment, closed>>
    BY DEF loaderVars
  <1>3. TypeOK'
    BY <1>1, <1>2, MovesPlace DEF IInv, TypeOK, Moves, Pcs
  <1>4. WakeInv'
    BY <1>1, MovesPlace DEF IInv, WakeInv, allowed_cg, Moves, NoWait
  <1>5. WakeupDatesOneWait'
    BY <1>1 DEF IInv, WakeupDatesOneWait, allowed_cg, Moves
  <1>6. AccountInv' /\ LossInv'
    BY <1>1, MovesAccounts DEF NoWait
  <1>7. LoaderInv'
    BY <1>1, <1>2, MovesPlace DEF IInv, LoaderInv, allowed_cg, Moves
  <1>8. QED
    BY <1>1, <1>3, <1>4, <1>5, <1>6, <1>7, MovesPlace DEF IInv

\* It has one: the histogram of its cgroup is there, or is about to be made.
LEMMA LookupRunqIInv ==
    ASSUME IInv, NEW c \in Cpus, LookupRunq(c), UNCHANGED loaderVars
    PROVE  IInv'
  <1> DEFINE p == IF CgroupOf[next[c]] \in DOMAIN runq THEN "count" ELSE "new"
  <1>1. Moves(c, p) /\ UNCHANGED <<wakeup_ts, runq, oncpu_ns, charged, lost>>
    BY DEF LookupRunq, Moves, Pcs
  <1>2. UNCHANGED <<loader, start, seen, fragment, closed>>
    BY DEF loaderVars
  <1>3. /\ pc' \in [Cpus -> Pcs] /\ pc'[c] = p
        /\ \A d \in Cpus : d /= c => pc'[d] = pc[d]
        /\ PlaceInv' /\ SliceInv'
    BY <1>1, MovesPlace
  <1>4. TypeOK'
    BY <1>1, <1>2, <1>3 DEF IInv, TypeOK, Moves, Pcs
  <1>5. WakeInv'
    BY <1>1, <1>3 DEF IInv, WakeInv, allowed_cg, Moves
  <1>6. WakeupDatesOneWait'
    BY <1>1 DEF IInv, WakeupDatesOneWait, allowed_cg, Moves
  <1>7. AccountInv' /\ LossInv'
    BY <1>1, MovesAccounts DEF LookupRunq
  <1>8. LoaderInv'
    BY <1>1, <1>2, <1>3 DEF IInv, LoaderInv, allowed_cg, Moves, LookupRunq
  <1>9. QED
    BY <1>3, <1>4, <1>5, <1>6, <1>7, <1>8 DEF IInv

\* A run-queue histogram is only ever added or counted in.
LEMMA RunqIInv ==
    ASSUME IInv, NEW c \in Cpus, InsertRunq(c) \/ CountWait(c), UNCHANGED loaderVars
    PROVE  IInv'
  <1> DEFINE g == CgroupOf[next[c]]
             p == IF pc[c] = "new" /\ g \in DOMAIN runq' THEN "count" ELSE "clear"
  <1>1. Moves(c, p) /\ UNCHANGED <<wakeup_ts, oncpu_ns, charged, lost>>
    BY DEF InsertRunq, CountWait, Moves, Pcs
  <1>2. /\ UNCHANGED <<loader, start, seen, fragment, closed>>
        /\ pc[c] \in {"new", "count"}
    BY DEF loaderVars, InsertRunq, CountWait
  <1>3. g \in Allowed /\ (pc[c] = "count" => g \in DOMAIN runq)
    BY <1>2 DEF IInv, LoaderInv, allowed_cg
  <1>4. /\ DOMAIN runq \subseteq DOMAIN runq' /\ DOMAIN runq' \subseteq Allowed
        /\ runq' \in [DOMAIN runq' -> Nat]
        /\ \A h \in DOMAIN runq : runq'[h] >= runq[h]
    <2>1. runq \in [DOMAIN runq -> Nat] /\ DOMAIN runq \subseteq Allowed
      BY DEF IInv, TypeOK
    <2> HIDE DEF g
    <2>2. CASE runq' = runq
      BY <2>1, <2>2
    <2>3. CASE g \notin DOMAIN runq /\ runq' = Put(runq, g, 0)
      BY <1>3, <2>1, <2>3 DEF Put
    <2>4. CASE pc[c] = "count" /\ runq' = [runq EXCEPT ![g] = @ + 1]
      BY <1>3, <2>1, <2>4
    <2>5. QED
      BY <2>2, <2>3, <2>4 DEF g, InsertRunq, CountWait
  <1>5. /\ pc' \in [Cpus -> Pcs] /\ pc'[c] = p
        /\ \A d \in Cpus : d /= c => pc'[d] = pc[d]
        /\ PlaceInv' /\ SliceInv'
    BY <1>1, MovesPlace
  <1>6. TypeOK'
    BY <1>1, <1>2, <1>4, <1>5 DEF IInv, TypeOK, Moves, Pcs
  <1>7. WakeInv'
    BY <1>1, <1>5 DEF IInv, WakeInv, allowed_cg, Moves
  <1>8. WakeupDatesOneWait'
    BY <1>1 DEF IInv, WakeupDatesOneWait, allowed_cg, Moves
  <1>9. AccountInv' /\ LossInv'
    BY <1>1, <1>2, MovesAccounts
  <1>10. LoaderInv'
    <2>1. next' = next
      BY <1>1 DEF Moves
    <2>2. \A h \in fragment'.runq : h \in DOMAIN runq' /\ runq'[h] > 0
      <3> SUFFICES ASSUME NEW h \in fragment.runq PROVE h \in DOMAIN runq' /\ runq'[h] > 0
        BY <1>2
      <3>1. h \in DOMAIN runq /\ runq[h] > 0 /\ runq[h] \in Nat
        BY DEF IInv, TypeOK, LoaderInv
      <3>2. QED
        BY <1>4, <3>1
    <2>3. \A d \in Cpus : /\ pc'[d] \in {"new", "count"} => allowed_cg(next'[d])
                          /\ pc'[d] = "count" => CgroupOf[next'[d]] \in DOMAIN runq'
      BY <1>2, <1>3, <1>4, <1>5, <2>1 DEF IInv, LoaderInv, allowed_cg
    <2>4. QED
      BY <1>1, <1>2, <2>2, <2>3 DEF IInv, LoaderInv, allowed_cg
  <1>11. QED
    BY <1>5, <1>6, <1>7, <1>8, <1>9, <1>10 DEF IInv

\* The wakeup that was answered goes; its task is on the CPU.
LEMMA ClearWakeupIInv ==
    ASSUME IInv, NEW c \in Cpus, ClearWakeup(c), UNCHANGED loaderVars
    PROVE  IInv'
  <1>1. /\ Moves(c, "set") /\ UNCHANGED <<runq, oncpu_ns, charged, lost>>
        /\ wakeup_ts' = wakeup_ts \ {next[c]} /\ pc[c] = "clear"
    BY DEF ClearWakeup, Moves, Pcs
  <1>2. UNCHANGED <<loader, start, seen, fragment, closed>>
    BY DEF loaderVars
  <1>3. /\ pc' \in [Cpus -> Pcs] /\ pc'[c] = "set"
        /\ \A d \in Cpus : d /= c => pc'[d] = pc[d]
        /\ PlaceInv' /\ SliceInv'
    BY <1>1, MovesPlace
  <1>4. TypeOK'
    BY <1>1, <1>2, <1>3 DEF IInv, TypeOK, Moves, Pcs
  <1>5. WakeInv'
    BY <1>1, <1>3 DEF IInv, WakeInv, allowed_cg, Moves
  <1>6. WakeupDatesOneWait'
    BY <1>1, SchedAssumption
       DEF IInv, TypeOK, PlaceInv, WakeupDatesOneWait, allowed_cg, Moves
  <1>7. AccountInv' /\ LossInv'
    BY <1>1, MovesAccounts
  <1>8. LoaderInv'
    BY <1>1, <1>2, <1>3 DEF IInv, LoaderInv, allowed_cg, Moves
  <1>9. QED
    BY <1>3, <1>4, <1>5, <1>6, <1>7, <1>8 DEF IInv

-----------------------------------------------------------------------------
(* The slice that ended. *)

\* A slice has as many instants as it is long.
LEMMA SliceLength ==
    ASSUME NEW c, NEW from \in Nat, NEW to \in Nat, from < to
    PROVE  /\ IsFiniteSet(Instants(c, from, to))
           /\ Cardinality(Instants(c, from, to)) = to - from
  <1>1. IsFiniteSet({c}) /\ Cardinality({c}) = 1
    BY FS_Singleton
  <1>2. from \in Int /\ to - 1 \in Int /\ ~(from > to - 1) /\ to - 1 - from + 1 = to - from
    OBVIOUS
  <1>3. IsFiniteSet(from .. to - 1) /\ Cardinality(from .. to - 1) = to - from
    BY <1>2, FS_Interval
  <1>4. Cardinality({c} \X (from .. to - 1)) = 1 * (to - from)
    <2>1. Cardinality({c} \X (from .. to - 1)) = Cardinality({c}) * Cardinality(from .. to - 1)
      BY <1>1, <1>3, FS_Product, Zenon
    <2>2. QED
      BY <1>1, <1>3, <2>1, Zenon
  <1>5. IsFiniteSet({c} \X (from .. to - 1))
    BY <1>1, <1>3, FS_Product
  <1>6. 1 * (to - from) = to - from
    OBVIOUS
  <1>7. QED
    BY <1>4, <1>5, <1>6 DEF Instants

\* What the record of a CPU that charges a slice holds.
LEMMA ChargingFacts ==
    ASSUME IInv, NEW c \in Cpus, pc[c] \in {"slice", "insert"}
    PROVE  /\ oncpu_cur[c].cgroup \in Allowed
           /\ oncpu_cur[c].ts \in Nat /\ now[c] \in Nat /\ oncpu_cur[c].ts < now[c]
           /\ Slice(c) \in Nat
           /\ c \in Charging(oncpu_cur[c].cgroup)
           /\ IsFiniteSet(Pending(c)) /\ Cardinality(Pending(c)) = Slice(c)
  <1>1. /\ oncpu_cur[c].cgroup \in Allowed
        /\ oncpu_cur[c].ts \in Nat /\ now[c] \in Nat /\ oncpu_cur[c].ts < now[c]
    BY DEF IInv, TypeOK, SliceInv
  <1>2. c \in Charging(oncpu_cur[c].cgroup)
    BY DEF Charging
  <1>3. IsFiniteSet(Pending(c)) /\ Cardinality(Pending(c)) = Slice(c)
    BY <1>1, SliceLength DEF Pending, Slice
  <1>4. Slice(c) \in Nat
    BY <1>1 DEF Slice
  <1>5. QED
    BY <1>1, <1>2, <1>3, <1>4

\* A charged slice is counted once: its instants were nobody else's and not yet
\* counted.
LEMMA ChargeAccount ==
    ASSUME IInv, NEW c \in Cpus, pc[c] \in {"slice", "insert"}, Moves(c, "wait"),
           Charge(c), UNCHANGED lost, NEW g \in Allowed, g = oncpu_cur[c].cgroup,
           Accumulated(g)' = Accumulated(g) + Slice(c),
           \A h \in Allowed : h /= g => Accumulated(h)' = Accumulated(h)
    PROVE  AccountInv' /\ charged' \in [Cgroups -> SUBSET (Cpus \X Nat)]
  <1>1. /\ g \in Allowed /\ c \in Charging(g) /\ Slice(c) \in Nat
        /\ IsFiniteSet(Pending(c)) /\ Cardinality(Pending(c)) = Slice(c)
    BY ChargingFacts
  <1>2. /\ charged' = [charged EXCEPT ![g] = @ \cup Pending(c)]
        /\ charged \in [Cgroups -> SUBSET (Cpus \X Nat)]
        /\ g \in Cgroups
    BY <1>1, SchedAssumption DEF Charge, Pending, IInv, TypeOK
  <1>3. /\ \A h \in Allowed : /\ Charging(h)' = Charging(h) \ {c}
                              /\ h /= g => c \notin Charging(h)
        /\ \A d \in Cpus : Pending(d)' = Pending(d)
        /\ ran' = ran /\ since' = since
    BY MovesPlace DEF Charging, Pending, Instants, Moves
  <1>4. /\ Pending(c) \subseteq ran[g] \ charged[g]
        /\ IsFiniteSet(ran[g]) /\ charged[g] \subseteq ran[g]
        /\ Accumulated(g) = Cardinality(charged[g])
    BY <1>1 DEF IInv, AccountInv
  <1>5. \A d \in Cpus : d /= c => Pending(d) \cap Pending(c) = {}
    BY DEF Pending, Instants
  <1>6. /\ charged'[g] = charged[g] \cup Pending(c)
        /\ \A h \in Allowed : h /= g => charged'[h] = charged[h]
        /\ charged' \in [Cgroups -> SUBSET (Cpus \X Nat)]
    <2>1. ran \in [Cgroups -> SUBSET (Cpus \X Nat)]
      BY DEF IInv, TypeOK
    <2>2. Pending(c) \subseteq Cpus \X Nat
      BY <1>2, <1>4, <2>1
    <2>3. QED
      BY <1>2, <2>2, SchedAssumption
  <1>7. ASSUME NEW h \in Allowed
        PROVE  /\ IsFiniteSet(ran'[h])
               /\ \A q \in ran'[h] : q[2] < since'[q[1]]
               /\ charged'[h] \subseteq ran'[h]
               /\ Accumulated(h)' = Cardinality(charged'[h])
               /\ \A d \in Charging(h)' : Pending(d)' \subseteq ran'[h] \ charged'[h]
               /\ lost'[h] = 0 =>
                     \A q \in ran'[h] \ charged'[h] :
                         \E d \in Charging(h)' : q \in Pending(d)'
    <2>1. \A d \in Charging(h) : d \in Cpus
      BY DEF Charging
    <2>2. CASE h = g
      <3>1. Accumulated(g)' = Cardinality(charged'[g])
        <4>1. IsFiniteSet(charged[g]) /\ Cardinality(charged[g]) \in Nat
          BY <1>4, FS_Subset, FS_CardinalityType
        <4>2. charged[g] \cap Pending(c) = {}
          BY <1>4
        <4>3. Cardinality(charged[g] \cup Pending(c)) =
                 Cardinality(charged[g]) + Slice(c) - Cardinality({})
          BY <1>1, <4>1, <4>2, FS_Union
        <4>4. QED
          BY <1>1, <1>4, <1>6, <4>1, <4>3, FS_EmptySet
      <3>2. /\ IsFiniteSet(ran[g]) /\ charged'[g] \subseteq ran[g]
            /\ \A q \in ran[g] : q[2] < since[q[1]]
        BY <1>1, <1>4, <1>6 DEF IInv, AccountInv
      <3>3. \A d \in Charging(g)' : Pending(d)' \subseteq ran[g] \ charged'[g]
        <4> SUFFICES ASSUME NEW d \in Charging(g), d /= c
                     PROVE  Pending(d)' \subseteq ran[g] \ charged'[g]
          BY <1>1, <1>3
        <4>1. d \in Cpus /\ Pending(d)' = Pending(d)
          BY <1>3, <2>1, <2>2
        <4>2. Pending(d) \subseteq ran[g] \ charged[g]
          BY <1>1 DEF IInv, AccountInv
        <4>3. Pending(d) \cap Pending(c) = {}
          BY <1>5, <4>1
        <4>4. QED
          BY <1>6, <4>1, <4>2, <4>3
      <3>4. ASSUME lost'[g] = 0, NEW q \in ran[g] \ charged'[g]
            PROVE  \E d \in Charging(g)' : q \in Pending(d)'
        <4>1. PICK d \in Charging(g) : q \in Pending(d)
          BY <1>1, <1>6, <3>4 DEF IInv, AccountInv
        <4>2. d /= c /\ d \in Cpus
          BY <1>6, <2>1, <2>2, <4>1
        <4>3. d \in Charging(g)' /\ Pending(d)' = Pending(d)
          BY <1>1, <1>3, <4>1, <4>2
        <4>4. QED
          BY <4>1, <4>3
      <3>5. QED
        BY <1>3, <2>2, <3>1, <3>2, <3>3, <3>4
    <2>3. CASE h /= g
      <3>1. Charging(h)' = Charging(h)
        BY <1>3, <2>3
      <3>2. Accumulated(h)' = Accumulated(h)
        BY <2>3
      <3>3. QED
        BY <1>3, <1>6, <2>1, <2>3, <3>1, <3>2 DEF IInv, AccountInv
    <2>4. QED
      BY <2>2, <2>3
  <1>8. AccountInv'
    BY <1>7 DEF AccountInv
  <1>9. QED
    BY <1>6, <1>8

\* A step at a slice: what concerns tasks, wakeups and run queues stays.
LEMMA MovesRest ==
    ASSUME IInv, NEW c \in Cpus, NEW p \in {"insert", "wait"}, Moves(c, p),
           UNCHANGED <<wakeup_ts, runq>>, UNCHANGED loaderVars,
           DOMAIN oncpu_ns' \subseteq Allowed, oncpu_ns' \in [DOMAIN oncpu_ns' -> Nat],
           \A g \in DOMAIN oncpu_ns : g \in DOMAIN oncpu_ns' /\ oncpu_ns'[g] >= oncpu_ns[g],
           charged' \in [Cgroups -> SUBSET (Cpus \X Nat)], lost' \in [Cgroups -> Nat],
           AccountInv', LossInv'
    PROVE  IInv'
  <1>1. UNCHANGED <<loader, start, seen, fragment, closed>>
    BY DEF loaderVars
  <1>2. /\ pc' \in [Cpus -> Pcs] /\ pc'[c] = p
        /\ \A d \in Cpus : d /= c => pc'[d] = pc[d]
        /\ PlaceInv' /\ SliceInv'
    BY MovesPlace
  <1>3. TypeOK'
    BY <1>1, <1>2 DEF IInv, TypeOK, Moves, Pcs
  <1>4. WakeInv'
    BY <1>2 DEF IInv, WakeInv, allowed_cg, Moves
  <1>5. WakeupDatesOneWait'
    BY DEF IInv, WakeupDatesOneWait, allowed_cg, Moves
  <1>6. LoaderInv'
    <2>1. \A g \in DOMAIN fragment'.oncpu :
             g \in DOMAIN oncpu_ns' /\ fragment'.oncpu[g] <= oncpu_ns'[g]
      <3> SUFFICES ASSUME NEW g \in DOMAIN fragment.oncpu
                   PROVE  g \in DOMAIN oncpu_ns' /\ fragment.oncpu[g] <= oncpu_ns'[g]
        BY <1>1
      <3>1. /\ g \in DOMAIN oncpu_ns /\ fragment.oncpu[g] <= oncpu_ns[g]
            /\ fragment.oncpu[g] \in Nat /\ oncpu_ns[g] \in Nat
        BY DEF IInv, TypeOK, LoaderInv
      <3>2. g \in DOMAIN oncpu_ns' /\ oncpu_ns'[g] \in Nat /\ oncpu_ns'[g] >= oncpu_ns[g]
        BY <3>1
      <3>3. QED
        BY <3>1, <3>2
    <2>2. closed' \subseteq DOMAIN oncpu_ns'
      BY <1>1 DEF IInv, LoaderInv
    <2>3. \A d \in Cpus : /\ pc'[d] \in {"new", "count"} => allowed_cg(next'[d])
                          /\ pc'[d] = "count" => CgroupOf[next'[d]] \in DOMAIN runq'
      BY <1>2 DEF IInv, LoaderInv, allowed_cg, Moves
    <2>4. QED
      BY <1>1, <2>1, <2>2, <2>3, PastAttach DEF IInv, LoaderInv, allowed_cg, Moves
  <1>7. QED
    BY <1>2, <1>3, <1>4, <1>5, <1>6 DEF IInv

\* The counter of the cgroup is there.
LEMMA AddSliceIInv ==
    ASSUME IInv, NEW c \in Cpus, AddSlice(c), UNCHANGED loaderVars
    PROVE  IInv'
  <1>1. PICK g \in Allowed : g = oncpu_cur[c].cgroup
    BY ChargingFacts DEF AddSlice
  <1>2. /\ Moves(c, "wait") /\ Charge(c) /\ UNCHANGED <<wakeup_ts, runq, lost>>
        /\ pc[c] = "slice" /\ g \in DOMAIN oncpu_ns
        /\ oncpu_ns' = [oncpu_ns EXCEPT ![g] = @ + Slice(c)]
    BY <1>1 DEF AddSlice, Moves, Pcs
  <1>3. Slice(c) \in Nat /\ oncpu_ns \in [DOMAIN oncpu_ns -> Nat] /\ DOMAIN oncpu_ns \subseteq Allowed
    BY <1>2, ChargingFacts DEF IInv, TypeOK
  <1>4. /\ DOMAIN oncpu_ns' = DOMAIN oncpu_ns /\ oncpu_ns' \in [DOMAIN oncpu_ns' -> Nat]
        /\ oncpu_ns'[g] = oncpu_ns[g] + Slice(c)
        /\ \A h \in DOMAIN oncpu_ns : h /= g => oncpu_ns'[h] = oncpu_ns[h]
        /\ \A h \in DOMAIN oncpu_ns : oncpu_ns'[h] >= oncpu_ns[h]
    BY <1>2, <1>3
  <1>5. /\ Accumulated(g)' = Accumulated(g) + Slice(c)
        /\ \A h \in Allowed : h /= g => Accumulated(h)' = Accumulated(h)
    BY <1>2, <1>4 DEF Accumulated
  <1>6. AccountInv' /\ charged' \in [Cgroups -> SUBSET (Cpus \X Nat)]
    BY <1>1, <1>2, <1>5, ChargeAccount
  <1>7. \A h \in Allowed : Inserting(h)' = Inserting(h)
    BY <1>2, MovesPlace DEF Inserting, Moves
  <1>8. LossInv'
    BY <1>2, <1>4, <1>7 DEF IInv, LossInv, Full
  <1>9. lost' \in [Cgroups -> Nat]
    BY <1>2 DEF IInv, TypeOK
  <1>10. QED
    BY <1>2, <1>3, <1>4, <1>6, <1>8, <1>9, MovesRest

\* The counter of the cgroup is not there: the CPU will try to insert it.
LEMMA MissCounterIInv ==
    ASSUME IInv, NEW c \in Cpus, MissCounter(c), UNCHANGED loaderVars
    PROVE  IInv'
  <1>1. /\ Moves(c, "insert") /\ UNCHANGED <<wakeup_ts, runq, oncpu_ns, charged, lost>>
        /\ pc[c] = "slice" /\ oncpu_cur[c].cgroup \notin DOMAIN oncpu_ns
    BY DEF MissCounter, Moves, Pcs
  <1>2. /\ pc'[c] = "insert" /\ \A d \in Cpus : d /= c => pc'[d] = pc[d]
        /\ oncpu_cur' = oncpu_cur /\ ran' = ran /\ since' = since
    BY <1>1, MovesPlace DEF Moves
  <1>3. /\ \A h \in Allowed : Charging(h)' = Charging(h)
        /\ \A h \in DOMAIN oncpu_ns : Inserting(h)' = Inserting(h)
    BY <1>1, <1>2 DEF Charging, Inserting
  <1>4. /\ \A d \in Cpus : Pending(d)' = Pending(d)
        /\ \A h \in Allowed : Accumulated(h)' = Accumulated(h)
    BY <1>1 DEF Pending, Instants, Accumulated, Moves
  <1>5. AccountInv'
    <2> SUFFICES ASSUME NEW h \in Allowed
                 PROVE  /\ IsFiniteSet(ran'[h])
                        /\ \A q \in ran'[h] : q[2] < since'[q[1]]
                        /\ charged'[h] \subseteq ran'[h]
                        /\ Accumulated(h)' = Cardinality(charged'[h])
                        /\ \A d \in Charging(h)' : Pending(d)' \subseteq ran'[h] \ charged'[h]
                        /\ lost'[h] = 0 =>
                              \A q \in ran'[h] \ charged'[h] :
                                  \E d \in Charging(h)' : q \in Pending(d)'
      BY DEF AccountInv
    <2>1. \A d \in Charging(h) : d \in Cpus
      BY DEF Charging
    <2>2. QED
      BY <1>1, <1>2, <1>3, <1>4, <2>1 DEF IInv, AccountInv
  <1>6. LossInv'
    BY <1>1, <1>3 DEF IInv, LossInv, Full
  <1>7. QED
    BY <1>1, <1>5, <1>6, MovesRest DEF IInv, TypeOK

\* The insertion makes the counter, or is refused.
LEMMA InsertSliceIInv ==
    ASSUME IInv, NEW c \in Cpus, InsertSlice(c), UNCHANGED loaderVars
    PROVE  IInv'
  <1>1. PICK g \in Allowed : g = oncpu_cur[c].cgroup
    BY ChargingFacts DEF InsertSlice
  <1> DEFINE refused == g \in DOMAIN oncpu_ns \/ Full(oncpu_ns)
  <1>2. /\ Moves(c, "wait") /\ UNCHANGED <<wakeup_ts, runq>> /\ pc[c] = "insert"
        /\ oncpu_ns' = IF refused THEN oncpu_ns ELSE Put(oncpu_ns, g, Slice(c))
        /\ lost' = IF refused THEN [lost EXCEPT ![g] = @ + 1] ELSE lost
        /\ IF refused THEN UNCHANGED charged ELSE Charge(c)
    BY <1>1 DEF InsertSlice, Moves, Pcs
  <1>3. /\ Slice(c) \in Nat /\ oncpu_ns \in [DOMAIN oncpu_ns -> Nat] /\ DOMAIN oncpu_ns \subseteq Allowed
        /\ lost \in [Cgroups -> Nat] /\ g \in Cgroups
        /\ charged \in [Cgroups -> SUBSET (Cpus \X Nat)]
    BY <1>2, ChargingFacts, SchedAssumption DEF IInv, TypeOK
  <1>4. /\ pc'[c] = "wait" /\ \A d \in Cpus : d /= c => pc'[d] = pc[d]
        /\ oncpu_cur' = oncpu_cur /\ ran' = ran /\ since' = since
    BY <1>2, MovesPlace DEF Moves
  <1>5. /\ Inserting(g)' = Inserting(g) \ {c} /\ c \in Inserting(g)
        /\ \A h \in Allowed : h /= g => Inserting(h)' = Inserting(h)
    BY <1>1, <1>2, <1>4 DEF Inserting
  <1>6. /\ IsFiniteSet(Inserting(g)) /\ Cardinality(Inserting(g)) \in Nat
        /\ Cardinality(Inserting(g) \ {c}) = Cardinality(Inserting(g)) - 1
        /\ Cardinality(Inserting(g)) <= Cardinality(Cpus) /\ Cardinality(Cpus) \in Nat
    <2>1. Inserting(g) \subseteq Cpus /\ IsFiniteSet(Cpus)
      BY SchedAssumption DEF Inserting
    <2>2. IsFiniteSet(Inserting(g)) /\ Cardinality(Inserting(g)) <= Cardinality(Cpus)
      BY <2>1, FS_Subset
    <2>3. Cardinality(Inserting(g)) \in Nat /\ Cardinality(Cpus) \in Nat
      BY <2>1, <2>2, FS_CardinalityType
    <2>4. Cardinality(Inserting(g) \ {c}) = Cardinality(Inserting(g)) - 1
      BY <1>5, <2>2, FS_RemoveElement
    <2>5. QED
      BY <2>2, <2>3, <2>4
  <1> HIDE DEF refused
  <1>7. CASE refused
    <2>1. /\ oncpu_ns' = oncpu_ns /\ charged' = charged
          /\ lost' \in [Cgroups -> Nat] /\ lost'[g] = lost[g] + 1
          /\ \A h \in Allowed : h /= g => lost'[h] = lost[h]
      BY <1>2, <1>3, <1>7, SchedAssumption
    <2>2. /\ \A h \in Allowed : /\ Charging(h)' = Charging(h) \ {c}
                                /\ h /= g => Charging(h)' = Charging(h)
          /\ \A d \in Cpus : Pending(d)' = Pending(d)
          /\ \A h \in Allowed : Accumulated(h)' = Accumulated(h)
      BY <1>1, <1>2, <1>4, <2>1 DEF Charging, Pending, Instants, Accumulated, Moves
    <2>3. AccountInv'
      <3> SUFFICES ASSUME NEW h \in Allowed
                   PROVE  /\ IsFiniteSet(ran'[h])
                          /\ \A q \in ran'[h] : q[2] < since'[q[1]]
                          /\ charged'[h] \subseteq ran'[h]
                          /\ Accumulated(h)' = Cardinality(charged'[h])
                          /\ \A d \in Charging(h)' : Pending(d)' \subseteq ran'[h] \ charged'[h]
                          /\ lost'[h] = 0 =>
                                \A q \in ran'[h] \ charged'[h] :
                                    \E d \in Charging(h)' : q \in Pending(d)'
        BY DEF AccountInv
      <3>1. \A d \in Charging(h) : d \in Cpus
        BY DEF Charging
      <3>2. h = g => lost'[h] /= 0
        BY <1>3, <2>1
      <3>3. QED
        BY <1>4, <2>1, <2>2, <3>1, <3>2 DEF IInv, AccountInv
    <2>4. LossInv'
      <3> SUFFICES ASSUME NEW h \in Allowed
                   PROVE  /\ h \notin DOMAIN oncpu_ns' /\ lost'[h] /= 0 => Full(oncpu_ns)'
                          /\ h \in DOMAIN oncpu_ns' =>
                                lost'[h] + Cardinality(Inserting(h)') < Cardinality(Cpus)
        BY DEF LossInv
      <3>1. Full(oncpu_ns)' = Full(oncpu_ns)
        BY <2>1 DEF Full
      <3>2. CASE h /= g
        BY <1>5, <2>1, <3>1, <3>2 DEF IInv, LossInv
      <3>3. CASE h = g
        <4>1. g \in DOMAIN oncpu_ns => lost[g] + Cardinality(Inserting(g)) < Cardinality(Cpus)
          BY DEF IInv, LossInv
        <4>2. g \in DOMAIN oncpu_ns =>
                 lost'[g] + Cardinality(Inserting(g) \ {c}) < Cardinality(Cpus)
          BY <1>3, <1>6, <2>1, <4>1
        <4>3. g \notin DOMAIN oncpu_ns => Full(oncpu_ns)
          BY <1>7 DEF refused
        <4>4. QED
          BY <1>5, <2>1, <3>1, <3>3, <4>2, <4>3
      <3>4. QED
        BY <3>2, <3>3
    <2>5. QED
      BY <1>2, <1>3, <2>1, <2>3, <2>4, MovesRest
  <1>8. CASE ~refused
    <2>1. /\ g \notin DOMAIN oncpu_ns /\ ~Full(oncpu_ns)
          /\ oncpu_ns' = Put(oncpu_ns, g, Slice(c)) /\ lost' = lost /\ Charge(c)
      BY <1>2, <1>8 DEF refused
    <2>2. /\ DOMAIN oncpu_ns' = DOMAIN oncpu_ns \cup {g} /\ oncpu_ns' \in [DOMAIN oncpu_ns' -> Nat]
          /\ oncpu_ns'[g] = Slice(c)
          /\ \A h \in DOMAIN oncpu_ns : oncpu_ns'[h] = oncpu_ns[h]
      BY <1>3, <2>1 DEF Put
    <2>3. /\ Accumulated(g)' = Accumulated(g) + Slice(c)
          /\ \A h \in Allowed : h /= g => Accumulated(h)' = Accumulated(h)
      BY <1>3, <2>1, <2>2 DEF Accumulated
    <2>4. AccountInv' /\ charged' \in [Cgroups -> SUBSET (Cpus \X Nat)]
      BY <1>1, <1>2, <2>1, <2>3, ChargeAccount
    <2>5. LossInv'
      <3> SUFFICES ASSUME NEW h \in Allowed
                   PROVE  /\ h \notin DOMAIN oncpu_ns' /\ lost[h] /= 0 => Full(oncpu_ns)'
                          /\ h \in DOMAIN oncpu_ns' =>
                                lost[h] + Cardinality(Inserting(h)') < Cardinality(Cpus)
        BY <2>1 DEF LossInv
      <3>1. h \notin DOMAIN oncpu_ns => lost[h] = 0
        BY <2>1 DEF IInv, LossInv
      <3>2. CASE h /= g
        BY <1>5, <2>2, <3>1, <3>2 DEF IInv, LossInv
      <3>3. CASE h = g
        <4>1. lost[g] + Cardinality(Inserting(g) \ {c}) < Cardinality(Cpus)
          BY <1>6, <2>1, <3>1, <3>3
        <4>2. QED
          BY <1>5, <2>2, <3>3, <4>1
      <3>4. QED
        BY <3>2, <3>3
    <2>6. \A h \in DOMAIN oncpu_ns : h \in DOMAIN oncpu_ns' /\ oncpu_ns'[h] >= oncpu_ns[h]
      BY <1>3, <2>2
    <2>7. DOMAIN oncpu_ns' \subseteq Allowed /\ lost' \in [Cgroups -> Nat]
      BY <1>3, <2>1, <2>2
    <2>8. QED
      BY <1>2, <2>2, <2>4, <2>5, <2>6, <2>7, MovesRest
  <1>9. QED
    BY <1>7, <1>8

-----------------------------------------------------------------------------
(* The scheduler. *)

\* The accounts depend on the slices alone.
LEMMA SameAccounts ==
    ASSUME IInv, UNCHANGED <<oncpu_ns, oncpu_cur, now, pc, since, ran, charged, lost>>
    PROVE  AccountInv' /\ LossInv'
  <1>1. \A g \in Allowed : /\ Charging(g)' = Charging(g) /\ Inserting(g)' = Inserting(g)
                           /\ Accumulated(g)' = Accumulated(g)
    BY DEF Charging, Inserting, Accumulated
  <1>2. \A d : Pending(d)' = Pending(d)
    BY DEF Pending, Instants
  <1>3. QED
    BY <1>1, <1>2 DEF IInv, AccountInv, LossInv, Full

\* A task that sleeps or waits is on no CPU, and one that is woken on its CPU is not
\* coming on at that moment.
LEMMA WakeupIInv ==
    ASSUME IInv, NEW t \in Tasks, NEW prog, Wakeup(t, prog), UNCHANGED loaderVars
    PROVE  IInv'
  <1>1. /\ UNCHANGED <<running, runq, oncpu_ns, oncpu_cur, pc, now, next>>
        /\ UNCHANGED <<since, ran, charged, lost, loader, start, seen, fragment, closed>>
        /\ state \in [Tasks -> {"sleeping", "runnable", "running"}]
        /\ state[t] = "running" => \E c \in Cpus : running[c] = t /\ pc[c] = "idle"
        /\ state' = [state EXCEPT ![t] = IF state[t] = "running" THEN @ ELSE "runnable"]
    BY DEF Wakeup, switchVars, loaderVars, IInv, TypeOK
  <1>2. /\ state' \in [Tasks -> {"sleeping", "runnable", "running"}]
        /\ state[t] = "running" => state' = state
        /\ state[t] /= "running" => state'[t] = "runnable"
        /\ \A u \in Tasks : u /= t => state'[u] = state[u]
    BY <1>1
  <1>3. \/ UNCHANGED <<wakeup_ts, woken, stray>>
        \/ /\ wakeup_ts' = IF allowed_cg(t) THEN wakeup_ts \cup {t} ELSE wakeup_ts
           /\ woken' = IF state[t] = "running" THEN woken ELSE woken \cup {t}
           /\ stray' = IF state[t] = "running" THEN stray \cup {t} ELSE stray \ {t}
    BY DEF Wakeup
  <1>4. clock' \in Nat \ {0} /\ clock' >= clock /\ clock \in Nat
    BY DEF Wakeup, IInv, TypeOK
  <1>5. TypeOK'
    <2>1. wakeup_ts' \subseteq Tasks /\ woken' \subseteq Tasks /\ stray' \subseteq Tasks
      BY <1>3 DEF IInv, TypeOK
    <2>2. QED
      BY <1>1, <1>2, <1>4, <2>1 DEF IInv, TypeOK
  <1>6. \A c \in Cpus : pc[c] /= "idle" => next[c] /= t
    <2> SUFFICES ASSUME NEW c \in Cpus, pc[c] /= "idle", next[c] = t PROVE FALSE
      OBVIOUS
    <2>1. next[c] /= Idle /\ state[t] = "running" /\ \A d \in Cpus : next[c] /= running[d]
      BY SchedAssumption DEF IInv, PlaceInv
    <2>2. QED
      BY <1>1, <2>1
  <1>7. PlaceInv'
    <2>1. \A u \in Tasks : state[u] = "running" => state'[u] = "running" /\ (u \in woken' => u \in woken)
      BY <1>1, <1>2, <1>3
    <2>2. running \in [Cpus -> Tasks \cup {Idle}] /\ next \in [Cpus -> Tasks \cup {Idle}]
      BY DEF IInv, TypeOK
    <2>3. QED
      BY <1>1, <2>1, <2>2 DEF IInv, PlaceInv
  <1>8. WakeInv'
    BY <1>1, <1>3, <1>6 DEF IInv, WakeInv, allowed_cg
  <1>9. WakeupDatesOneWait'
    <2>1. wakeup_ts' \subseteq woken' \cup stray'
      BY <1>3 DEF IInv, WakeupDatesOneWait
    <2>2. ASSUME NEW u \in Tasks, allowed_cg(u), state'[u] = "runnable", u \in woken'
          PROVE  u \in wakeup_ts'
      <3>1. CASE u = t
        <4>1. state[t] /= "running" /\ (t \in woken => state[t] = "runnable")
          BY <1>1, <1>2, <2>2, <3>1 DEF IInv, WakeInv
        <4>2. QED
          BY <1>3, <2>2, <3>1, <4>1 DEF IInv, WakeupDatesOneWait, allowed_cg
      <3>2. CASE u /= t
        BY <1>2, <1>3, <2>2, <3>2 DEF IInv, WakeupDatesOneWait, allowed_cg
      <3>3. QED
        BY <3>1, <3>2
    <2>3. QED
      BY <2>1, <2>2 DEF WakeupDatesOneWait, allowed_cg
  <1>10. SliceInv'
    BY <1>1, <1>4 DEF IInv, TypeOK, SliceInv, allowed_cg
  <1>11. AccountInv' /\ LossInv'
    BY <1>1, SameAccounts
  <1>12. LoaderInv'
    BY <1>1 DEF IInv, LoaderInv, allowed_cg
  <1>13. QED
    BY <1>5, <1>7, <1>8, <1>9, <1>10, <1>11, <1>12 DEF IInv

\* Before on_switch is attached tasks come and go untraced: no slice is tracked.
LEMMA SwitchUntracedIInv ==
    ASSUME IInv, NEW c \in Cpus, NEW n \in Tasks \cup {Idle}, SwitchUntraced(c, n),
           UNCHANGED loaderVars
    PROVE  IInv'
  <1>1. /\ UNCHANGED <<wakeup_ts, runq, oncpu_ns, oncpu_cur, pc, now, next, since, ran>>
        /\ UNCHANGED <<charged, lost, loader, start, seen, fragment, closed>>
        /\ n /= running[c] /\ (n /= Idle => state[n] = "runnable")
        /\ running' = [running EXCEPT ![c] = n]
        /\ woken' = woken \ {n} /\ stray' = stray \cup (woken \cap {n})
        /\ loader \in Attaching /\ clock' = clock + 1
    BY DEF SwitchUntraced, switchVars, loaderVars, Attached
  <1>2. PICK left \in {"runnable", "sleeping"} :
           state' = [t \in Tasks |-> IF t = n THEN "running"
                                     ELSE IF t = running[c] THEN left ELSE state[t]]
    BY DEF SwitchUntraced
  <1>3. /\ state \in [Tasks -> {"sleeping", "runnable", "running"}]
        /\ running \in [Cpus -> Tasks \cup {Idle}] /\ clock \in Nat \ {0}
        /\ \A d \in Cpus : pc[d] = "idle" /\ since[d] = 0 /\ oncpu_cur[d] = NoSlice
    BY <1>1 DEF IInv, TypeOK, LoaderInv
  <1>4. /\ state' \in [Tasks -> {"sleeping", "runnable", "running"}]
        /\ running' \in [Cpus -> Tasks \cup {Idle}] /\ running'[c] = n
        /\ \A d \in Cpus : d /= c => running'[d] = running[d]
        /\ n \in Tasks => state'[n] = "running"
        /\ \A t \in Tasks : t /= n /\ t /= running[c] => state'[t] = state[t]
    BY <1>1, <1>2, <1>3
  <1>5. TypeOK'
    BY <1>1, <1>3, <1>4 DEF IInv, TypeOK
  <1>6. PlaceInv'
    <2>1. \A d \in Cpus : d /= c /\ running[d] /= Idle =>
             running[d] /= n /\ running[d] /= running[c] /\ running[d] \in Tasks
      BY <1>1, <1>3 DEF IInv, PlaceInv
    <2>2. \A d \in Cpus : running'[d] /= Idle =>
             state'[running'[d]] = "running" /\ running'[d] \notin woken'
      <3> SUFFICES ASSUME NEW d \in Cpus, running'[d] /= Idle
                   PROVE  state'[running'[d]] = "running" /\ running'[d] \notin woken'
        OBVIOUS
      <3>1. CASE d = c
        BY <1>1, <1>4, <3>1
      <3>2. CASE d /= c
        BY <1>1, <1>3, <1>4, <2>1, <3>2 DEF IInv, PlaceInv
      <3>3. QED
        BY <3>1, <3>2
    <2>3. \A d, e \in Cpus : d /= e /\ running'[d] /= Idle => running'[d] /= running'[e]
      BY <1>4, <2>1 DEF IInv, PlaceInv
    <2>4. QED
      BY <1>1, <1>3, <2>2, <2>3 DEF PlaceInv
  <1>7. WakeInv'
    <2>1. ASSUME NEW t \in woken' PROVE state'[t] /= "sleeping"
      <3>1. t \in woken /\ t /= n /\ t \in Tasks
        BY <1>1, <2>1 DEF IInv, TypeOK
      <3>2. t /= running[c]
        BY <3>1, SchedAssumption DEF IInv, PlaceInv
      <3>3. QED
        BY <1>4, <3>1, <3>2 DEF IInv, WakeInv
    <2>2. QED
      BY <1>1, <1>3, <2>1 DEF IInv, WakeInv, allowed_cg
  <1>8. WakeupDatesOneWait'
    <2>1. wakeup_ts' \subseteq woken' \cup stray'
      BY <1>1 DEF IInv, WakeupDatesOneWait
    <2>2. ASSUME NEW t \in Tasks, allowed_cg(t), state'[t] = "runnable", t \in woken'
          PROVE  t \in wakeup_ts'
      <3>1. t \in woken /\ t /= n
        BY <1>1, <2>2
      <3>2. t /= running[c]
        BY <3>1, SchedAssumption DEF IInv, PlaceInv
      <3>3. QED
        BY <1>1, <1>4, <2>2, <3>1, <3>2 DEF IInv, WakeupDatesOneWait
    <2>3. QED
      BY <2>1, <2>2 DEF WakeupDatesOneWait, allowed_cg
  <1>9. SliceInv'
    BY <1>1, <1>3 DEF SliceInv
  <1>10. AccountInv' /\ LossInv'
    BY <1>1, SameAccounts
  <1>11. LoaderInv'
    BY <1>1 DEF IInv, LoaderInv, allowed_cg
  <1>12. QED
    BY <1>5, <1>6, <1>7, <1>8, <1>9, <1>10, <1>11 DEF IInv

\* The slice that ends is the one the CPU tracked, and its instants are new.
LEMMA SwitchIInv ==
    ASSUME IInv, NEW c \in Cpus, NEW n \in Tasks \cup {Idle}, Switch(c, n),
           UNCHANGED loaderVars
    PROVE  IInv'
  <1> DEFINE p == IF oncpu_cur[c] = NoSlice THEN "wait" ELSE "slice"
             r == CgroupOf[running[c]]
             new == Instants(c, since[c], clock)
  <1>1. /\ UNCHANGED <<running, wakeup_ts, runq, oncpu_ns, oncpu_cur, charged, lost, woken, stray>>
        /\ UNCHANGED <<loader, start, seen, fragment, closed>>
        /\ pc[c] = "idle" /\ n /= running[c] /\ clock' = clock + 1
        /\ n /= Idle => state[n] = "runnable"
        /\ state' = [t \in Tasks |-> IF t = n THEN "running" ELSE state[t]]
        /\ now' = [now EXCEPT ![c] = clock] /\ next' = [next EXCEPT ![c] = n]
        /\ since' = [since EXCEPT ![c] = clock] /\ pc' = [pc EXCEPT ![c] = p]
        /\ ran' = IF since[c] = 0 THEN ran ELSE [ran EXCEPT ![r] = @ \cup new]
        /\ loader \notin Attaching
    BY DEF Switch, loaderVars, Attached
  <1>2. /\ state \in [Tasks -> {"sleeping", "runnable", "running"}]
        /\ running \in [Cpus -> Tasks \cup {Idle}] /\ clock \in Nat \ {0}
        /\ pc \in [Cpus -> Pcs] /\ now \in [Cpus -> Nat] /\ since \in [Cpus -> Nat]
        /\ next \in [Cpus -> Tasks \cup {Idle}]
        /\ ran \in [Cgroups -> SUBSET (Cpus \X Nat)] /\ r \in Cgroups
        /\ oncpu_cur \in [Cpus -> [ts : Nat \ {0}, cgroup : Allowed] \cup {NoSlice}]
    BY SchedAssumption DEF IInv, TypeOK, Pcs
  <1>3. p \in {"wait", "slice"} /\ p \in Pcs
    BY DEF Pcs
  <1>4. /\ pc'[c] = p /\ next'[c] = n /\ now'[c] = clock /\ since'[c] = clock
        /\ \A d \in Cpus : d /= c => /\ pc'[d] = pc[d] /\ next'[d] = next[d]
                                     /\ now'[d] = now[d] /\ since'[d] = since[d]
        /\ pc' \in [Cpus -> Pcs] /\ next' \in [Cpus -> Tasks \cup {Idle}]
        /\ now' \in [Cpus -> Nat] /\ since' \in [Cpus -> Nat]
        /\ \A d \in Cpus : since[d] < clock /\ since[d] <= since'[d]
    BY <1>1, <1>2, <1>3 DEF IInv, SliceInv
  <1>5. new \subseteq Cpus \X Nat /\ IsFiniteSet(new)
        /\ \A q \in new : q[1] = c /\ since[c] <= q[2] /\ q[2] < clock
    <2>1. since[c] \in Nat /\ clock \in Nat /\ since[c] < clock
      BY <1>2, <1>4
    <2>2. IsFiniteSet(new)
      BY <2>1, SliceLength
    <2>3. QED
      BY <2>1, <2>2 DEF Instants
  <1> HIDE DEF new
  <1>6. ran' \in [Cgroups -> SUBSET (Cpus \X Nat)]
    BY <1>1, <1>2, <1>5
  <1>7. TypeOK'
    BY <1>1, <1>2, <1>4, <1>6 DEF IInv, TypeOK, Pcs
  <1>8. PlaceInv'
    <2>1. \A d \in Cpus : n /= Idle => n /= running[d]
      BY <1>1, <1>2 DEF IInv, PlaceInv
    <2>2. \A d \in Cpus : n /= Idle /\ pc[d] /= "idle" => n /= next[d]
      BY <1>1, <1>2 DEF IInv, PlaceInv
    <2>3. /\ n /= Idle => state'[n] = "running"
          /\ \A t \in Tasks : state[t] = "running" => state'[t] = "running"
      BY <1>1, <1>2
    <2>4. \A d \in Cpus :
             running'[d] /= Idle => state'[running'[d]] = "running" /\ running'[d] \notin woken'
      BY <1>1, <1>2, <2>3 DEF IInv, PlaceInv
    <2>5. ASSUME NEW d \in Cpus, pc'[d] /= "idle", next'[d] /= Idle
          PROVE  /\ state'[next'[d]] = "running"
                 /\ \A e \in Cpus : /\ next'[d] /= running'[e]
                                    /\ e /= d /\ pc'[e] /= "idle" => next'[d] /= next'[e]
      <3>1. CASE d = c
        BY <1>1, <1>4, <2>1, <2>2, <2>3, <2>5, <3>1
      <3>2. CASE d /= c
        BY <1>1, <1>2, <1>4, <2>2, <2>3, <2>5, <3>2 DEF IInv, PlaceInv
      <3>3. QED
        BY <3>1, <3>2
    <2>6. QED
      BY <1>1, <2>4, <2>5 DEF IInv, PlaceInv
  <1>9. WakeInv'
    <2>1. \A t \in woken : t \in Tasks /\ state'[t] /= "sleeping"
      BY <1>1, <1>2 DEF IInv, TypeOK, WakeInv
    <2>2. QED
      BY <1>1, <1>3, <1>4, <2>1 DEF IInv, WakeInv, allowed_cg
  <1>10. WakeupDatesOneWait'
    BY <1>1, <1>2 DEF IInv, WakeupDatesOneWait, allowed_cg
  <1>11. SliceInv'
    BY <1>1, <1>2, <1>3, <1>4 DEF IInv, SliceInv, allowed_cg
  <1>12. /\ \A d \in Cpus : d /= c => Pending(d)' = Pending(d)
         /\ oncpu_cur[c] /= NoSlice => Pending(c)' = new /\ since[c] /= 0 /\ oncpu_cur[c].cgroup = r
         /\ oncpu_cur[c] = NoSlice => since[c] = 0 \/ r \notin Allowed
    <2>1. \A d \in Cpus : d /= c => Pending(d)' = Pending(d)
      BY <1>1, <1>4 DEF Pending, Instants
    <2>2. oncpu_cur[c] /= NoSlice =>
             oncpu_cur[c].ts = since[c] /\ since[c] /= 0 /\ oncpu_cur[c].cgroup = r
      BY <1>1, <1>2 DEF IInv, SliceInv
    <2>3. oncpu_cur[c] = NoSlice => since[c] = 0 \/ r \notin Allowed
      BY <1>1 DEF IInv, SliceInv, allowed_cg
    <2>4. Pending(c)' = Instants(c, oncpu_cur[c].ts, clock)
      BY <1>1, <1>4 DEF Pending, Instants
    <2>5. QED
      BY <2>1, <2>2, <2>3, <2>4 DEF new
  <1>13. \A g \in Allowed :
            /\ Charging(g)' = IF oncpu_cur[c] /= NoSlice /\ g = r
                              THEN Charging(g) \cup {c} ELSE Charging(g)
            /\ c \notin Charging(g)
            /\ Inserting(g)' = Inserting(g) /\ Accumulated(g)' = Accumulated(g)
    BY <1>1, <1>3, <1>4, <1>12 DEF Charging, Inserting, Accumulated
  <1>14. ASSUME NEW g \in Allowed
         PROVE  /\ IsFiniteSet(ran'[g])
                /\ \A q \in ran'[g] : q[2] < since'[q[1]]
                /\ charged'[g] \subseteq ran'[g]
                /\ Accumulated(g)' = Cardinality(charged'[g])
                /\ \A d \in Charging(g)' : Pending(d)' \subseteq ran'[g] \ charged'[g]
                /\ lost'[g] = 0 =>
                      \A q \in ran'[g] \ charged'[g] :
                          \E d \in Charging(g)' : q \in Pending(d)'
    <2>1. /\ IsFiniteSet(ran[g]) /\ charged[g] \subseteq ran[g]
          /\ \A q \in ran[g] : q \in Cpus \X Nat /\ q[2] < since[q[1]]
          /\ Accumulated(g) = Cardinality(charged[g])
          /\ \A d \in Charging(g) : d \in Cpus /\ d /= c /\ Pending(d) \subseteq ran[g] \ charged[g]
          /\ lost[g] = 0 =>
                \A q \in ran[g] \ charged[g] : \E d \in Charging(g) : q \in Pending(d)
      BY <1>2, <1>13, SchedAssumption DEF IInv, AccountInv, Charging
    <2>2. \A q \in ran[g] : q[2] < since'[q[1]]
      <3> SUFFICES ASSUME NEW q \in ran[g] PROVE q[2] < since'[q[1]]
        OBVIOUS
      <3>1. q[1] \in Cpus /\ q[2] \in Nat /\ q[2] < since[q[1]]
        BY <2>1
      <3>2. since[q[1]] \in Nat /\ since'[q[1]] \in Nat /\ since[q[1]] <= since'[q[1]]
        BY <1>2, <1>4, <3>1
      <3>3. QED
        BY <3>1, <3>2
    <2>3. CASE oncpu_cur[c] /= NoSlice /\ g = r
      <3>1. ran'[g] = ran[g] \cup new /\ Charging(g)' = Charging(g) \cup {c} /\ Pending(c)' = new
        BY <1>1, <1>2, <1>12, <1>13, <2>3
      <3>2. new \cap ran[g] = {}
        <4> SUFFICES ASSUME NEW q \in new, q \in ran[g] PROVE FALSE
          OBVIOUS
        <4>1. q[1] = c /\ since[c] <= q[2] /\ q[2] < since[c] /\ q[2] \in Nat /\ since[c] \in Nat
          BY <1>2, <1>5, <2>1
        <4>2. QED
          BY <4>1
      <3>3. IsFiniteSet(ran[g] \cup new)
        BY <1>5, <2>1, FS_Union
      <3>4. \A q \in new : q[2] < since'[q[1]]
        BY <1>4, <1>5
      <3>5. \A d \in Charging(g)' : Pending(d)' \subseteq ran'[g] \ charged[g]
        BY <1>12, <2>1, <3>1, <3>2
      <3>6. lost[g] = 0 =>
               \A q \in ran'[g] \ charged[g] : \E d \in Charging(g)' : q \in Pending(d)'
        BY <1>12, <2>1, <3>1
      <3>7. QED
        BY <1>1, <1>13, <2>1, <2>2, <3>1, <3>3, <3>4, <3>5, <3>6
    <2>4. CASE ~(oncpu_cur[c] /= NoSlice /\ g = r)
      <3>1. ran'[g] = ran[g] /\ Charging(g)' = Charging(g)
        BY <1>1, <1>2, <1>12, <1>13, <2>4, SchedAssumption
      <3>2. QED
        BY <1>1, <1>12, <1>13, <2>1, <2>2, <3>1
    <2>5. QED
      BY <2>3, <2>4
  <1>15. AccountInv'
    BY <1>14 DEF AccountInv
  <1>16. LossInv'
    BY <1>1, <1>13 DEF IInv, LossInv, Full
  <1>17. LoaderInv'
    BY <1>1, <1>3, <1>4 DEF IInv, LoaderInv, allowed_cg
  <1>18. QED
    BY <1>7, <1>8, <1>9, <1>10, <1>11, <1>15, <1>16, <1>17 DEF IInv

\* The switch is over: the task that came on has left the run queue, and the one
\* that went off was not waiting.
LEMMA SetCurrentIInv ==
    ASSUME IInv, NEW c \in Cpus, SetCurrent(c), UNCHANGED loaderVars
    PROVE  IInv'
  <1> DEFINE cur == IF allowed_cg(next[c])
                    THEN [ts |-> now[c], cgroup |-> CgroupOf[next[c]]] ELSE NoSlice
  <1>1. /\ UNCHANGED <<clock, wakeup_ts, runq, oncpu_ns, now, next, since, ran, charged, lost>>
        /\ UNCHANGED <<loader, start, seen, fragment, closed>>
        /\ pc[c] = "set" /\ pc' = [pc EXCEPT ![c] = "idle"]
        /\ oncpu_cur' = [oncpu_cur EXCEPT ![c] = cur]
        /\ running' = [running EXCEPT ![c] = next[c]]
        /\ woken' = woken \ {next[c]} /\ stray' = stray \ {next[c]}
    BY DEF SetCurrent, loaderVars
  <1>2. PICK left \in {"runnable", "sleeping"} :
           state' = [t \in Tasks |-> IF t = running[c] THEN left ELSE state[t]]
    BY DEF SetCurrent
  <1>3. /\ state \in [Tasks -> {"sleeping", "runnable", "running"}]
        /\ running \in [Cpus -> Tasks \cup {Idle}]
        /\ next \in [Cpus -> Tasks \cup {Idle}]
        /\ pc \in [Cpus -> Pcs] /\ now \in [Cpus -> Nat]
        /\ oncpu_cur \in [Cpus -> [ts : Nat \ {0}, cgroup : Allowed] \cup {NoSlice}]
        /\ now[c] = since[c] /\ now[c] > 0 /\ next[c] \notin wakeup_ts
    BY <1>1 DEF IInv, TypeOK, Pcs, SliceInv, WakeInv
  <1>4. cur \in [ts : Nat \ {0}, cgroup : Allowed] \cup {NoSlice}
    BY <1>3 DEF allowed_cg
  <1>5. /\ allowed_cg(next[c]) => /\ cur /= NoSlice /\ cur.ts = since[c]
                                  /\ cur.cgroup = CgroupOf[next[c]]
        /\ ~allowed_cg(next[c]) => cur = NoSlice
    BY <1>3 DEF NoSlice
  <1> HIDE DEF cur
  <1>6. /\ pc'[c] = "idle" /\ oncpu_cur'[c] = cur /\ running'[c] = next[c]
        /\ \A d \in Cpus : d /= c => /\ pc'[d] = pc[d] /\ oncpu_cur'[d] = oncpu_cur[d]
                                     /\ running'[d] = running[d]
        /\ pc' \in [Cpus -> Pcs] /\ running' \in [Cpus -> Tasks \cup {Idle}]
        /\ oncpu_cur' \in [Cpus -> [ts : Nat \ {0}, cgroup : Allowed] \cup {NoSlice}]
        /\ state' \in [Tasks -> {"sleeping", "runnable", "running"}]
        /\ \A t \in Tasks : t /= running[c] => state'[t] = state[t]
    BY <1>1, <1>2, <1>3, <1>4 DEF Pcs
  <1>7. TypeOK'
    BY <1>1, <1>6 DEF IInv, TypeOK, Pcs
  <1>8. PlaceInv'
    <2>1. \A d \in Cpus :
             running'[d] /= Idle => state'[running'[d]] = "running" /\ running'[d] \notin woken'
      <3> SUFFICES ASSUME NEW d \in Cpus, running'[d] /= Idle
                   PROVE  state'[running'[d]] = "running" /\ running'[d] \notin woken'
        OBVIOUS
      <3>1. CASE d = c
        BY <1>1, <1>3, <1>6, <3>1 DEF IInv, PlaceInv
      <3>2. CASE d /= c
        BY <1>1, <1>3, <1>6, <3>2 DEF IInv, PlaceInv
      <3>3. QED
        BY <3>1, <3>2
    <2>2. \A d, e \in Cpus : d /= e /\ running'[d] /= Idle => running'[d] /= running'[e]
      BY <1>1, <1>3, <1>6 DEF IInv, PlaceInv
    <2>3. ASSUME NEW d \in Cpus, pc'[d] /= "idle", next'[d] /= Idle
          PROVE  /\ state'[next'[d]] = "running"
                 /\ \A e \in Cpus : /\ next'[d] /= running'[e]
                                    /\ e /= d /\ pc'[e] /= "idle" => next'[d] /= next'[e]
      <3>1. d /= c /\ pc[d] /= "idle" /\ next'[d] = next[d] /\ next[d] \in Tasks
        BY <1>1, <1>3, <1>6, <2>3
      <3>2. QED
        BY <1>1, <1>3, <1>6, <2>3, <3>1 DEF IInv, PlaceInv
    <2>4. QED
      BY <2>1, <2>2, <2>3 DEF PlaceInv
  <1>9. WakeInv'
    <2>1. ASSUME NEW t \in woken' PROVE state'[t] /= "sleeping"
      <3>1. t \in woken /\ t \in Tasks
        BY <1>1, <2>1 DEF IInv, TypeOK
      <3>2. t /= running[c]
        BY <3>1, SchedAssumption DEF IInv, PlaceInv
      <3>3. QED
        BY <1>6, <3>1, <3>2 DEF IInv, WakeInv
    <2>2. QED
      BY <1>1, <1>6, <2>1 DEF IInv, WakeInv, allowed_cg
  <1>10. WakeupDatesOneWait'
    BY <1>1, <1>2, <1>3, SchedAssumption DEF IInv, WakeupDatesOneWait, PlaceInv, allowed_cg
  <1>11. SliceInv'
    BY <1>1, <1>3, <1>5, <1>6 DEF IInv, SliceInv, allowed_cg
  <1>12. \A g \in Allowed :
            /\ Charging(g)' = Charging(g) /\ Inserting(g)' = Inserting(g)
            /\ Accumulated(g)' = Accumulated(g) /\ c \notin Charging(g)
    BY <1>1, <1>6 DEF Charging, Inserting, Accumulated
  <1>13. \A d \in Cpus : d /= c => Pending(d)' = Pending(d)
    BY <1>1, <1>6 DEF Pending, Instants
  <1>14. AccountInv'
    <2> SUFFICES ASSUME NEW g \in Allowed
                 PROVE  /\ IsFiniteSet(ran'[g])
                        /\ \A q \in ran'[g] : q[2] < since'[q[1]]
                        /\ charged'[g] \subseteq ran'[g]
                        /\ Accumulated(g)' = Cardinality(charged'[g])
                        /\ \A d \in Charging(g)' : Pending(d)' \subseteq ran'[g] \ charged'[g]
                        /\ lost'[g] = 0 =>
                              \A q \in ran'[g] \ charged'[g] :
                                  \E d \in Charging(g)' : q \in Pending(d)'
      BY DEF AccountInv
    <2>1. \A d \in Charging(g) : d \in Cpus /\ d /= c
      BY <1>12 DEF Charging
    <2>2. QED
      BY <1>1, <1>12, <1>13, <2>1 DEF IInv, AccountInv
  <1>15. LossInv'
    BY <1>1, <1>12 DEF IInv, LossInv, Full
  <1>16. LoaderInv'
    BY <1>1, <1>6 DEF IInv, LoaderInv, allowed_cg
  <1>17. QED
    BY <1>7, <1>8, <1>9, <1>10, <1>11, <1>14, <1>15, <1>16 DEF IInv

-----------------------------------------------------------------------------
(* The loader. *)

\* The loader writes none of the maps.
LEMMA LoaderKeepsKernel ==
    ASSUME IInv, UNCHANGED kernelVars
    PROVE  /\ UNCHANGED <<clock, state, running, wakeup_ts, runq, oncpu_ns, oncpu_cur>>
           /\ UNCHANGED <<pc, now, next, since, ran, charged, lost, woken, stray>>
           /\ PlaceInv' /\ WakeInv' /\ WakeupDatesOneWait' /\ SliceInv'
           /\ AccountInv' /\ LossInv'
  <1>1. /\ UNCHANGED <<clock, state, running, wakeup_ts, runq, oncpu_ns, oncpu_cur>>
        /\ UNCHANGED <<pc, now, next, since, ran, charged, lost, woken, stray>>
    BY DEF kernelVars, switchVars
  <1>2. PlaceInv' /\ WakeInv' /\ WakeupDatesOneWait'
    BY <1>1 DEF IInv, PlaceInv, WakeInv, WakeupDatesOneWait, allowed_cg
  <1>3. SliceInv'
    BY <1>1 DEF IInv, SliceInv, allowed_cg
  <1>4. AccountInv' /\ LossInv'
    BY <1>1, SameAccounts
  <1>5. QED
    BY <1>1, <1>2, <1>3, <1>4

\* The phases of the loader: what was there when an iteration began is covered by
\* its end, because no key ever leaves the maps.
LEMMA PhaseIInv ==
    ASSUME IInv, EndWindow \/ EndRunq \/ WriteFragment
    PROVE  IInv'
  <1>1. UNCHANGED kernelVars /\ fragment' = fragment
    BY DEF EndWindow, EndRunq, WriteFragment
  <1>2. /\ UNCHANGED <<clock, state, running, wakeup_ts, runq, oncpu_ns, oncpu_cur>>
        /\ UNCHANGED <<pc, now, next, since, ran, charged, lost, woken, stray>>
        /\ PlaceInv' /\ WakeInv' /\ WakeupDatesOneWait' /\ SliceInv'
        /\ AccountInv' /\ LossInv'
    BY <1>1, LoaderKeepsKernel
  <1>3. TypeOK'
    BY <1>1, <1>2 DEF IInv, TypeOK, LoaderStates, EndWindow, EndRunq, WriteFragment
  <1>4. LoaderInv'
    <2>1. loader' \notin Attaching
      BY DEF EndWindow, EndRunq, WriteFragment, Attaching
    <2>2. QED
      BY <1>1, <1>2, <2>1 DEF IInv, LoaderInv, allowed_cg, EndWindow, EndRunq, WriteFragment
  <1>5. QED
    BY <1>2, <1>3, <1>4 DEF IInv

\* The programs are attached one by one, and none has run before its turn.
LEMMA AttachIInv ==
    ASSUME IInv, Attach
    PROVE  IInv'
  <1>1. /\ UNCHANGED kernelVars /\ UNCHANGED <<start, seen, fragment, closed>>
        /\ loader \in Attaching /\ loader' \in {"on_wakeup", "on_wakeup_new", "capturing"}
    BY DEF Attach, Attaching
  <1>2. /\ UNCHANGED <<clock, state, running, wakeup_ts, runq, oncpu_ns, oncpu_cur>>
        /\ UNCHANGED <<pc, now, next, since, ran, charged, lost, woken, stray>>
        /\ PlaceInv' /\ WakeInv' /\ WakeupDatesOneWait' /\ SliceInv'
        /\ AccountInv' /\ LossInv'
    BY <1>1, LoaderKeepsKernel
  <1>3. TypeOK'
    BY <1>1, <1>2 DEF IInv, TypeOK, LoaderStates, Attaching
  <1>4. LoaderInv'
    BY <1>1, <1>2 DEF IInv, LoaderInv, allowed_cg
  <1>5. QED
    BY <1>2, <1>3, <1>4 DEF IInv

\* A histogram is taken when it has a wait in it.
LEMMA ReadRunqIInv ==
    ASSUME IInv, NEW g \in Cgroups, ReadRunq(g)
    PROVE  IInv'
  <1>1. /\ UNCHANGED kernelVars /\ UNCHANGED <<loader, start, closed>>
        /\ loader = "runq" /\ g \in DOMAIN runq /\ seen' = seen \cup {g}
        /\ fragment' = IF runq[g] = 0 THEN fragment
                       ELSE [fragment EXCEPT !.runq = @ \cup {g}]
    BY DEF ReadRunq
  <1>2. /\ UNCHANGED <<clock, state, running, wakeup_ts, runq, oncpu_ns, oncpu_cur>>
        /\ UNCHANGED <<pc, now, next, since, ran, charged, lost, woken, stray>>
        /\ PlaceInv' /\ WakeInv' /\ WakeupDatesOneWait' /\ SliceInv'
        /\ AccountInv' /\ LossInv'
    BY <1>1, LoaderKeepsKernel
  <1>3. /\ fragment = [runq |-> fragment.runq, oncpu |-> fragment.oncpu]
        /\ g \in Allowed /\ runq[g] \in Nat
    BY <1>1 DEF IInv, TypeOK
  <1>4. /\ fragment' = [runq |-> fragment'.runq, oncpu |-> fragment'.oncpu]
        /\ fragment'.oncpu = fragment.oncpu
        /\ fragment'.runq = IF runq[g] = 0 THEN fragment.runq ELSE fragment.runq \cup {g}
    BY <1>1, <1>3
  <1>5. TypeOK'
    BY <1>1, <1>2, <1>3, <1>4 DEF IInv, TypeOK
  <1>6. LoaderInv'
    BY <1>1, <1>2, <1>3, <1>4 DEF IInv, LoaderInv, allowed_cg
  <1>7. QED
    BY <1>2, <1>5, <1>6 DEF IInv

\* A counter is read at what it holds, and only grows after that.
LEMMA ReadOncpuIInv ==
    ASSUME IInv, NEW g \in Cgroups, ReadOncpu(g)
    PROVE  IInv'
  <1>1. /\ UNCHANGED kernelVars /\ UNCHANGED <<loader, start, closed>>
        /\ loader = "oncpu" /\ g \in DOMAIN oncpu_ns /\ seen' = seen \cup {g}
        /\ fragment' = [fragment EXCEPT !.oncpu = Put(@, g, oncpu_ns[g])]
    BY DEF ReadOncpu
  <1>2. /\ UNCHANGED <<clock, state, running, wakeup_ts, runq, oncpu_ns, oncpu_cur>>
        /\ UNCHANGED <<pc, now, next, since, ran, charged, lost, woken, stray>>
        /\ PlaceInv' /\ WakeInv' /\ WakeupDatesOneWait' /\ SliceInv'
        /\ AccountInv' /\ LossInv'
    BY <1>1, LoaderKeepsKernel
  <1>3. /\ fragment = [runq |-> fragment.runq, oncpu |-> fragment.oncpu]
        /\ g \in Allowed /\ oncpu_ns[g] \in Nat
        /\ fragment.oncpu \in [DOMAIN fragment.oncpu -> Nat]
    BY <1>1 DEF IInv, TypeOK
  <1>4. /\ fragment' = [runq |-> fragment'.runq, oncpu |-> fragment'.oncpu]
        /\ fragment'.runq = fragment.runq
        /\ fragment'.oncpu = Put(fragment.oncpu, g, oncpu_ns[g])
    BY <1>1, <1>3
  <1>5. /\ DOMAIN fragment'.oncpu = DOMAIN fragment.oncpu \cup {g}
        /\ fragment'.oncpu \in [DOMAIN fragment'.oncpu -> Nat]
        /\ fragment'.oncpu[g] = oncpu_ns[g]
        /\ \A h \in DOMAIN fragment.oncpu : h /= g => fragment'.oncpu[h] = fragment.oncpu[h]
    BY <1>3, <1>4 DEF Put
  <1>6. TypeOK'
    BY <1>1, <1>2, <1>3, <1>4, <1>5 DEF IInv, TypeOK
  <1>7. LoaderInv'
    BY <1>1, <1>2, <1>3, <1>4, <1>5 DEF IInv, LoaderInv, allowed_cg
  <1>8. QED
    BY <1>2, <1>6, <1>7 DEF IInv

-----------------------------------------------------------------------------
(* The specification. *)

\* Nothing is tracked when the programs are attached.
LEMMA InitIInv == Init => IInv
  <1> SUFFICES ASSUME Init PROVE IInv
    OBVIOUS
  <1>1. \A c \in Cpus : /\ pc[c] = "idle" /\ since[c] = 0
                        /\ oncpu_cur[c] = NoSlice
    BY DEF Init
  <1>2. TypeOK
    <2>1. /\ runq \in [DOMAIN runq -> Nat] /\ DOMAIN runq = {}
          /\ oncpu_ns \in [DOMAIN oncpu_ns -> Nat] /\ DOMAIN oncpu_ns = {}
          /\ fragment = [runq |-> fragment.runq, oncpu |-> fragment.oncpu]
          /\ fragment.oncpu \in [DOMAIN fragment.oncpu -> Nat]
          /\ DOMAIN fragment.oncpu = {} /\ fragment.runq = {}
      BY DEF Init, Empty
    <2>2. QED
      BY <2>1 DEF Init, TypeOK, LoaderStates, Attaching
  <1>3. PlaceInv
    BY <1>1 DEF Init, PlaceInv
  <1>4. WakeInv /\ WakeupDatesOneWait
    BY <1>1 DEF Init, WakeInv, WakeupDatesOneWait
  <1>5. SliceInv
    BY <1>1 DEF Init, SliceInv
  <1>6. AccountInv
    <2> SUFFICES ASSUME NEW g \in Allowed
                 PROVE  /\ IsFiniteSet(ran[g]) /\ ran[g] = {} /\ charged[g] = {}
                        /\ Accumulated(g) = Cardinality(charged[g])
                        /\ Charging(g) = {}
      BY DEF AccountInv
    <2>1. ran[g] = {} /\ charged[g] = {} /\ Accumulated(g) = 0
      BY SchedAssumption DEF Init, Empty, Accumulated
    <2>2. Charging(g) = {}
      BY <1>1 DEF Charging
    <2>3. QED
      BY <2>1, <2>2, FS_EmptySet
  <1>7. LossInv
    BY SchedAssumption DEF Init, LossInv, Empty
  <1>8. LoaderInv
    BY <1>1 DEF Init, LoaderInv, Empty
  <1>9. QED
    BY <1>2, <1>3, <1>4, <1>5, <1>6, <1>7, <1>8 DEF IInv

\* One case per action.
LEMMA NextIInv == IInv /\ [Next]_vars => IInv'
  <1> SUFFICES ASSUME IInv, [Next]_vars PROVE IInv'
    OBVIOUS
  <1>1. ASSUME NEW t \in Tasks, NEW prog, Wakeup(t, prog), UNCHANGED loaderVars PROVE IInv'
    BY <1>1, WakeupIInv
  <1>2. ASSUME NEW c \in Cpus, NEW n \in Tasks \cup {Idle}, UNCHANGED loaderVars,
               SwitchUntraced(c, n) \/ Switch(c, n)
        PROVE  IInv'
    BY <1>2, SwitchIInv, SwitchUntracedIInv
  <1>3. ASSUME NEW c \in Cpus, UNCHANGED loaderVars,
               AddSlice(c) \/ MissCounter(c) \/ InsertSlice(c)
        PROVE  IInv'
    BY <1>3, AddSliceIInv, MissCounterIInv, InsertSliceIInv
  <1>4. ASSUME NEW c \in Cpus, UNCHANGED loaderVars,
               \/ NoWait(c) \/ LookupRunq(c) \/ InsertRunq(c) \/ CountWait(c)
               \/ ClearWakeup(c) \/ SetCurrent(c)
        PROVE  IInv'
    BY <1>4, NoWaitIInv, LookupRunqIInv, RunqIInv, ClearWakeupIInv, SetCurrentIInv
  <1>5. CASE Loader
    BY <1>5, AttachIInv, PhaseIInv, ReadRunqIInv, ReadOncpuIInv DEF Loader
  <1>6. CASE UNCHANGED vars
    <2>1. UNCHANGED kernelVars /\ UNCHANGED <<loader, start, seen, fragment, closed>>
      BY <1>6 DEF vars, loaderVars
    <2>2. /\ UNCHANGED <<clock, state, running, wakeup_ts, runq, oncpu_ns, oncpu_cur>>
          /\ UNCHANGED <<pc, now, next, since, ran, charged, lost, woken, stray>>
          /\ PlaceInv' /\ WakeInv' /\ WakeupDatesOneWait' /\ SliceInv'
          /\ AccountInv' /\ LossInv'
      BY <2>1, LoaderKeepsKernel
    <2>3. TypeOK' /\ LoaderInv'
      BY <2>1, <2>2 DEF IInv, TypeOK, LoaderInv, allowed_cg
    <2>4. QED
      BY <2>2, <2>3 DEF IInv
  <1>7. QED
    BY <1>1, <1>2, <1>3, <1>4, <1>5, <1>6 DEF Next, Kernel

\* The inductive invariant holds in every reachable state, whatever the order in
\* which the CPUs' switches, the wakeups and the loader interleave.
THEOREM Invariance == Spec => []IInv
  BY InitIInv, NextIInv, PTL DEF Spec

\* A counter never holds more than its cgroup ran, and holds all of it when no
\* insertion was refused and no CPU is still charging (on_switch, oncpu_ns).
THEOREM OnCpuIsNeverOverstated == Spec => []OnCpuNeverOverstated
  <1>1. IInv => OnCpuNeverOverstated
    <2> SUFFICES ASSUME IInv, NEW g \in Allowed
                 PROVE  /\ Accumulated(g) <= Cardinality(ran[g])
                        /\ lost[g] = 0 /\ Charging(g) = {} => Accumulated(g) = Cardinality(ran[g])
      BY DEF OnCpuNeverOverstated
    <2>1. /\ IsFiniteSet(ran[g]) /\ charged[g] \subseteq ran[g]
          /\ Accumulated(g) = Cardinality(charged[g])
          /\ lost[g] = 0 => \A p \in ran[g] \ charged[g] : \E c \in Charging(g) : p \in Pending(c)
      BY DEF IInv, AccountInv
    <2>2. Cardinality(charged[g]) <= Cardinality(ran[g])
      BY <2>1, FS_Subset
    <2>3. lost[g] = 0 /\ Charging(g) = {} => charged[g] = ran[g]
      BY <2>1
    <2>4. QED
      BY <2>1, <2>2, <2>3
  <1>2. QED
    BY <1>1, Invariance, PTL

\* Once a cgroup has a counter, at most one slice per other CPU was ever lost to
\* the race for its insertion (BPF_NOEXIST, result ignored).
THEOREM LossIsBounded == Spec => []LossBoundedByCpus
  <1>1. IInv => LossBoundedByCpus
    <2> SUFFICES ASSUME IInv, NEW g \in DOMAIN oncpu_ns PROVE lost[g] < Cardinality(Cpus)
      BY DEF LossBoundedByCpus
    <2>1. g \in Allowed /\ lost[g] \in Nat /\ lost[g] + Cardinality(Inserting(g)) < Cardinality(Cpus)
      BY SchedAssumption DEF IInv, TypeOK, LossInv
    <2>2. Inserting(g) \subseteq Cpus
      BY DEF Inserting
    <2>3. Cardinality(Inserting(g)) \in Nat /\ Cardinality(Cpus) \in Nat
      BY <2>2, SchedAssumption, FS_Subset, FS_CardinalityType
    <2>4. QED
      BY <2>1, <2>3
  <1>2. QED
    BY <1>1, Invariance, PTL

\* A wakeup dates at most one wait: once its task was switched in under on_switch the
\* timestamp is gone, stray ones of the attach gap and of tasks on their CPU included
\* (record_wakeup and the deletion in on_switch).
THEOREM WakeupsDateOneWait == Spec => []WakeupDatesOneWait
  <1>1. IInv => WakeupDatesOneWait
    BY DEF IInv
  <1>2. QED
    BY <1>1, Invariance, PTL

\* The fragment has every cgroup that had time when the window closed, with no
\* more time than it ran, although the programs run on while the loader reads.
THEOREM FragmentCoversTheWindow == Spec => []FragmentCoversWindow
  <1>1. IInv => FragmentCoversWindow
    <2> SUFFICES ASSUME IInv, loader = "written"
                 PROVE  /\ closed \subseteq DOMAIN fragment.oncpu
                        /\ \A g \in DOMAIN fragment.oncpu : fragment.oncpu[g] <= Cardinality(ran[g])
                        /\ \A g \in fragment.runq : runq[g] > 0
      BY DEF FragmentCoversWindow
    <2>1. closed \subseteq DOMAIN fragment.oncpu /\ \A g \in fragment.runq : runq[g] > 0
      BY DEF IInv, LoaderInv
    <2>2. ASSUME NEW g \in DOMAIN fragment.oncpu PROVE fragment.oncpu[g] <= Cardinality(ran[g])
      <3>1. /\ g \in Allowed /\ g \in DOMAIN oncpu_ns /\ fragment.oncpu[g] <= oncpu_ns[g]
            /\ fragment.oncpu[g] \in Nat /\ oncpu_ns[g] \in Nat
        BY <2>2 DEF IInv, TypeOK, LoaderInv
      <3>2. /\ IsFiniteSet(ran[g]) /\ charged[g] \subseteq ran[g]
            /\ oncpu_ns[g] = Cardinality(charged[g])
        BY <3>1 DEF IInv, AccountInv, Accumulated
      <3>3. /\ Cardinality(charged[g]) <= Cardinality(ran[g])
            /\ Cardinality(ran[g]) \in Nat
        BY <3>2, FS_Subset, FS_CardinalityType
      <3>4. QED
        BY <3>1, <3>2, <3>3
    <2>3. QED
      BY <2>1, <2>2
  <1>2. QED
    BY <1>1, Invariance, PTL
=============================================================================
