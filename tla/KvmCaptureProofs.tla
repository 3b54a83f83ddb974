-------------------------- MODULE KvmCaptureProofs --------------------------
(* Proofs about the KVM capture gadget (module KvmCapture), for any number of *)
(* threads, guests and exit reasons and any sizes of the two maps.            *)
EXTENDS KvmCapture, FiniteSetTheorems, TLAPS

\* bpf_map_update_elem sets one key and leaves the others.
LEMMA PutFacts ==
    ASSUME NEW m, NEW k, NEW v
    PROVE  /\ DOMAIN Put(m, k, v) = DOMAIN m \cup {k}
           /\ Put(m, k, v)[k] = v
           /\ \A j \in DOMAIN m : j /= k => Put(m, k, v)[j] = m[j]
  BY DEF Put

\* bpf_map_delete_elem removes one key and leaves the others.
LEMMA DelFacts ==
    ASSUME NEW m, NEW k
    PROVE  /\ DOMAIN Del(m, k) = DOMAIN m \ {k}
           /\ \A j \in DOMAIN m : j /= k => Del(m, k)[j] = m[j]
  BY DEF Del

\* Setting or deleting a key keeps a map's type.
LEMMA MapTypes ==
    ASSUME NEW D, NEW R, NEW m, DOMAIN m \subseteq D, m \in [DOMAIN m -> R], NEW k \in D
    PROVE  /\ \A v \in R : /\ DOMAIN Put(m, k, v) \subseteq D
                           /\ Put(m, k, v) \in [DOMAIN Put(m, k, v) -> R]
           /\ DOMAIN Del(m, k) \subseteq D
           /\ Del(m, k) \in [DOMAIN Del(m, k) -> R]
  BY DEF Put, Del

\* Moving one thread between host and guest leaves the other threads alone.
LEMMA ModeFacts ==
    ASSUME thread \in [DOMAIN thread -> ThreadRecord], NEW t \in DOMAIN thread,
           NEW m \in {"host", "guest"}, thread' = [thread EXCEPT ![t].mode = m]
    PROVE  /\ DOMAIN thread' = DOMAIN thread
           /\ thread' \in [DOMAIN thread' -> ThreadRecord]
           /\ \A u \in DOMAIN thread : u /= t => thread'[u] = thread[u]
  <1> DEFINE rec == [thread[t] EXCEPT !.mode = m]
  <1>1. rec \in ThreadRecord
    BY DEF ThreadRecord
  <1>2. thread' = [thread EXCEPT ![t] = rec]
    OBVIOUS
  <1> HIDE DEF rec
  <1>3. QED
    BY <1>1, <1>2

\* The key of an exit is one of the keys the histograms may have.
LEMMA KeyType ==
    ASSUME NEW g \in Guests, NEW r \in Reasons
    PROVE  KeyOf(g, r) \in Keys
  BY DEF KeyOf, Keys, CgroupIds

\* A handler that is under way holds a record with a key of the histograms.
LEMMA HandlerKey ==
    ASSUME TypeOK, HandlerInv, NEW t \in Tids, pc[t] /= "idle"
    PROVE  exit_start[t].key \in Keys /\ exit_start[t] \in StartRecord
  BY DEF TypeOK, HandlerInv, StartRecord

\* Only finitely many handlers can be under way: each runs on a live thread.
LEMMA InHandFinite ==
    ASSUME IInv, NEW k
    PROVE  IsFiniteSet(InHand(k)) /\ Cardinality(InHand(k)) \in Nat
  <1>1. InHand(k) \in SUBSET DOMAIN thread
    BY DEF IInv, HandlerInv, InHand
  <1>2. QED
    BY <1>1, FS_Subset, FS_CardinalityType DEF IInv, ReadoutInv

\* The invariant holds before the programs are loaded.
LEMMA InitIInv == Init => IInv
  <1> SUFFICES ASSUME Init PROVE IInv
    OBVIOUS
  <1> USE DEF Init, Empty
  <1>1. TypeOK
    BY DEF TypeOK, Steps
  <1>2. HandlerInv
    BY DEF HandlerInv
  <1>3. ReadoutInv
    BY FS_EmptySet DEF ReadoutInv
  <1>4. SamplesConserved
    <2> SUFFICES ASSUME NEW k \in Keys
                 PROVE  pairs[k] = Counted(k) + dropped[k] + Cardinality(InHand(k))
      BY DEF SamplesConserved
    <2>1. Cardinality(InHand(k)) = 0
      <3>1. InHand(k) = {}
        BY DEF InHand
      <3>2. QED
        BY <3>1, FS_EmptySet
    <2>2. Counted(k) = 0 /\ pairs[k] = 0 /\ dropped[k] = 0
      BY DEF Counted
    <2>3. QED
      BY <2>1, <2>2
  <1>5. QED
    BY <1>1, <1>2, <1>3, <1>4 DEF IInv, DropsAreFlagged

\* A step that leaves the programs' state and the samples alone keeps both
\* properties' invariants, as long as no live handler's thread moves.
LEMMA SamplesKept ==
    ASSUME IInv, UNCHANGED <<hists, pc, pairs, dropped>>,
           \A t \in Tids : pc[t] /= "idle" => exit_start'[t] = exit_start[t]
    PROVE  SamplesConserved'
  <1>1. ASSUME NEW k PROVE InHand(k)' = InHand(k)
    BY DEF InHand
  <1>2. \A k \in Keys : Counted(k)' = Counted(k)
    BY DEF Counted
  <1>3. QED
    BY <1>1, <1>2 DEF IInv, SamplesConserved

-----------------------------------------------------------------------------
(* vCPU threads. *)

\* A thread that starts disturbs no handler.
LEMMA ThreadStartsIInv ==
    ASSUME IInv, NEW t \in Tids, NEW g \in Guests, ThreadStarts(t, g)
    PROVE  IInv'
  <1> DEFINE rec == [id |-> created, guest |-> g, mode |-> "host"]
  <1>1. /\ t \notin DOMAIN thread
        /\ thread' = Put(thread, t, rec)
        /\ created' = created + 1
        /\ UNCHANGED <<exits, onExit, onEntry, exit_start, hists, pc, loader, atStart,
                       visited, overflow, pairs, dropped, droppedInWindow, mixed>>
    BY DEF ThreadStarts, loaderVars
  <1>2. rec \in ThreadRecord
    BY DEF ThreadRecord, IInv, TypeOK
  <1> HIDE DEF rec
  <1>3. DOMAIN thread' = DOMAIN thread \cup {t} /\ thread' \in [DOMAIN thread' -> ThreadRecord]
    BY <1>1, <1>2, PutFacts, MapTypes DEF IInv, TypeOK
  <1>4. \A u \in DOMAIN thread : thread'[u] = thread[u]
    BY <1>1 DEF Put
  <1>5. TypeOK'
    BY <1>1, <1>3 DEF IInv, TypeOK
  <1>6. HandlerInv'
    BY <1>1, <1>3, <1>4 DEF IInv, HandlerInv, MapFull
  <1>7. ReadoutInv'
    BY <1>1, <1>3, FS_AddElement DEF IInv, ReadoutInv, MapFull
  <1>8. SamplesConserved'
    BY <1>1, SamplesKept
  <1>9. QED
    BY <1>1, <1>5, <1>6, <1>7, <1>8 DEF IInv, DropsAreFlagged

\* Only a thread outside the handler ends.
LEMMA ThreadEndsIInv ==
    ASSUME IInv, NEW t \in Tids, ThreadEnds(t)
    PROVE  IInv'
  <1>1. /\ pc[t] = "idle"
        /\ thread' = Del(thread, t)
        /\ UNCHANGED <<created, exits, onExit, onEntry, exit_start, hists, pc, loader, atStart,
                       visited, overflow, pairs, dropped, droppedInWindow, mixed>>
    BY DEF ThreadEnds, loaderVars
  <1>2. DOMAIN thread' = DOMAIN thread \ {t} /\ thread' \in [DOMAIN thread' -> ThreadRecord]
    BY <1>1, DelFacts, MapTypes DEF IInv, TypeOK
  <1>3. \A u \in DOMAIN thread : u /= t => thread'[u] = thread[u]
    BY <1>1, DelFacts
  <1>4. TypeOK'
    BY <1>1, <1>2 DEF IInv, TypeOK
  <1>5. HandlerInv'
    BY <1>1, <1>2, <1>3 DEF IInv, HandlerInv, MapFull
  <1>6. ReadoutInv'
    BY <1>1, <1>2, FS_RemoveElement DEF IInv, ReadoutInv, MapFull
  <1>7. SamplesConserved'
    BY <1>1, SamplesKept
  <1>8. QED
    BY <1>1, <1>4, <1>5, <1>6, <1>7 DEF IInv, DropsAreFlagged

\* handle_kvm_exit writes only its own thread's record, and no handler of that
\* thread is under way.
LEMMA ExitIInv ==
    ASSUME IInv, NEW t \in Tids, NEW r \in Reasons, Exit(t, r)
    PROVE  IInv'
  <1> DEFINE rec == [key |-> KeyOf(thread[t].guest, r), by |-> thread[t].id]
  <1>1. /\ t \in DOMAIN thread /\ thread[t].mode = "guest"
        /\ exits \in Nat => exits' \in Nat
        /\ UNCHANGED <<created, onExit, onEntry, hists, pc, loader, atStart, visited,
                       overflow, pairs, dropped, droppedInWindow, mixed>>
    BY DEF Exit, loaderVars
  <1>2. exit_start' \in {Put(exit_start, t, rec), exit_start}
    BY DEF Exit
  <1>3. pc[t] = "idle" /\ thread[t] \in ThreadRecord
    BY <1>1 DEF IInv, HandlerInv, TypeOK
  <1>4. rec \in StartRecord
    BY <1>3, KeyType DEF StartRecord, ThreadRecord
  <1> HIDE DEF rec
  <1>5. /\ DOMAIN thread' = DOMAIN thread
        /\ thread' \in [DOMAIN thread' -> ThreadRecord]
        /\ \A u \in DOMAIN thread : u /= t => thread'[u] = thread[u]
    BY ModeFacts, Zenon DEF IInv, TypeOK, Exit
  <1>6. /\ DOMAIN exit_start' \subseteq Tids
        /\ exit_start' \in [DOMAIN exit_start' -> StartRecord]
    <2>1. CASE exit_start' = exit_start
      BY <2>1 DEF IInv, TypeOK
    <2>2. CASE exit_start' = Put(exit_start, t, rec)
      BY <2>2, <1>4, MapTypes DEF IInv, TypeOK
    <2>3. QED
      BY <1>2, <2>1, <2>2
  <1>7. /\ DOMAIN exit_start \subseteq DOMAIN exit_start'
        /\ \A u \in DOMAIN exit_start : u /= t => exit_start'[u] = exit_start[u]
    BY <1>2 DEF Put
  <1>8. TypeOK'
    BY <1>1, <1>5, <1>6 DEF IInv, TypeOK
  <1>9. \A u \in Tids : pc[u] /= "idle" => exit_start'[u] = exit_start[u]
    BY <1>3, <1>7 DEF IInv, HandlerInv
  <1>10. HandlerInv'
    BY <1>1, <1>3, <1>5, <1>7 DEF IInv, HandlerInv, MapFull
  <1>11. ReadoutInv' /\ SamplesConserved'
    BY <1>1, <1>5, <1>9, SamplesKept DEF IInv, ReadoutInv, MapFull
  <1>12. QED
    BY <1>1, <1>8, <1>10, <1>11 DEF IInv, DropsAreFlagged

\* An entry without a recorded exit changes the thread's mode only.
LEMMA EnterUnrecordedIInv ==
    ASSUME IInv, NEW t \in Tids, EnterUnrecorded(t)
    PROVE  IInv'
  <1>1. /\ t \in DOMAIN thread /\ pc[t] = "idle"
        /\ UNCHANGED <<created, exits, onExit, onEntry, exit_start, hists, pc, loader, atStart,
                       visited, overflow, pairs, dropped, droppedInWindow, mixed>>
    BY DEF EnterUnrecorded, loaderVars
  <1>2. /\ DOMAIN thread' = DOMAIN thread
        /\ thread' \in [DOMAIN thread' -> ThreadRecord]
        /\ \A u \in DOMAIN thread : u /= t => thread'[u] = thread[u]
    BY ModeFacts, Zenon DEF IInv, TypeOK, EnterUnrecorded
  <1>3. TypeOK'
    BY <1>1, <1>2 DEF IInv, TypeOK
  <1>4. HandlerInv'
    BY <1>1, <1>2 DEF IInv, HandlerInv, MapFull
  <1>5. ReadoutInv' /\ SamplesConserved'
    BY <1>1, <1>2, SamplesKept DEF IInv, ReadoutInv, MapFull
  <1>6. QED
    BY <1>1, <1>3, <1>4, <1>5 DEF IInv, DropsAreFlagged

-----------------------------------------------------------------------------
(* handle_kvm_entry. *)

\* A step inside the handler that leaves the map alone or adds an empty
\* histogram keeps every sample where it was.
LEMMA StillInHand ==
    ASSUME IInv, NEW t \in Tids, UNCHANGED <<exit_start, pairs, dropped>>,
           pc[t] \in {"lookup", "insert", "relookup"},
           NEW p \in {"insert", "relookup", "count"}, pc' = [pc EXCEPT ![t] = p],
           \A k \in Keys : Counted(k)' = Counted(k)
    PROVE  SamplesConserved'
  <1>1. pc \in [Tids -> Steps]
    BY DEF IInv, TypeOK
  <1>2. ASSUME NEW k \in Keys PROVE InHand(k)' = InHand(k)
    BY <1>1 DEF InHand
  <1>3. QED
    BY <1>2 DEF IInv, SamplesConserved

\* An entry that finds a recorded exit takes one sample in hand.
LEMMA EnterIInv ==
    ASSUME IInv, NEW t \in Tids, Enter(t)
    PROVE  IInv'
  <1>1. /\ t \in DOMAIN thread /\ thread[t].mode = "host" /\ pc[t] = "idle"
        /\ t \in DOMAIN exit_start
        /\ pairs' = [pairs EXCEPT ![exit_start[t].key] = @ + 1]
        /\ pc' = [pc EXCEPT ![t] = "lookup"]
        /\ UNCHANGED <<thread, created, exits, onExit, onEntry, exit_start, hists, loader,
                       atStart, visited, overflow, dropped, droppedInWindow, mixed>>
    BY DEF Enter, hostVars, loaderVars
  <1>2. exit_start[t].key \in Keys
    BY <1>1 DEF IInv, TypeOK, StartRecord
  <1>3. TypeOK'
    <2>1. pairs' \in [Keys -> Nat] /\ pc' \in [Tids -> Steps]
      BY <1>1, <1>2 DEF IInv, TypeOK, Steps
    <2>2. QED
      BY <1>1, <2>1 DEF IInv, TypeOK
  <1>4. HandlerInv' /\ ReadoutInv' /\ DropsAreFlagged'
    BY <1>1 DEF IInv, TypeOK, HandlerInv, ReadoutInv, MapFull, DropsAreFlagged
  <1>5. ASSUME NEW k \in Keys
        PROVE  (pairs[k] = Counted(k) + dropped[k] + Cardinality(InHand(k)))'
    <2>1. Counted(k)' = Counted(k) /\ dropped'[k] = dropped[k]
      BY <1>1 DEF Counted
    <2>2. /\ pairs[k] = Counted(k) + dropped[k] + Cardinality(InHand(k))
          /\ pairs[k] \in Nat /\ dropped[k] \in Nat /\ Counted(k) \in Nat
          /\ IsFiniteSet(InHand(k)) /\ Cardinality(InHand(k)) \in Nat
      BY InHandFinite DEF IInv, SamplesConserved, TypeOK, Counted
    <2>3. CASE exit_start[t].key = k
      <3>1. t \notin InHand(k) /\ InHand(k)' = InHand(k) \cup {t}
        BY <1>1, <2>3 DEF InHand, IInv, TypeOK
      <3>2. Cardinality(InHand(k))' = Cardinality(InHand(k)) + 1
        BY <2>2, <3>1, FS_AddElement
      <3>3. pairs'[k] = pairs[k] + 1
        BY <1>1, <1>2, <2>3 DEF IInv, TypeOK
      <3>4. QED
        BY <2>1, <2>2, <3>2, <3>3
    <2>4. CASE exit_start[t].key /= k
      <3>1. InHand(k)' = InHand(k)
        BY <1>1, <2>4 DEF InHand, IInv, TypeOK
      <3>2. pairs'[k] = pairs[k]
        BY <1>1, <2>4 DEF IInv, TypeOK
      <3>3. QED
        BY <2>1, <2>2, <3>1, <3>2
    <2>5. QED
      BY <2>3, <2>4
  <1>6. SamplesConserved'
    BY <1>5 DEF SamplesConserved
  <1>7. QED
    BY <1>3, <1>4, <1>6 DEF IInv

\* The first lookup decides only where the handler goes on.
LEMMA LookupHistIInv ==
    ASSUME IInv, NEW t \in Tids, LookupHist(t)
    PROVE  IInv'
  <1> DEFINE p == IF exit_start[t].key \in DOMAIN hists THEN "count" ELSE "insert"
  <1>1. /\ pc[t] = "lookup"
        /\ pc' = [pc EXCEPT ![t] = p]
        /\ UNCHANGED <<thread, created, exits, onExit, onEntry, exit_start, hists, loader, atStart,
                       visited, overflow, pairs, dropped, droppedInWindow, mixed>>
    BY DEF LookupHist, hostVars, loaderVars
  <1>2. TypeOK'
    BY <1>1 DEF IInv, TypeOK, Steps
  <1>3. HandlerInv' /\ ReadoutInv' /\ DropsAreFlagged'
    BY <1>1 DEF IInv, TypeOK, HandlerInv, ReadoutInv, MapFull, DropsAreFlagged
  <1>4. \A k \in Keys : Counted(k)' = Counted(k)
    BY <1>1 DEF Counted
  <1>5. p \in {"insert", "relookup", "count"}
    OBVIOUS
  <1>6. SamplesConserved'
    BY <1>1, <1>4, <1>5, StillInHand
  <1>7. QED
    BY <1>2, <1>3, <1>6 DEF IInv

\* BPF_NOEXIST adds an empty histogram, or finds the key there, or finds the map
\* full; it never touches another CPU's counts.
LEMMA InsertHistIInv ==
    ASSUME IInv, NEW t \in Tids, InsertHist(t)
    PROVE  IInv'
  <1> DEFINE key == exit_start[t].key
  <1>1. /\ pc[t] = "insert"
        /\ pc' = [pc EXCEPT ![t] = "relookup"]
        /\ UNCHANGED <<thread, created, exits, onExit, onEntry, exit_start, loader, atStart,
                       visited, overflow, pairs, dropped, droppedInWindow, mixed>>
    BY DEF InsertHist, hostVars, loaderVars
  <1>2. key \in Keys
    BY <1>1, HandlerKey DEF IInv
  <1>3. \/ /\ key \notin DOMAIN hists
           /\ hists' = Put(hists, key, 0)
        \/ hists' = hists /\ (key \in DOMAIN hists \/ ~HasRoom(hists, key, MaxHists))
    BY DEF InsertHist
  <1>4. /\ DOMAIN hists \subseteq DOMAIN hists'
        /\ DOMAIN hists' \subseteq Keys
        /\ hists' \in [DOMAIN hists' -> Nat]
        /\ \A k \in Keys : Counted(k)' = Counted(k)
    BY <1>2, <1>3 DEF Put, Counted, IInv, TypeOK
  <1>5. /\ IsFiniteSet(DOMAIN hists')
        /\ Cardinality(DOMAIN hists) \in Nat
        /\ Cardinality(DOMAIN hists') \in Nat
        /\ Cardinality(DOMAIN hists) <= Cardinality(DOMAIN hists')
    <2>1. IsFiniteSet(DOMAIN hists')
      <3>1. DOMAIN hists' = DOMAIN hists \/ DOMAIN hists' = DOMAIN hists \cup {key}
        BY <1>3 DEF Put
      <3>2. QED
        BY <3>1, FS_AddElement DEF IInv, ReadoutInv
    <2>2. QED
      BY <1>4, <2>1, FS_Subset, FS_CardinalityType
  <1>6. key \in DOMAIN hists' \/ MapFull'
    BY <1>3, <1>5, KvmAssumption DEF Put, HasRoom, MapFull
  <1>7. MapFull => MapFull'
    BY <1>5, KvmAssumption DEF MapFull
  <1>8. TypeOK'
    BY <1>1, <1>4 DEF IInv, TypeOK, Steps
  <1>9. HandlerInv'
    BY <1>1, <1>4, <1>6, <1>7 DEF IInv, TypeOK, HandlerInv
  <1>10. ReadoutInv' /\ DropsAreFlagged'
    BY <1>1, <1>4, <1>5, <1>7 DEF IInv, ReadoutInv, DropsAreFlagged
  <1>11. SamplesConserved'
    BY <1>1, <1>4, StillInHand
  <1>12. QED
    BY <1>8, <1>9, <1>10, <1>11 DEF IInv

\* The second lookup finds the histogram its own or another CPU's insert made.
LEMMA RelookupHistIInv ==
    ASSUME IInv, NEW t \in Tids, RelookupHist(t)
    PROVE  IInv'
  <1>1. /\ pc[t] = "relookup"
        /\ exit_start[t].key \in DOMAIN hists
        /\ pc' = [pc EXCEPT ![t] = "count"]
        /\ UNCHANGED <<thread, created, exits, onExit, onEntry, exit_start, hists, loader, atStart,
                       visited, overflow, pairs, dropped, droppedInWindow, mixed>>
    BY DEF RelookupHist, hostVars, loaderVars
  <1>2. TypeOK'
    BY <1>1 DEF IInv, TypeOK, Steps
  <1>3. HandlerInv' /\ ReadoutInv' /\ DropsAreFlagged'
    BY <1>1 DEF IInv, TypeOK, HandlerInv, ReadoutInv, MapFull, DropsAreFlagged
  <1>4. \A k \in Keys : Counted(k)' = Counted(k)
    BY <1>1 DEF Counted
  <1>5. SamplesConserved'
    BY <1>1, <1>4, StillInHand
  <1>6. QED
    BY <1>2, <1>3, <1>5 DEF IInv

\* A sample that leaves the hand of its handler and is counted or dropped once
\* balances the books.
LEMMA LeavesHand ==
    ASSUME IInv, NEW t \in Tids, pc[t] \in {"relookup", "count"},
           NEW p \in {"clear", "idle"}, pc' = [pc EXCEPT ![t] = p],
           \A u \in Tids : u /= t /\ pc[u] /= "idle" => exit_start'[u] = exit_start[u],
           UNCHANGED pairs,
           \A k \in Keys :
              /\ Counted(k)' \in Nat /\ dropped'[k] \in Nat
              /\ Counted(k)' + dropped'[k] =
                    Counted(k) + dropped[k] + (IF exit_start[t].key = k THEN 1 ELSE 0)
    PROVE  SamplesConserved'
  <1>1. ASSUME NEW k \in Keys
        PROVE  (pairs[k] = Counted(k) + dropped[k] + Cardinality(InHand(k)))'
    <2>1. /\ pairs[k] = Counted(k) + dropped[k] + Cardinality(InHand(k))
          /\ pairs[k] \in Nat /\ dropped[k] \in Nat /\ Counted(k) \in Nat
          /\ IsFiniteSet(InHand(k)) /\ Cardinality(InHand(k)) \in Nat
      BY InHandFinite DEF IInv, SamplesConserved, TypeOK, Counted
    <2>2. InHand(k)' = InHand(k) \ {t}
      BY DEF InHand, IInv, TypeOK
    <2>3. CASE exit_start[t].key = k
      <3>1. t \in InHand(k)
        BY <2>3 DEF InHand
      <3>2. Cardinality(InHand(k))' = Cardinality(InHand(k)) - 1
        BY <2>1, <2>2, <3>1, FS_RemoveElement
      <3>3. QED
        BY <2>1, <2>3, <3>2
    <2>4. CASE exit_start[t].key /= k
      <3>1. t \notin InHand(k)
        BY <2>4 DEF InHand
      <3>2. Cardinality(InHand(k))' = Cardinality(InHand(k))
        BY <2>1, <2>2, <3>1, FS_RemoveElement
      <3>3. QED
        BY <2>1, <2>4, <3>2
    <2>5. QED
      BY <2>3, <2>4
  <1>2. QED
    BY <1>1 DEF SamplesConserved

\* Returning from the handler deletes the thread's own record and nobody else's.
LEMMA LeaveHandler ==
    ASSUME IInv, NEW t \in Tids, pc[t] /= "idle",
           thread' = [thread EXCEPT ![t].mode = "guest"],
           exit_start' = Del(exit_start, t), pc' = [pc EXCEPT ![t] = "idle"],
           UNCHANGED <<created, exits, onExit, onEntry, hists, loader, atStart, visited,
                       overflow, pairs, mixed>>,
           dropped' \in [Keys -> Nat], droppedInWindow' \in BOOLEAN
    PROVE  TypeOK' /\ HandlerInv'
           /\ DOMAIN thread' = DOMAIN thread
           /\ \A u \in Tids : u /= t /\ pc[u] /= "idle" => exit_start'[u] = exit_start[u]
  <1>1. t \in DOMAIN thread
    BY DEF IInv, HandlerInv
  <1>2. /\ DOMAIN thread' = DOMAIN thread
        /\ thread' \in [DOMAIN thread' -> ThreadRecord]
        /\ \A u \in DOMAIN thread : u /= t => thread'[u] = thread[u]
    BY <1>1, ModeFacts, Zenon DEF IInv, TypeOK
  <1>3. /\ DOMAIN exit_start' = DOMAIN exit_start \ {t}
        /\ exit_start' \in [DOMAIN exit_start' -> StartRecord]
        /\ \A u \in DOMAIN exit_start : u /= t => exit_start'[u] = exit_start[u]
    BY DEF Del, IInv, TypeOK
  <1>4. TypeOK'
    BY <1>2, <1>3 DEF IInv, TypeOK, Steps
  <1>5. HandlerInv'
    <2> SUFFICES ASSUME NEW u \in Tids, pc'[u] /= "idle"
                 PROVE  /\ u \in DOMAIN thread' /\ thread'[u].mode = "host"
                        /\ u \in DOMAIN exit_start'
                        /\ pc'[u] = "relookup" => exit_start'[u].key \in DOMAIN hists' \/ MapFull'
                        /\ pc'[u] \in {"count", "clear"} => exit_start'[u].key \in DOMAIN hists'
      BY DEF HandlerInv
    <2>1. u /= t /\ pc'[u] = pc[u]
      BY DEF IInv, TypeOK
    <2>2. MapFull' = MapFull
      BY DEF MapFull
    <2>3. QED
      BY <1>2, <1>3, <2>1, <2>2 DEF IInv, HandlerInv
  <1>6. QED
    BY <1>2, <1>3, <1>4, <1>5 DEF IInv, HandlerInv

\* A drop needs a full map, is counted as one, and is noted if the window is open.
LEMMA DropSampleIInv ==
    ASSUME IInv, NEW t \in Tids, DropSample(t)
    PROVE  IInv'
  <1> DEFINE key == exit_start[t].key
  <1>1. /\ pc[t] = "relookup" /\ key \notin DOMAIN hists
        /\ dropped' = [dropped EXCEPT ![key] = @ + 1]
        /\ droppedInWindow' = (droppedInWindow \/ loader = "window")
        /\ exit_start' = Del(exit_start, t)
        /\ pc' = [pc EXCEPT ![t] = "idle"]
        /\ UNCHANGED <<created, exits, onExit, onEntry, hists, loader, atStart, visited,
                       overflow, pairs, mixed>>
    BY DEF DropSample, loaderVars
  <1>2. thread' = [thread EXCEPT ![t].mode = "guest"]
    BY DEF DropSample
  <1>3. key \in Keys
    BY <1>1, HandlerKey DEF IInv
  <1>4. dropped' \in [Keys -> Nat]
    BY <1>1, <1>3 DEF IInv, TypeOK
  <1>5. /\ TypeOK' /\ HandlerInv' /\ DOMAIN thread' = DOMAIN thread
        /\ \A u \in Tids : u /= t /\ pc[u] /= "idle" => exit_start'[u] = exit_start[u]
    BY <1>1, <1>2, <1>4, LeaveHandler, Zenon DEF IInv, TypeOK
  <1>6. MapFull
    BY <1>1 DEF IInv, HandlerInv
  <1>7. ReadoutInv' /\ DropsAreFlagged'
    BY <1>1, <1>5, <1>6 DEF IInv, ReadoutInv, MapFull, DropsAreFlagged
  <1>8. ASSUME NEW k \in Keys
        PROVE  /\ Counted(k)' \in Nat /\ dropped'[k] \in Nat
               /\ Counted(k)' + dropped'[k] =
                     Counted(k) + dropped[k] + (IF key = k THEN 1 ELSE 0)
    BY <1>1, <1>3 DEF IInv, TypeOK, Counted
  <1>9. SamplesConserved'
    BY <1>1, <1>5, <1>8, LeavesHand
  <1>10. QED
    BY <1>5, <1>7, <1>9 DEF IInv

\* The atomic add moves the sample from the hand into the histogram.
LEMMA CountSampleIInv ==
    ASSUME IInv, NEW t \in Tids, CountSample(t)
    PROVE  IInv'
  <1> DEFINE key == exit_start[t].key
  <1>1. /\ pc[t] = "count"
        /\ hists' = [hists EXCEPT ![key] = @ + 1]
        /\ pc' = [pc EXCEPT ![t] = "clear"]
        /\ mixed' \in BOOLEAN
        /\ UNCHANGED <<thread, created, exits, onExit, onEntry, exit_start, loader, atStart,
                       visited, overflow, pairs, dropped, droppedInWindow>>
    BY DEF CountSample, hostVars, loaderVars, IInv, TypeOK
  <1>2. key \in DOMAIN hists
    BY <1>1 DEF IInv, HandlerInv
  <1>3. DOMAIN hists' = DOMAIN hists /\ hists' \in [DOMAIN hists' -> Nat]
    BY <1>1, <1>2 DEF IInv, TypeOK
  <1>4. TypeOK'
    BY <1>1, <1>3 DEF IInv, TypeOK, Steps
  <1>5. HandlerInv' /\ ReadoutInv' /\ DropsAreFlagged'
    BY <1>1, <1>3 DEF IInv, TypeOK, HandlerInv, ReadoutInv, MapFull, DropsAreFlagged
  <1>6. ASSUME NEW k \in Keys
        PROVE  /\ Counted(k)' \in Nat /\ dropped'[k] \in Nat
               /\ Counted(k)' + dropped'[k] =
                     Counted(k) + dropped[k] + (IF key = k THEN 1 ELSE 0)
    BY <1>1, <1>2, <1>3 DEF IInv, TypeOK, Counted
  <1>7. SamplesConserved'
    BY <1>1, <1>6, LeavesHand
  <1>8. QED
    BY <1>4, <1>5, <1>7 DEF IInv

\* Clearing the record after counting changes no count.
LEMMA ClearStartIInv ==
    ASSUME IInv, NEW t \in Tids, ClearStart(t)
    PROVE  IInv'
  <1>1. /\ pc[t] = "clear"
        /\ exit_start' = Del(exit_start, t)
        /\ pc' = [pc EXCEPT ![t] = "idle"]
        /\ UNCHANGED <<created, exits, onExit, onEntry, hists, loader, atStart, visited,
                       overflow, pairs, dropped, droppedInWindow, mixed>>
    BY DEF ClearStart, loaderVars
  <1>2. thread' = [thread EXCEPT ![t].mode = "guest"]
    BY DEF ClearStart
  <1>3. dropped' \in [Keys -> Nat] /\ droppedInWindow' \in BOOLEAN
    BY <1>1 DEF IInv, TypeOK
  <1>4. /\ TypeOK' /\ HandlerInv' /\ DOMAIN thread' = DOMAIN thread
        /\ \A u \in Tids : u /= t /\ pc[u] /= "idle" => exit_start'[u] = exit_start[u]
    BY <1>1, <1>2, <1>3, LeaveHandler, Zenon
  <1>5. ReadoutInv' /\ DropsAreFlagged'
    BY <1>1, <1>4 DEF IInv, ReadoutInv, MapFull, DropsAreFlagged
  <1>6. ASSUME NEW k \in Keys PROVE InHand(k)' = InHand(k) /\ Counted(k)' = Counted(k)
    BY <1>1, <1>4 DEF InHand, Counted, IInv, TypeOK
  <1>7. SamplesConserved'
    BY <1>1, <1>6 DEF IInv, SamplesConserved
  <1>8. QED
    BY <1>4, <1>5, <1>7 DEF IInv

-----------------------------------------------------------------------------
(* The loader. *)

\* Attaching, ending the window, reading a key and writing the fragment: the
\* fragment is written only after every key present at the window's end was met.
LEMMA LoaderIInv ==
    ASSUME IInv, LoaderNext
    PROVE  IInv'
  <1> USE DEF IInv, hostVars, loaderVars
  <1>1. CASE AttachExit
    BY <1>1, SamplesKept DEF AttachExit, TypeOK, HandlerInv, ReadoutInv, MapFull, DropsAreFlagged
  <1>2. CASE AttachEntry
    BY <1>2, SamplesKept DEF AttachEntry, TypeOK, HandlerInv, ReadoutInv, MapFull, DropsAreFlagged
  <1>3. CASE EndWindow
    BY <1>3, SamplesKept DEF EndWindow, TypeOK, HandlerInv, ReadoutInv, MapFull, DropsAreFlagged
  <1>4. CASE WriteFragment
    <2>1. TypeOK' /\ HandlerInv' /\ ReadoutInv' /\ SamplesConserved'
      BY <1>4, SamplesKept DEF WriteFragment, TypeOK, HandlerInv, ReadoutInv, MapFull
    <2>2. ASSUME droppedInWindow PROVE overflow'
      <3>1. visited \in SUBSET DOMAIN hists /\ atStart \in SUBSET visited
        BY <1>4 DEF WriteFragment, ReadoutInv
      <3> HIDE DEF IInv
      <3>2. IsFiniteSet(visited)
        BY <3>1, FS_Subset DEF IInv, ReadoutInv
      <3>3. /\ Cardinality(visited) \in Nat /\ Cardinality(atStart) \in Nat
            /\ Cardinality(atStart) <= Cardinality(visited)
        BY <3>1, <3>2, FS_Subset, FS_CardinalityType
      <3>4. Cardinality(atStart) >= MaxHists
        BY <1>4, <2>2 DEF IInv, WriteFragment, ReadoutInv
      <3>5. Cardinality(visited) >= MaxHists
        BY <3>3, <3>4, KvmAssumption
      <3>6. QED
        BY <1>4, <3>5, Zenon DEF WriteFragment
    <2>3. QED
      BY <1>4, <2>1, <2>2 DEF WriteFragment, DropsAreFlagged
  <1>5. CASE \E k \in Keys : ReadKey(k)
    BY <1>5, SamplesKept DEF ReadKey, TypeOK, HandlerInv, ReadoutInv, MapFull, DropsAreFlagged
  <1>6. QED
    BY <1>1, <1>2, <1>3, <1>4, <1>5 DEF LoaderNext

\* Every step of the gadget, its threads and its loader keeps the invariant.
LEMMA NextIInv == IInv /\ [Next]_vars => IInv'
  <1> SUFFICES ASSUME IInv, [Next]_vars PROVE IInv'
    OBVIOUS
  <1>1. CASE UNCHANGED vars
    BY <1>1, SamplesKept DEF IInv, vars, hostVars, loaderVars, TypeOK, HandlerInv, ReadoutInv,
          MapFull, DropsAreFlagged
  <1>2. ASSUME NEW t \in Tids, EntryNext(t) PROVE IInv'
    BY <1>2, EnterIInv, LookupHistIInv, InsertHistIInv, RelookupHistIInv, DropSampleIInv,
       CountSampleIInv, ClearStartIInv DEF EntryNext
  <1>3. ASSUME NEW t \in Tids, NEW g \in Guests, ThreadStarts(t, g) PROVE IInv'
    BY <1>3, ThreadStartsIInv
  <1>4. ASSUME NEW t \in Tids, NEW r \in Reasons, Exit(t, r) PROVE IInv'
    BY <1>4, ExitIInv
  <1>5. ASSUME NEW t \in Tids, ThreadEnds(t) \/ EnterUnrecorded(t) PROVE IInv'
    BY <1>5, ThreadEndsIInv, EnterUnrecordedIInv
  <1>6. QED
    BY <1>1, <1>2, <1>3, <1>4, <1>5, LoaderIInv DEF Next

\* The inductive invariant holds in every behaviour.
THEOREM Invariance == Spec => []IInv
  BY InitIInv, NextIInv, PTL DEF Spec

\* handle_kvm_entry loses and doubles no sample, however many CPUs race on one
\* histogram and whatever the sizes of the maps.
THEOREM SamplesAreConserved == Spec => []SamplesConserved
  <1>1. IInv => SamplesConserved
    BY DEF IInv
  <1>2. QED
    BY <1>1, Invariance, PTL

\* A sample dropped in the window always shows as cardinality_overflow.
THEOREM EveryDropIsFlagged == Spec => []DropsAreFlagged
  <1>1. IInv => DropsAreFlagged
    BY DEF IInv
  <1>2. QED
    BY <1>1, Invariance, PTL
=============================================================================
