----------------------------- MODULE KvmCapture -----------------------------
(***************************************************************************)
(* The KVM capture gadget: capture/kvm/src/bpf/kvm.bpf.c and its loader     *)
(* capture/kvm/src/main.rs.                                                *)
(*                                                                         *)
(* Every vCPU thread runs the two tracepoint programs on its own CPU, so   *)
(* the programs of different threads interleave between map operations     *)
(* while the loader reads the histograms from userspace.  A histogram is   *)
(* the number of samples in it; which slot a latency falls into is left    *)
(* out.                                                                    *)
(***************************************************************************)
EXTENDS Naturals, FiniteSets

CONSTANTS
    Tids,         \* thread ids vCPU threads may have
    Guests,       \* cgroup ids
    Reasons,      \* exit reasons
    PerGuest,     \* --per-guest
    MaxKeys,      \* --max-keys, which reaches the series' cardinality and no map
    MaxStarts,    \* max_entries of exit_start
    MaxHists,     \* max_entries of hists
    MaxExits,     \* bound: guest exits
    MaxThreads    \* bound: threads ever created

ASSUME KvmAssumption ==
    /\ PerGuest \in BOOLEAN
    /\ MaxKeys \in Nat
    /\ MaxStarts \in Nat \ {0}
    /\ MaxHists \in Nat \ {0}
    /\ MaxExits \in Nat
    /\ MaxThreads \in Nat

VARIABLES
    \* the host
    thread,      \* tid -> [id, guest, mode], for the threads that are alive
    created,     \* threads created so far; a thread's id never comes back
    exits,       \* guest exits so far
    \* the programs
    onExit,      \* handle_kvm_exit is attached
    onEntry,     \* handle_kvm_entry is attached
    exit_start,  \* tid -> [key, by]; `by` is the id of the recording thread
    hists,       \* hist_key -> samples
    pc,          \* tid -> where handle_kvm_entry is on that thread's CPU
    \* the loader
    loader,      \* "load", "window", "read", "done"
    atStart,     \* keys the map held when the readout began
    visited,     \* keys the readout has visited; live_keys is their number
    overflow,    \* capture_meta.cardinality_overflow
    \* history
    pairs,       \* hist_key -> entries that found a recorded exit
    dropped,     \* samples dropped, per key
    droppedInWindow,  \* a sample was dropped before the readout began
    mixed        \* a sample was counted for an exit of another thread

hostVars   == <<thread, created, exits>>
loaderVars == <<loader, atStart, visited, overflow>>
vars == <<hostVars, onExit, onEntry, exit_start, hists, pc, loaderVars,
          pairs, dropped, droppedInWindow, mixed>>

CgroupIds == IF PerGuest THEN Guests ELSE {0}
Keys == CgroupIds \X Reasons
KeyOf(g, r) == <<IF PerGuest THEN g ELSE 0, r>>

Empty == [x \in {} |-> 0]
Put(m, k, v) == [j \in DOMAIN m \cup {k} |-> IF j = k THEN v ELSE m[j]]
Del(m, k) == [j \in DOMAIN m \ {k} |-> m[j]]
HasRoom(m, k, max) == k \in DOMAIN m \/ Cardinality(DOMAIN m) < max

Init ==
    /\ thread = Empty
    /\ created = 0
    /\ exits = 0
    /\ onExit = FALSE
    /\ onEntry = FALSE
    /\ exit_start = Empty
    /\ hists = Empty
    /\ pc = [t \in Tids |-> "idle"]
    /\ loader = "load"
    /\ atStart = {}
    /\ visited = {}
    /\ overflow = FALSE
    /\ pairs = [k \in Keys |-> 0]
    /\ dropped = [k \in Keys |-> 0]
    /\ droppedInWindow = FALSE
    /\ mixed = FALSE
-----------------------------------------------------------------------------
(* vCPU threads.  A thread enters the guest before it ever exits it; one    *)
(* that ends does so in the host, after its last exit.                      *)

ThreadStarts(t, g) ==
    /\ t \notin DOMAIN thread
    /\ created < MaxThreads
    /\ created' = created + 1
    /\ thread' = Put(thread, t, [id |-> created, guest |-> g, mode |-> "host"])
    /\ UNCHANGED <<exits, onExit, onEntry, exit_start, hists, pc, loaderVars,
                   pairs, dropped, droppedInWindow, mixed>>

ThreadEnds(t) ==
    /\ t \in DOMAIN thread
    /\ thread[t].mode = "host"
    /\ pc[t] = "idle"
    /\ thread' = Del(thread, t)
    /\ UNCHANGED <<created, exits, onExit, onEntry, exit_start, hists, pc, loaderVars,
                   pairs, dropped, droppedInWindow, mixed>>

\* handle_kvm_exit: one map update.  In a full map a new tid is not recorded.
Exit(t, r) ==
    /\ t \in DOMAIN thread
    /\ thread[t].mode = "guest"
    /\ exits < MaxExits
    /\ exits' = exits + 1
    /\ thread' = [thread EXCEPT ![t].mode = "host"]
    /\ exit_start' =
          IF onExit /\ HasRoom(exit_start, t, MaxStarts)
          THEN Put(exit_start, t, [key |-> KeyOf(thread[t].guest, r), by |-> thread[t].id])
          ELSE exit_start
    /\ UNCHANGED <<created, onExit, onEntry, hists, pc, loaderVars,
                   pairs, dropped, droppedInWindow, mixed>>

\* An entry with no recorded exit, or with the program not attached.
EnterUnrecorded(t) ==
    /\ t \in DOMAIN thread
    /\ thread[t].mode = "host"
    /\ pc[t] = "idle"
    /\ ~onEntry \/ t \notin DOMAIN exit_start
    /\ thread' = [thread EXCEPT ![t].mode = "guest"]
    /\ UNCHANGED <<created, exits, onExit, onEntry, exit_start, hists, pc, loaderVars,
                   pairs, dropped, droppedInWindow, mixed>>

(* handle_kvm_entry, one step per map operation. *)

Enter(t) ==
    /\ t \in DOMAIN thread
    /\ thread[t].mode = "host"
    /\ pc[t] = "idle"
    /\ onEntry
    /\ t \in DOMAIN exit_start
    /\ pairs' = [pairs EXCEPT ![exit_start[t].key] = @ + 1]
    /\ pc' = [pc EXCEPT ![t] = "lookup"]
    /\ UNCHANGED <<hostVars, onExit, onEntry, exit_start, hists, loaderVars,
                   dropped, droppedInWindow, mixed>>

LookupHist(t) ==
    /\ pc[t] = "lookup"
    /\ pc' = [pc EXCEPT ![t] = IF exit_start[t].key \in DOMAIN hists
                               THEN "count" ELSE "insert"]
    /\ UNCHANGED <<hostVars, onExit, onEntry, exit_start, hists, loaderVars,
                   pairs, dropped, droppedInWindow, mixed>>

\* Mutant: BPF_ANY, which overwrites another CPU's histogram.
InsertHistAny(t) ==
    /\ pc[t] = "insert"
    /\ LET key == exit_start[t].key
       IN hists' = IF HasRoom(hists, key, MaxHists) THEN Put(hists, key, 0) ELSE hists
    /\ pc' = [pc EXCEPT ![t] = "relookup"]
    /\ UNCHANGED <<hostVars, onExit, onEntry, exit_start, loaderVars,
                   pairs, dropped, droppedInWindow, mixed>>

\* BPF_NOEXIST: another CPU's entry is left alone, a full map is left alone.
InsertHist(t) ==
    /\ pc[t] = "insert"
    /\ LET key == exit_start[t].key
       IN hists' = IF key \notin DOMAIN hists /\ HasRoom(hists, key, MaxHists)
                   THEN Put(hists, key, 0) ELSE hists
    /\ pc' = [pc EXCEPT ![t] = "relookup"]
    /\ UNCHANGED <<hostVars, onExit, onEntry, exit_start, loaderVars,
                   pairs, dropped, droppedInWindow, mixed>>

RelookupHist(t) ==
    /\ pc[t] = "relookup"
    /\ exit_start[t].key \in DOMAIN hists
    /\ pc' = [pc EXCEPT ![t] = "count"]
    /\ UNCHANGED <<hostVars, onExit, onEntry, exit_start, hists, loaderVars,
                   pairs, dropped, droppedInWindow, mixed>>

\* The map is full: the sample goes and the state is cleared.
DropSample(t) ==
    /\ pc[t] = "relookup"
    /\ exit_start[t].key \notin DOMAIN hists
    /\ dropped' = [dropped EXCEPT ![exit_start[t].key] = @ + 1]
    /\ droppedInWindow' = (droppedInWindow \/ loader = "window")
    /\ exit_start' = Del(exit_start, t)
    /\ thread' = [thread EXCEPT ![t].mode = "guest"]
    /\ pc' = [pc EXCEPT ![t] = "idle"]
    /\ UNCHANGED <<created, exits, onExit, onEntry, hists, loaderVars, pairs, mixed>>

CountSample(t) ==
    /\ pc[t] = "count"
    /\ hists' = [hists EXCEPT ![exit_start[t].key] = @ + 1]
    /\ mixed' = (mixed \/ exit_start[t].by /= thread[t].id)
    /\ pc' = [pc EXCEPT ![t] = "clear"]
    /\ UNCHANGED <<hostVars, onExit, onEntry, exit_start, loaderVars,
                   pairs, dropped, droppedInWindow>>

ClearStart(t) ==
    /\ pc[t] = "clear"
    /\ exit_start' = Del(exit_start, t)
    /\ thread' = [thread EXCEPT ![t].mode = "guest"]
    /\ pc' = [pc EXCEPT ![t] = "idle"]
    /\ UNCHANGED <<created, exits, onExit, onEntry, hists, loaderVars,
                   pairs, dropped, droppedInWindow, mixed>>
-----------------------------------------------------------------------------
(* The loader: attach both programs in turn, sleep for the window, iterate *)
(* the map with the programs still attached, then exit.                    *)

AttachExit ==
    /\ loader = "load"
    /\ ~onExit
    /\ onExit' = TRUE
    /\ UNCHANGED <<hostVars, onEntry, exit_start, hists, pc, loaderVars,
                   pairs, dropped, droppedInWindow, mixed>>

AttachEntry ==
    /\ loader = "load"
    /\ onExit
    /\ onEntry' = TRUE
    /\ loader' = "window"
    /\ UNCHANGED <<hostVars, onExit, exit_start, hists, pc, atStart, visited, overflow,
                   pairs, dropped, droppedInWindow, mixed>>

EndWindow ==
    /\ loader = "window"
    /\ loader' = "read"
    /\ atStart' = DOMAIN hists
    /\ UNCHANGED <<hostVars, onExit, onEntry, exit_start, hists, pc, visited, overflow,
                   pairs, dropped, droppedInWindow, mixed>>

\* keys() meets every key that was there when it started, and may or may not
\* meet one inserted since; keys are never deleted.
ReadKey(k) ==
    /\ loader = "read"
    /\ k \in DOMAIN hists \ visited
    /\ visited' = visited \cup {k}
    /\ UNCHANGED <<hostVars, onExit, onEntry, exit_start, hists, pc, loader, atStart, overflow,
                   pairs, dropped, droppedInWindow, mixed>>

\* Mutant: a map filled to the brim is not an overflow.
WriteFragmentStrict ==
    /\ loader = "read"
    /\ atStart \subseteq visited
    /\ overflow' = (Cardinality(visited) > MaxHists)
    /\ loader' = "done"
    /\ UNCHANGED <<hostVars, onExit, onEntry, exit_start, hists, pc, atStart, visited,
                   pairs, dropped, droppedInWindow, mixed>>

WriteFragment ==
    /\ loader = "read"
    /\ atStart \subseteq visited
    /\ overflow' = (Cardinality(visited) >= MaxHists)
    /\ loader' = "done"
    /\ UNCHANGED <<hostVars, onExit, onEntry, exit_start, hists, pc, atStart, visited,
                   pairs, dropped, droppedInWindow, mixed>>
-----------------------------------------------------------------------------
EntryNext(t) ==
    \/ Enter(t) \/ LookupHist(t) \/ InsertHist(t) \/ RelookupHist(t)
    \/ DropSample(t) \/ CountSample(t) \/ ClearStart(t)

LoaderNext ==
    \/ AttachExit \/ AttachEntry \/ EndWindow \/ WriteFragment
    \/ \E k \in Keys : ReadKey(k)

Next ==
    \/ \E t \in Tids :
          \/ \E g \in Guests : ThreadStarts(t, g)
          \/ \E r \in Reasons : Exit(t, r)
          \/ ThreadEnds(t) \/ EnterUnrecorded(t) \/ EntryNext(t)
    \/ LoaderNext

Spec == Init /\ [][Next]_vars

-----------------------------------------------------------------------------
Steps == {"idle", "lookup", "insert", "relookup", "count", "clear"}

ThreadRecord == [id : Nat, guest : Guests, mode : {"host", "guest"}]

StartRecord == [key : Keys, by : Nat]

\* Threads, maps, program counters and the loader keep their types.
TypeOK ==
    /\ DOMAIN thread \subseteq Tids
    /\ thread \in [DOMAIN thread -> ThreadRecord]
    /\ created \in Nat
    /\ exits \in Nat
    /\ onExit \in BOOLEAN
    /\ onEntry \in BOOLEAN
    /\ DOMAIN exit_start \subseteq Tids
    /\ exit_start \in [DOMAIN exit_start -> StartRecord]
    /\ DOMAIN hists \subseteq Keys
    /\ hists \in [DOMAIN hists -> Nat]
    /\ pc \in [Tids -> Steps]
    /\ loader \in {"load", "window", "read", "done"}
    /\ atStart \subseteq Keys
    /\ visited \subseteq Keys
    /\ overflow \in BOOLEAN
    /\ pairs \in [Keys -> Nat]
    /\ dropped \in [Keys -> Nat]
    /\ droppedInWindow \in BOOLEAN
    /\ mixed \in BOOLEAN

\* The threads whose handler has taken a sample for k and not yet counted it.
InHand(k) == {t \in Tids : pc[t] \in {"lookup", "insert", "relookup", "count"}
                            /\ exit_start[t].key = k}

Counted(k) == IF k \in DOMAIN hists THEN hists[k] ELSE 0

\* handle_kvm_entry loses and doubles nothing, however the CPUs interleave: every
\* entry that found a recorded exit is in a histogram, was dropped because the
\* map was full, or is still being handled.  Two CPUs that both miss the key
\* and both insert it end up counting in the same histogram.
SamplesConserved ==
    \A k \in Keys : pairs[k] = Counted(k) + dropped[k] + Cardinality(InHand(k))

\* A sample dropped during the window is always reported: drops need a full
\* hists map, which never shrinks, so the readout sees max_entries keys and
\* sets cardinality_overflow.
DropsAreFlagged == loader = "done" /\ droppedInWindow => overflow

(* What makes the two properties above inductive. *)

MapFull == Cardinality(DOMAIN hists) >= MaxHists

\* Inside handle_kvm_entry a thread is alive, in the host, and its exit record
\* stays where it was found; a histogram once looked up stays in the map, and
\* an insert that left the key missing met a full map.
HandlerInv ==
    \A t \in Tids : pc[t] /= "idle" =>
        /\ t \in DOMAIN thread
        /\ thread[t].mode = "host"
        /\ t \in DOMAIN exit_start
        /\ pc[t] = "relookup" => exit_start[t].key \in DOMAIN hists \/ MapFull
        /\ pc[t] \in {"count", "clear"} => exit_start[t].key \in DOMAIN hists

\* A drop in the window leaves its trace in the map the readout starts from.
ReadoutInv ==
    /\ IsFiniteSet(DOMAIN thread)
    /\ IsFiniteSet(DOMAIN hists)
    /\ atStart \cup visited \subseteq DOMAIN hists
    /\ droppedInWindow => MapFull
    /\ droppedInWindow /\ loader \in {"read", "done"} => Cardinality(atStart) >= MaxHists

IInv == TypeOK /\ HandlerInv /\ ReadoutInv /\ SamplesConserved /\ DropsAreFlagged

\* kvm.bpf.c keys the state recorded at exit by thread id: "tids are globally
\* unique, so this disambiguates vCPUs across every guest on the host".  A sample
\* would then never pair one thread's exit with another thread's entry.
SamplesDisambiguated == ~mixed

\* capture/kvm/README.md: "you set the ceiling with `--max-keys`, and if distinct
\* cgroups exceed it the fragment carries `cardinality_overflow: true`".
MaxKeysFlagged ==
    loader = "done" /\ PerGuest /\ Cardinality({k[1] : k \in visited}) > MaxKeys
        => overflow
=============================================================================
