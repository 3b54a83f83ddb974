---------------------------- MODULE BlockCapture ----------------------------
(***************************************************************************)
(* The block gadget: capture/block/src/bpf/block.bpf.c and its loader      *)
(* capture/block/src/main.rs.                                              *)
(*                                                                         *)
(* A request is known to the programs only by its device and sector.       *)
(* Completions run on the CPU that takes the interrupt, so two handlers    *)
(* interleave between map operations, with issues on other CPUs and with   *)
(* the loader's readout.  `inflight` is preallocated: a lookup returns a   *)
(* pointer to an element, and the element of a deleted or replaced entry   *)
(* may be given to another request while a handler still reads it.  Which  *)
(* slot a latency falls into is module MetricPath's.                       *)
(***************************************************************************)
EXTENDS Naturals, FiniteSets

CONSTANTS
    MaxReqs,      \* bound: requests, numbered in the order of their first issue
    Bytes,        \* request -> its bytes
    Writes,       \* the requests whose rwbs does not start with R
    Devs, Sectors,
    CPUs,
    Elements,     \* of inflight: one per entry and, for replacements, one per CPU
    MaxInflight,  \* max_entries of inflight
    MaxStats,     \* max_entries of stats
    MaxRequeues,  \* bound: requests issued again
    None

Reqs == 1 .. MaxReqs

ASSUME BlockAssumption ==
    /\ MaxReqs \in Nat \ {0} /\ Writes \subseteq Reqs
    /\ Bytes \in [Reqs -> Nat]
    /\ MaxInflight \in Nat \ {0}
    /\ IsFiniteSet(CPUs)
    /\ IsFiniteSet(Elements) /\ Cardinality(Elements) = MaxInflight + Cardinality(CPUs)
    /\ MaxStats \in Nat \ {0}
    /\ MaxRequeues \in Nat
    /\ None \notin Devs \X Sectors

VARIABLES
    \* the host
    req,       \* request -> [state, key]
    requeues,  \* requests issued again so far
    \* the programs
    onIssue, onComplete,   \* attached
    inflight,  \* rq_key -> element
    elem,      \* element -> the request whose rq_start it holds, or None
    stats,     \* blk_key -> [count, bytes]
    cpu,       \* what handle_complete is doing on each CPU
    \* the loader
    loader,    \* "load", "window", "read", "done"
    left,      \* keys of the readout not read yet
    series,    \* blk_key -> [count, bytes], the fragment
    \* history
    found,     \* blk_key -> completions that found their key in inflight
    dropped,   \* blk_key -> samples dropped because stats was full
    atEnd,     \* stats when the window closed
    collided,  \* two requests shared a key while one was in flight
    strayed,   \* an entry may be left behind: a request changed its sector, or
               \* completed while only the issue program was attached
    wrong      \* samples that took their time or bytes from another request

hostVars == <<req, requeues>>
progVars == <<onIssue, onComplete, inflight, elem, stats, cpu>>
loaderVars == <<loader, left, series>>
history == <<found, dropped, atEnd, collided, strayed, wrong>>
vars == <<hostVars, progVars, loaderVars, history>>

Keys == Devs \X Sectors
StatKeys == Devs \X BOOLEAN
Idle == [pc |-> "idle"]
Empty == [x \in {} |-> None]
Put(m, k, v) == [j \in DOMAIN m \cup {k} |-> IF j = k THEN v ELSE m[j]]
Del(m, k) == [j \in DOMAIN m \ {k} |-> m[j]]
Free == Elements \ {inflight[k] : k \in DOMAIN inflight}
Zero == [count |-> 0, bytes |-> 0]

Init ==
    /\ req = [r \in Reqs |-> [state |-> "new", key |-> None]]
    /\ requeues = 0
    /\ onIssue = FALSE
    /\ onComplete = FALSE
    /\ inflight = Empty
    /\ elem = [e \in Elements |-> None]
    /\ stats = Empty
    /\ cpu = [c \in CPUs |-> Idle]
    /\ loader = "load"
    /\ left = {}
    /\ series = Empty
    /\ found = [k \in StatKeys |-> 0]
    /\ dropped = [k \in StatKeys |-> 0]
    /\ atEnd = Empty
    /\ collided = FALSE
    /\ strayed = FALSE
    /\ wrong = {}
-----------------------------------------------------------------------------
(* handle_issue: one map update with BPF_ANY *)

\* Requests the driver holds: issued, or completed with the handler still running.
Held(r) ==
    \/ req[r].state = "issued"
    \/ \E c \in CPUs : cpu[c].pc /= "idle" /\ cpu[c].rq = r
HeldAt(k) == {r \in Reqs : Held(r) /\ req[r].key = k}

\* Mutant: BPF_NOEXIST keeps the first issue of a key.
RecordStartOnce(k, r) ==
    IF onIssue /\ k \notin DOMAIN inflight /\ Cardinality(DOMAIN inflight) < MaxInflight
    THEN \E e \in Free : inflight' = Put(inflight, k, e) /\ elem' = [elem EXCEPT ![e] = r]
    ELSE UNCHANGED <<inflight, elem>>

\* An existing key is replaced even in a full map; a new one then is not recorded.
RecordStart(k, r) ==
    IF onIssue /\ (k \in DOMAIN inflight \/ Cardinality(DOMAIN inflight) < MaxInflight)
    THEN \E e \in Free : inflight' = Put(inflight, k, e) /\ elem' = [elem EXCEPT ![e] = r]
    ELSE UNCHANGED <<inflight, elem>>

\* The programs and their maps go with the loader.
Running == loader /= "done"

IssueTo(r, k) ==
    /\ Running
    /\ req' = [req EXCEPT ![r] = [state |-> "issued", key |-> k]]
    /\ RecordStart(k, r)
    /\ collided' = (collided \/ HeldAt(k) \ {r} /= {})
    /\ strayed' = (strayed \/ req[r].key \notin {None, k})
    /\ UNCHANGED <<onIssue, onComplete, stats, cpu, loaderVars, found, dropped, atEnd, wrong>>

Issue(r, k) ==
    /\ req[r].state = "new"
    /\ \A earlier \in 1 .. r - 1 : req[earlier].state /= "new"
    /\ IssueTo(r, k)
    /\ UNCHANGED requeues

\* A requeued request is issued again, at another sector if it was merged.
Reissue(r, k) ==
    /\ req[r].state = "issued"
    /\ requeues < MaxRequeues
    /\ requeues' = requeues + 1
    /\ IssueTo(r, k)
-----------------------------------------------------------------------------
(* handle_complete, one step per map operation or read of an element *)

CompleteUnmatched(r) ==
    /\ Running
    /\ req[r].state = "issued"
    /\ ~onComplete \/ req[r].key \notin DOMAIN inflight
    /\ req' = [req EXCEPT ![r].state = "done"]
    /\ strayed' = (strayed \/ (onIssue /\ ~onComplete))
    /\ UNCHANGED <<requeues, progVars, loaderVars, found, dropped, atEnd, collided, wrong>>

\* s = bpf_map_lookup_elem(&inflight, &k)
Complete(c, r) ==
    /\ Running
    /\ req[r].state = "issued"
    /\ onComplete
    /\ cpu[c] = Idle
    /\ req[r].key \in DOMAIN inflight
    /\ req' = [req EXCEPT ![r].state = "done"]
    /\ cpu' = [cpu EXCEPT ![c] = [pc |-> "start", rq |-> r, s |-> inflight[req[r].key],
                                  bk |-> None]]
    /\ UNCHANGED <<requeues, onIssue, onComplete, inflight, elem, stats, loaderVars, history>>

Key(c) == req[cpu[c].rq].key
Goto(c, p) == cpu' = [cpu EXCEPT ![c].pc = p]

\* delta and bk.is_write, both from the element.
ReadStart(c) ==
    LET from == elem[cpu[c].s]
        bk == <<Key(c)[1], from \in Writes>>
    IN /\ cpu[c].pc = "start"
       /\ cpu' = [cpu EXCEPT ![c].pc = "lookup", ![c].bk = bk]
       /\ found' = [found EXCEPT ![bk] = @ + 1]
       /\ wrong' = IF from = cpu[c].rq THEN wrong ELSE wrong \cup {"start"}
       /\ UNCHANGED <<hostVars, onIssue, onComplete, inflight, elem, stats, loaderVars,
                      dropped, atEnd, collided, strayed>>

LookupStat(c) ==
    /\ cpu[c].pc = "lookup"
    /\ Goto(c, IF cpu[c].bk \in DOMAIN stats THEN "count" ELSE "insert")
    /\ UNCHANGED <<hostVars, onIssue, onComplete, inflight, elem, stats, loaderVars, history>>

\* BPF_NOEXIST, from the zeroed scratch entry, which is always there.
InsertStat(c) ==
    /\ cpu[c].pc = "insert"
    /\ stats' = IF cpu[c].bk \notin DOMAIN stats /\ Cardinality(DOMAIN stats) < MaxStats
                THEN Put(stats, cpu[c].bk, Zero) ELSE stats
    /\ Goto(c, "relookup")
    /\ UNCHANGED <<hostVars, onIssue, onComplete, inflight, elem, loaderVars, history>>

RelookupStat(c) ==
    /\ cpu[c].pc = "relookup"
    /\ cpu[c].bk \in DOMAIN stats
    /\ Goto(c, "count")
    /\ UNCHANGED <<hostVars, onIssue, onComplete, inflight, elem, stats, loaderVars, history>>

\* Mutant: the early return leaves the in-flight entry.
DropSampleOnly(c) ==
    /\ cpu[c].pc = "relookup"
    /\ cpu[c].bk \notin DOMAIN stats
    /\ dropped' = [dropped EXCEPT ![cpu[c].bk] = @ + 1]
    /\ cpu' = [cpu EXCEPT ![c] = Idle]
    /\ UNCHANGED <<hostVars, onIssue, onComplete, inflight, elem, stats, loaderVars,
                   found, atEnd, collided, strayed, wrong>>

\* stats is full: the sample goes, the in-flight entry too.
DropSample(c) ==
    /\ cpu[c].pc = "relookup"
    /\ cpu[c].bk \notin DOMAIN stats
    /\ dropped' = [dropped EXCEPT ![cpu[c].bk] = @ + 1]
    /\ inflight' = Del(inflight, Key(c))
    /\ cpu' = [cpu EXCEPT ![c] = Idle]
    /\ UNCHANGED <<hostVars, onIssue, onComplete, elem, stats, loaderVars,
                   found, atEnd, collided, strayed, wrong>>

CountSlot(c) ==
    /\ cpu[c].pc = "count"
    /\ stats' = [stats EXCEPT ![cpu[c].bk].count = @ + 1]
    /\ Goto(c, "bytes")
    /\ UNCHANGED <<hostVars, onIssue, onComplete, inflight, elem, loaderVars, history>>

\* s->bytes is read here, long after the lookup.
AddBytes(c) ==
    LET from == elem[cpu[c].s]
    IN /\ cpu[c].pc = "bytes"
       /\ stats' = [stats EXCEPT ![cpu[c].bk].bytes = @ + Bytes[from]]
       /\ wrong' = IF from = cpu[c].rq THEN wrong ELSE wrong \cup {"bytes"}
       /\ Goto(c, "delete")
       /\ UNCHANGED <<hostVars, onIssue, onComplete, inflight, elem, loaderVars,
                      found, dropped, atEnd, collided, strayed>>

\* By key: whatever entry is there now.
DeleteStart(c) ==
    /\ cpu[c].pc = "delete"
    /\ inflight' = Del(inflight, Key(c))
    /\ cpu' = [cpu EXCEPT ![c] = Idle]
    /\ UNCHANGED <<hostVars, onIssue, onComplete, elem, stats, loaderVars, history>>
-----------------------------------------------------------------------------
(* The loader *)

AttachIssue ==
    /\ loader = "load"
    /\ onIssue' = TRUE
    /\ ~onIssue
    /\ UNCHANGED <<hostVars, onComplete, inflight, elem, stats, cpu, loaderVars, history>>

AttachComplete ==
    /\ loader = "load"
    /\ onIssue
    /\ onComplete' = TRUE
    /\ loader' = "window"
    /\ UNCHANGED <<hostVars, onIssue, inflight, elem, stats, cpu, left, series, history>>

\* The programs stay attached during the readout; keys() meets the keys that
\* are there when it starts.
EndWindow ==
    /\ loader = "window"
    /\ loader' = "read"
    /\ left' = DOMAIN stats
    /\ atEnd' = stats
    /\ UNCHANGED <<hostVars, progVars, series, found, dropped, collided, strayed, wrong>>

\* The lookup copies the entry while the programs go on adding to it: the slots
\* first, then the byte counter behind them.  No sample yet: the key is skipped.
ReadSlots(k) ==
    /\ loader = "read"
    /\ k \in left \ DOMAIN series
    /\ IF stats[k].count = 0
       THEN left' = left \ {k} /\ UNCHANGED series
       ELSE series' = Put(series, k, [count |-> stats[k].count, bytes |-> 0]) /\ UNCHANGED left
    /\ UNCHANGED <<hostVars, progVars, loader, history>>

\* Mutant: an entry without bytes is skipped, and with it flushes.
ReadBytesIfAny(k) ==
    /\ loader = "read"
    /\ k \in left \cap DOMAIN series
    /\ left' = left \ {k}
    /\ series' = IF stats[k].bytes = 0 THEN Del(series, k)
                 ELSE [series EXCEPT ![k].bytes = stats[k].bytes]
    /\ UNCHANGED <<hostVars, progVars, loader, history>>

ReadBytes(k) ==
    /\ loader = "read"
    /\ k \in left \cap DOMAIN series
    /\ left' = left \ {k}
    /\ series' = [series EXCEPT ![k].bytes = stats[k].bytes]
    /\ UNCHANGED <<hostVars, progVars, loader, history>>

WriteFragment ==
    /\ loader = "read"
    /\ left = {}
    /\ loader' = "done"
    /\ UNCHANGED <<hostVars, progVars, left, series, history>>
-----------------------------------------------------------------------------
CompleteNext(c) ==
    /\ Running
    /\ \/ ReadStart(c) \/ LookupStat(c) \/ InsertStat(c) \/ RelookupStat(c)
       \/ DropSample(c) \/ CountSlot(c) \/ AddBytes(c) \/ DeleteStart(c)

Next ==
    \/ \E r \in Reqs : (\E k \in Keys : Issue(r, k) \/ Reissue(r, k)) \/ CompleteUnmatched(r)
    \/ \E c \in CPUs : (\E r \in Reqs : Complete(c, r)) \/ CompleteNext(c)
    \/ AttachIssue \/ AttachComplete \/ EndWindow \/ WriteFragment
    \/ \E k \in StatKeys : ReadSlots(k) \/ ReadBytes(k)

Spec == Init /\ [][Next]_vars
-----------------------------------------------------------------------------
Steps == {"idle", "start", "lookup", "insert", "relookup", "count", "bytes", "delete"}
Stat == [count : Nat, bytes : Nat]
Handler == [pc : Steps \ {"idle"}, rq : Reqs, s : Elements, bk : StatKeys \cup {None}]

\* Requests, maps, handlers and the fragment keep their types.
TypeOK ==
    /\ req \in [Reqs -> [state : {"new", "issued", "done"}, key : Keys \cup {None}]]
    /\ requeues \in 0 .. MaxRequeues
    /\ onIssue \in BOOLEAN /\ onComplete \in BOOLEAN
    /\ collided \in BOOLEAN /\ strayed \in BOOLEAN
    /\ inflight \in [DOMAIN inflight -> Elements] /\ DOMAIN inflight \subseteq Keys
    /\ elem \in [Elements -> Reqs \cup {None}]
    /\ stats \in [DOMAIN stats -> Stat] /\ DOMAIN stats \subseteq StatKeys
    /\ cpu \in [CPUs -> Handler \cup {Idle}]
    /\ loader \in {"load", "window", "read", "done"}
    /\ left \subseteq StatKeys
    /\ series \in [DOMAIN series -> Stat] /\ DOMAIN series \subseteq StatKeys
    /\ found \in [StatKeys -> Nat] /\ dropped \in [StatKeys -> Nat]
    /\ atEnd \in [DOMAIN atEnd -> Stat]
    /\ wrong \subseteq {"start", "bytes"}

InHand(k) == {c \in CPUs : cpu[c].pc \in {"lookup", "insert", "relookup", "count"}
                            /\ cpu[c].bk = k}

\* Without a collision the approximation of matching by device and sector is
\* exact: every sample has the start and the bytes of the request that completed,
\* whatever requeues, merges, half-attached programs and full maps come before,
\* and no sample is lost between the CPUs (handle_issue, handle_complete).
ExactWithoutCollision ==
    /\ ~collided => wrong = {}
    /\ \A k \in StatKeys :
          LET counted == IF k \in DOMAIN stats THEN stats[k].count ELSE 0
          IN found[k] = counted + dropped[k] + Cardinality(InHand(k))

\* The in-flight map does not leak: unless requests moved or collided, each of
\* its entries belongs to a request the driver still holds at that key, so its
\* capacity bounds outstanding requests and not requests ever seen.
EntriesAreOutstanding ==
    ~collided /\ ~strayed =>
        \A k \in DOMAIN inflight : elem[inflight[k]] \in HeldAt(k)

\* The fragment has every device and direction that had a sample when the window
\* closed, with at least the samples and bytes it had then (the loader's loop).
FragmentCovers ==
    loader = "done" =>
        \A k \in DOMAIN atEnd :
            atEnd[k].count > 0 => /\ k \in DOMAIN series
                                  /\ series[k].count >= atEnd[k].count
                                  /\ series[k].bytes >= atEnd[k].bytes
-----------------------------------------------------------------------------
(* What makes the three properties above inductive. *)

Busy(c) == cpu[c].pc /= "idle"

\* A handler runs for a request that is done, and for no other handler's.
HostInv ==
    /\ \A r \in Reqs : req[r].state /= "new" => req[r].key \in Keys
    /\ \A c \in CPUs : Busy(c) => req[cpu[c].rq].state = "done"
    /\ \A c, d \in CPUs : Busy(c) /\ Busy(d) /\ cpu[c].rq = cpu[d].rq => c = d

\* A handler past the element has its key, and the statistics it found stay.
HandlerInv ==
    \A c \in CPUs :
        /\ Busy(c) /\ cpu[c].pc /= "start" => cpu[c].bk \in StatKeys
        /\ cpu[c].pc \in {"count", "bytes"} => cpu[c].bk \in DOMAIN stats

\* An element is behind one key at most, and once used always holds some request.
ElementInv ==
    /\ ~onIssue => DOMAIN inflight = {}
    /\ \A k, l \in DOMAIN inflight : inflight[k] = inflight[l] => k = l
    /\ \A k \in DOMAIN inflight : elem[inflight[k]] \in Reqs
    /\ \A c \in CPUs : Busy(c) => elem[cpu[c].s] \in Reqs

\* Without a collision a key stands for one request, from its issue to the end of
\* its handler, whose pointer then stays that of the key's entry.
MatchInv ==
    ~collided =>
        /\ \A r, q \in Reqs : Held(r) /\ Held(q) /\ req[r].key = req[q].key => r = q
        /\ \A r \in Reqs : req[r].state = "issued" /\ req[r].key \in DOMAIN inflight =>
              elem[inflight[req[r].key]] = r
        /\ \A c \in CPUs : Busy(c) => /\ Key(c) \in DOMAIN inflight
                                       /\ inflight[Key(c)] = cpu[c].s
                                       /\ elem[cpu[c].s] = cpu[c].rq

\* Counters only grow, so what is read covers the window's end; a key left out
\* had no sample then either.
ReadInv ==
    /\ loader \in {"load", "window"} => DOMAIN atEnd = {} /\ left = {} /\ DOMAIN series = {}
    /\ loader = "done" => left = {}
    /\ left \subseteq DOMAIN atEnd /\ DOMAIN atEnd \subseteq DOMAIN stats
    /\ \A k \in DOMAIN atEnd :
          /\ stats[k].count >= atEnd[k].count /\ stats[k].bytes >= atEnd[k].bytes
          /\ k \in DOMAIN series => series[k].count >= atEnd[k].count
          /\ k \notin left /\ atEnd[k].count > 0 =>
                k \in DOMAIN series /\ series[k].bytes >= atEnd[k].bytes

IInv == /\ TypeOK /\ HostInv /\ HandlerInv /\ ElementInv /\ MatchInv
        /\ ExactWithoutCollision /\ EntriesAreOutstanding /\ ReadInv
-----------------------------------------------------------------------------
(* Statements of the repository that the code does not live up to. *)

\* block.h: collisions "are rare and acceptable for a latency histogram"; the
\* README: two identical requests "collapse".  Their samples would still be
\* requests of that device and direction, with their own bytes.
CollisionsOnlyCollapse == wrong = {}
=============================================================================
