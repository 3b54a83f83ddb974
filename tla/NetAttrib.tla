----------------------------- MODULE NetAttrib -----------------------------
(***************************************************************************)
(* The network-attribution control plane of assayist.                      *)
(*                                                                         *)
(* Two processes share one unix stream socket:                             *)
(*   - the OWNER gadget (capture/netattrib/src/main.rs) creates and pins   *)
(*     the BPF hash map vm_by_ifindex and serves add/state/remove until    *)
(*     its window closes, a signal arrives, or it is killed;               *)
(*   - the orchestrator's AttributionSession                               *)
(*     (crates/orchestrate/src/netattrib.rs): a request/reply client with  *)
(*     a read timeout and a poisoned flag, and the table of handles whose  *)
(*     registration the owner acknowledged.                                *)
(*                                                                         *)
(* A VM is known by the ifindex of its tap; ULIDs, MACs and netns_inum     *)
(* are data no decision depends on and are left out.                       *)
(***************************************************************************)
EXTENDS Naturals, Sequences, FiniteSets

CONSTANTS
    Ifindexes,    \* the interface indexes of the VMs' taps
    MaxVms,       \* --max-vms, the capacity of vm_by_ifindex
    MaxHandles,   \* bound: registrations per session
    MaxCommands,  \* bound: commands one owner window receives
    MaxStarts     \* bound: owner processes launched, failed launches included

ASSUME BoundsAssumption ==
    /\ IsFiniteSet(Ifindexes)
    /\ MaxVms \in Nat
    /\ MaxHandles \in Nat
    /\ MaxCommands \in Nat
    /\ MaxStarts \in Nat

VARIABLES
    \* the owner process and the file system
    owner,      \* "down", "pinned" (map created, socket not bound), "serving"
    pinned,     \* the pin file exists
    vmap,       \* vm_by_ifindex: ifindex -> [vm_id, lifecycle_state]
    stats,      \* the owner's Stats
    starts,     \* owner processes launched so far
    \* the socket
    reqs,       \* command lines the owner has not read yet
    replies,    \* reply lines the client has not read yet
    \* the client
    connected,  \* a ControlClient exists
    poisoned,   \* ControlClient::poisoned
    call,       \* the command whose reply the client is waiting for, or NoCall
    result,     \* outcome of the latest command: "none" while it is running
    next,       \* HandleTable::next
    table,      \* HandleTable::by_handle, as handle -> ifindex
    \* history, read by the properties only
    applied     \* the <<handle, ifindex>> pairs whose add the owner applied

ownerVars  == <<owner, pinned, vmap, stats, starts>>
clientVars == <<connected, poisoned, call, result, next, table>>
vars == <<ownerVars, reqs, replies, clientVars, applied>>

LifecycleStates == {"RUNNING", "PAUSING", "PAUSED", "RESUMING"}

AddCmd(i, h)   == [op |-> "add", ifindex |-> i, handle |-> h]
StateCmd(h, s) == [op |-> "state", handle |-> h, state |-> s]
RemoveCmd(h)   == [op |-> "remove", handle |-> h]
NoCall         == [op |-> "none"]

Command == [op : {"add"}, ifindex : Ifindexes, handle : Nat]
             \cup [op : {"state"}, handle : Nat, state : LifecycleStates]
             \cup [op : {"remove"}, handle : Nat]

\* A reply line carries only ok or err; `of` names the command it answers so
\* that a property can tell a stale answer from the right one.
Reply == [of : Command, ok : BOOLEAN]

VmCtx == [vm_id : Nat, lifecycle_state : LifecycleStates]

ZeroStats == [peak_live |-> 0, final_live |-> 0,
              adds |-> 0, states |-> 0, removes |-> 0, errors |-> 0]

StatsType == [peak_live : Nat, final_live : Nat,
              adds : Nat, states : Nat, removes : Nat, errors : Nat]

(* A map (BPF hash map or BTreeMap) is a function on the keys it holds. *)
Empty       == [x \in {} |-> 0]
Put(m, x, v) == [j \in DOMAIN m \cup {x} |-> IF j = x THEN v ELSE m[j]]
Del(m, x)   == [j \in DOMAIN m \ {x} |-> m[j]]

Init ==
    /\ owner = "down"
    /\ pinned = FALSE
    /\ vmap = Empty
    /\ stats = ZeroStats
    /\ starts = 0
    /\ reqs = <<>>
    /\ replies = <<>>
    /\ connected = FALSE
    /\ poisoned = FALSE
    /\ call = NoCall
    /\ result = "none"
    /\ next = 0
    /\ table = Empty
    /\ applied = {}
-----------------------------------------------------------------------------
(* The owner process.                                                      *)

\* The launch of a run's owner, with the session that will talk to it.  An
\* existing pin is refused: the process exits and nothing else changes.
Launch ==
    /\ owner = "down"
    /\ call = NoCall
    /\ starts < MaxStarts
    /\ starts' = starts + 1

\* Mutant: an existing pin is reused, with whatever its map holds.
ReuseStalePin ==
    /\ Launch
    /\ owner' = "pinned"
    /\ pinned' = TRUE
    /\ stats' = ZeroStats
    /\ reqs' = <<>>
    /\ replies' = <<>>
    /\ connected' = FALSE
    /\ poisoned' = FALSE
    /\ result' = "none"
    /\ next' = 0
    /\ table' = Empty
    /\ applied' = {}
    /\ UNCHANGED <<call, vmap>>

CreateAndPin ==
    /\ Launch
    /\ ~pinned
    /\ owner' = "pinned"
    /\ pinned' = TRUE
    /\ vmap' = Empty
    /\ stats' = ZeroStats
    /\ reqs' = <<>>
    /\ replies' = <<>>
    /\ connected' = FALSE
    /\ poisoned' = FALSE
    /\ result' = "none"
    /\ next' = 0
    /\ table' = Empty
    /\ applied' = {}
    /\ UNCHANGED call

RefuseStalePin ==
    /\ Launch
    /\ pinned
    /\ UNCHANGED <<owner, pinned, vmap, stats, reqs, replies, clientVars, applied>>

Bind ==
    /\ owner = "pinned"
    /\ owner' = "serving"
    /\ UNCHANGED <<pinned, vmap, stats, starts, reqs, replies, clientVars, applied>>

\* A failed bind unpins before the process exits.
BindFails ==
    /\ owner = "pinned"
    /\ owner' = "down"
    /\ pinned' = FALSE
    /\ vmap' = Empty
    /\ UNCHANGED <<stats, starts, reqs, replies, clientVars, applied>>

\* The deadline passes or SIGTERM/SIGINT sets SHUTDOWN: serve returns, the pin
\* and the socket go.  Unread commands die with the socket; replies already
\* written stay readable.
CloseWindow ==
    /\ owner = "serving"
    /\ owner' = "down"
    /\ pinned' = FALSE
    /\ vmap' = Empty
    /\ reqs' = <<>>
    /\ UNCHANGED <<stats, starts, replies, clientVars, applied>>

\* SIGKILL or a crash: no cleanup runs, so the pin keeps the map alive.
Kill ==
    /\ owner \in {"pinned", "serving"}
    /\ owner' = "down"
    /\ reqs' = <<>>
    /\ UNCHANGED <<pinned, vmap, stats, starts, replies, clientVars, applied>>

\* The remedy the stale-pin error asks for: someone removes the pin by hand.
RemoveStalePin ==
    /\ owner = "down"
    /\ pinned
    /\ pinned' = FALSE
    /\ vmap' = Empty
    /\ UNCHANGED <<owner, stats, starts, reqs, replies, clientVars, applied>>

KeysForHandle(h) == {i \in DOMAIN vmap : vmap[i].vm_id = h}

\* Mutant: the occupancy is not refreshed after a command.
CountPeakOnly(counter, live) ==
    [stats EXCEPT ![counter] = @ + 1,
                  !.peak_live = IF live > @ THEN live ELSE @]

\* Stats after a command succeeded and left `live` entries in the map.
Count(counter, live) ==
    [stats EXCEPT ![counter] = @ + 1,
                  !.final_live = live,
                  !.peak_live = IF live > @ THEN live ELSE @]

ApplyAdd(c) ==
    /\ c.op = "add"
    /\ c.ifindex \in DOMAIN vmap \/ Cardinality(DOMAIN vmap) < MaxVms
    /\ vmap' = Put(vmap, c.ifindex,
                   [vm_id |-> c.handle, lifecycle_state |-> "RUNNING"])
    /\ stats' = Count("adds", Cardinality(DOMAIN vmap'))
    /\ applied' = applied \cup {<<c.handle, c.ifindex>>}

ApplyState(c) ==
    /\ c.op = "state"
    /\ \E i \in KeysForHandle(c.handle) :
          vmap' = [vmap EXCEPT ![i].lifecycle_state = c.state]
    /\ stats' = Count("states", Cardinality(DOMAIN vmap))
    /\ UNCHANGED applied

ApplyRemove(c) ==
    /\ c.op = "remove"
    /\ \E i \in KeysForHandle(c.handle) : vmap' = Del(vmap, i)
    /\ stats' = Count("removes", Cardinality(DOMAIN vmap'))
    /\ UNCHANGED applied

\* The map update fails (a new key in a full map) or no entry has the handle.
ApplyFails(c) ==
    /\ \/ /\ c.op = "add"
          /\ c.ifindex \notin DOMAIN vmap
          /\ Cardinality(DOMAIN vmap) >= MaxVms
       \/ /\ c.op \in {"state", "remove"}
          /\ KeysForHandle(c.handle) = {}
    /\ stats' = [stats EXCEPT !.errors = @ + 1]
    /\ UNCHANGED <<vmap, applied>>

\* One pass of the serve loop over a readable peer: read a line, apply it,
\* write one reply line.  A peer that has gone away does not stop the owner
\* from applying what it had sent.
Serve ==
    /\ owner = "serving"
    /\ reqs /= <<>>
    /\ LET c == Head(reqs)
       IN \/ /\ ApplyAdd(c) \/ ApplyState(c) \/ ApplyRemove(c)
             /\ replies' = Append(replies, [of |-> c, ok |-> TRUE])
          \/ /\ ApplyFails(c)
             /\ replies' = Append(replies, [of |-> c, ok |-> FALSE])
    /\ reqs' = Tail(reqs)
    /\ UNCHANGED <<owner, pinned, starts, clientVars>>
-----------------------------------------------------------------------------
(* The client.                                                             *)

Connect ==
    /\ ~connected
    /\ owner = "serving"
    /\ connected' = TRUE
    /\ UNCHANGED <<ownerVars, reqs, replies, poisoned, call, result, next, table, applied>>

Received == stats.adds + stats.states + stats.removes + stats.errors + Len(reqs)

\* ControlClient::command up to the read: refuse on a poisoned channel, poison
\* it when the write fails, otherwise send the line and wait.
Send(c) ==
    \/ /\ poisoned
       /\ result' = "err"
       /\ UNCHANGED <<poisoned, call, reqs>>
    \/ /\ ~poisoned
       /\ owner /= "serving"
       /\ poisoned' = TRUE
       /\ result' = "err"
       /\ UNCHANGED <<call, reqs>>
    \/ /\ ~poisoned
       /\ owner = "serving"
       /\ Received < MaxCommands
       /\ call' = c
       /\ reqs' = Append(reqs, c)
       /\ result' = "none"
       /\ UNCHANGED poisoned

Ready == connected /\ call = NoCall

\* Mutant: reserve hands the handle out and does not advance the counter.
RegisterReusing(i) ==
    /\ Ready
    /\ next < MaxHandles
    /\ Send(AddCmd(i, next))
    /\ UNCHANGED <<ownerVars, replies, connected, next, table, applied>>

\* Mutant: handle and ifindex change places on the command line.
RegisterSwapped(i) ==
    /\ Ready
    /\ next < MaxHandles
    /\ next' = next + 1
    /\ Send(AddCmd(next, i))
    /\ UNCHANGED <<ownerVars, replies, connected, table, applied>>

\* The handle is consumed whatever becomes of the add.
Register(i) ==
    /\ Ready
    /\ next < MaxHandles
    /\ next' = next + 1
    /\ Send(AddCmd(i, next))
    /\ UNCHANGED <<ownerVars, replies, connected, table, applied>>

SetState(h, s) ==
    /\ Ready
    /\ Send(StateCmd(h, s))
    /\ UNCHANGED <<ownerVars, replies, connected, next, table, applied>>

Deregister(h) ==
    /\ Ready
    /\ Send(RemoveCmd(h))
    /\ UNCHANGED <<ownerVars, replies, connected, next, table, applied>>

\* Mutant: provenance is recorded whatever the reply says.
ReadReplyUnchecked ==
    /\ call /= NoCall
    /\ replies /= <<>>
    /\ result' = IF Head(replies).ok THEN "ok" ELSE "err"
    /\ table' = IF call.op = "add" THEN Put(table, call.handle, call.ifindex) ELSE table
    /\ replies' = Tail(replies)
    /\ call' = NoCall
    /\ UNCHANGED <<ownerVars, reqs, connected, poisoned, next, applied>>

\* A reply line arrives in time.  Provenance is recorded for an acknowledged
\* add and for nothing else.
ReadReply ==
    /\ call /= NoCall
    /\ replies /= <<>>
    /\ result' = IF Head(replies).ok THEN "ok" ELSE "err"
    /\ table' = IF call.op = "add" /\ Head(replies).ok
                THEN Put(table, call.handle, call.ifindex)
                ELSE table
    /\ replies' = Tail(replies)
    /\ call' = NoCall
    /\ UNCHANGED <<ownerVars, reqs, connected, poisoned, next, applied>>

\* Mutant: a failed read leaves the channel usable.
ReadFailsUnpoisoned ==
    /\ call /= NoCall
    /\ replies = <<>>
    /\ result' = "err"
    /\ call' = NoCall
    /\ UNCHANGED <<ownerVars, reqs, replies, connected, poisoned, next, table, applied>>

\* Mutant: no read timeout, so only a dead peer ends the wait.
ReadFailsOnReset ==
    /\ call /= NoCall
    /\ replies = <<>>
    /\ owner = "down"
    /\ poisoned' = TRUE
    /\ result' = "err"
    /\ call' = NoCall
    /\ UNCHANGED <<ownerVars, reqs, replies, connected, next, table, applied>>

\* The read fails: five seconds pass without a reply, or the peer reset the
\* connection.
ReadFails ==
    /\ call /= NoCall
    /\ replies = <<>>
    /\ poisoned' = TRUE
    /\ result' = "err"
    /\ call' = NoCall
    /\ UNCHANGED <<ownerVars, reqs, replies, connected, next, table, applied>>

\* End of file is not a read error: the empty line is an unexpected reply and
\* the channel is not poisoned.
ReadEof ==
    /\ call /= NoCall
    /\ replies = <<>>
    /\ owner = "down"
    /\ result' = "err"
    /\ call' = NoCall
    /\ UNCHANGED <<ownerVars, reqs, replies, connected, poisoned, next, table, applied>>
-----------------------------------------------------------------------------
OwnerNext == \/ CreateAndPin \/ RefuseStalePin \/ Bind \/ BindFails
             \/ CloseWindow \/ Kill \/ RemoveStalePin \/ Serve

ReadNext == ReadReply \/ ReadFails \/ ReadEof

ClientNext == \/ Connect
              \/ \E i \in Ifindexes : Register(i)
              \/ \E h \in DOMAIN table, s \in LifecycleStates : SetState(h, s)
              \/ \E h \in DOMAIN table : Deregister(h)
              \/ ReadNext

Next == OwnerNext \/ ClientNext

Spec == Init /\ [][Next]_vars

(* A blocking read with a timeout always returns.  Nothing is assumed of   *)
(* the owner: it may be slow, stuck or dead.                               *)
FairSpec == Spec /\ WF_vars(ReadNext)
-----------------------------------------------------------------------------
\* Every variable of the two processes and of the socket keeps its type.
TypeOK ==
    /\ owner \in {"down", "pinned", "serving"}
    /\ pinned \in BOOLEAN
    /\ DOMAIN vmap \subseteq Ifindexes
    /\ vmap \in [DOMAIN vmap -> VmCtx]
    /\ stats \in StatsType
    /\ starts \in Nat
    /\ reqs \in Seq(Command)
    /\ replies \in Seq(Reply)
    /\ connected \in BOOLEAN
    /\ poisoned \in BOOLEAN
    /\ call \in Command \cup {NoCall}
    /\ result \in {"none", "ok", "err"}
    /\ next \in Nat
    /\ DOMAIN table \subseteq Nat
    /\ table \in [DOMAIN table -> Ifindexes]
    /\ applied \subseteq Nat \X Ifindexes

\* The reply the client is about to take for the answer to its command is the
\* answer to that command, never to an earlier one that timed out: the reason
\* ControlClient::command poisons the channel on any I/O error.
ReplyMatches ==
    call /= NoCall /\ replies /= <<>> => Head(replies).of = call

\* vm_attribution provenance never claims a registration that did not happen:
\* every row of the handle table is an add the owner applied to that ifindex.
ProvenanceSound == \A h \in DOMAIN table : <<h, table[h]>> \in applied

\* No two keys of vm_by_ifindex carry the same handle, so key_for_handle, which
\* stops at the first match, cannot update or delete another VM's entry.
HandleUnique ==
    \A i, j \in DOMAIN vmap : vmap[i].vm_id = vmap[j].vm_id => i = j

\* Whatever a map holds was added by the session that owns it: a new owner
\* never serves entries a killed one left behind its pin (create_and_pin).
NoStaleEntries == \A i \in DOMAIN vmap : <<vmap[i].vm_id, i>> \in applied

\* Stats agree with the map.
OccupancyExact ==
    /\ stats.final_live = Cardinality(DOMAIN vmap)
    /\ stats.final_live <= stats.peak_live
    /\ stats.peak_live <= MaxVms
    /\ stats.removes + stats.final_live <= stats.adds

\* The occupancy the fragment reports is the map's: final_live counts the
\* entries, peak_live bounds them and stays within the capacity, and adds and
\* removes account for every entry that is left.
OccupancyReported == owner = "serving" => OccupancyExact

\* A command the client sent always returns, with or without the owner's help:
\* the read timeout of ControlClient::connect bounds the wait.
CommandReturns == (call /= NoCall) ~> (call = NoCall)

-----------------------------------------------------------------------------
(* The inductive invariant behind ReplyMatches, ProvenanceSound,           *)
(* HandleUnique, NoStaleEntries and the refinement.                        *)

\* At most one command is on the wire, only towards a serving owner, and while the channel is not poisoned
\* the socket holds nothing but the pending command or its answer.
ChannelInv ==
    /\ reqs /= <<>> => reqs = <<Head(reqs)>> /\ owner = "serving"
    /\ call = NoCall /\ ~poisoned => reqs = <<>> /\ replies = <<>>
    /\ call /= NoCall =>
          /\ ~poisoned
          /\ \/ reqs = <<call>> /\ replies = <<>>
             \/ reqs = <<>> /\ replies = <<>>
             \/ reqs = <<>> /\ \E b \in BOOLEAN : replies = <<[of |-> call, ok |-> b]>>

\* A handle is applied for one interface only, and a handle on its way to the
\* owner has not been applied yet.
FreshInv ==
    /\ \A p \in applied : p[1] < next
    /\ \A p, q \in applied : p[1] = q[1] => p = q
    /\ reqs /= <<>> /\ Head(reqs).op = "add" =>
          /\ Head(reqs).handle < next
          /\ \A p \in applied : p[1] /= Head(reqs).handle
    /\ call.op = "add" => call.handle \notin DOMAIN table
    /\ call.op = "add" /\ replies /= <<>> /\ Head(replies).ok =>
          <<call.handle, call.ifindex>> \in applied

IInv == TypeOK /\ ChannelInv /\ FreshInv /\ ProvenanceSound /\ NoStaleEntries

\* OccupancyReported made inductive: it holds from the moment the map is pinned.
OccupancyInv == owner /= "down" => OccupancyExact
-----------------------------------------------------------------------------
(* What the control plane promises the run driver, as a refinement. *)
Registry == INSTANCE AttribRegistry
                WITH Ids <- Ifindexes, issued <- next, added <- applied

\* The session and its owner implement the registry: handles are issued once,
\* accepted at most once, and recorded only after they were accepted.
ImplementsRegistry == Registry!Spec
=============================================================================
