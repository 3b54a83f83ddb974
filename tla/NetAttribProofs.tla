-------------------------- MODULE NetAttribProofs --------------------------
(* Proofs about the attribution control plane (module NetAttrib). *)
EXTENDS NetAttrib, FiniteSetTheorems, TLAPS

\* What the provers need of one-element channels: commands and replies pass
\* through sequences that hold at most one line.
LEMMA Singleton ==
    ASSUME NEW S, NEW c \in S
    PROVE  /\ <<c>> \in Seq(S)
           /\ <<c>> /= <<>>
           /\ Head(<<c>>) = c
           /\ Tail(<<c>>) = <<>>
           /\ Append(<<>>, c) = <<c>>
  OBVIOUS

\* A command is not the absent command, and its fields are what its verb says.
LEMMA CommandFields ==
    ASSUME NEW c \in Command
    PROVE  /\ c /= NoCall
           /\ c.op \in {"add", "state", "remove"}
           /\ c.handle \in Nat
           /\ c.op = "add" => c.ifindex \in Ifindexes
           /\ c.op = "state" => c.state \in LifecycleStates
  <1>1. c.op \in {"add", "state", "remove"} /\ NoCall.op = "none"
    BY DEF Command, NoCall
  <1>2. QED
    BY <1>1 DEF Command

-----------------------------------------------------------------------------
(* The invariant holds initially and is kept by every step. *)

\* The invariant holds when nothing has been launched and nothing sent.
LEMMA InitIInv == Init => IInv
  <1> SUFFICES ASSUME Init PROVE IInv
    OBVIOUS
  <1> USE DEF Init, Empty
  <1>1. TypeOK
    <2>1. vmap \in [DOMAIN vmap -> VmCtx] /\ table \in [DOMAIN table -> Ifindexes]
      OBVIOUS
    <2>2. DOMAIN vmap \subseteq Ifindexes /\ DOMAIN table \subseteq Nat
      OBVIOUS
    <2>3. stats \in StatsType
      BY DEF ZeroStats, StatsType
    <2>4. reqs \in Seq(Command) /\ replies \in Seq(Reply)
      OBVIOUS
    <2>5. QED
      BY <2>1, <2>2, <2>3, <2>4 DEF TypeOK
  <1>2. ChannelInv
    BY DEF ChannelInv
  <1>3. FreshInv
    BY DEF FreshInv, NoCall
  <1>4. ProvenanceSound /\ NoStaleEntries
    BY DEF ProvenanceSound, NoStaleEntries
  <1>5. QED
    BY <1>1, <1>2, <1>3, <1>4 DEF IInv

\* Counting a command keeps Stats well typed.
LEMMA CountType ==
    ASSUME stats \in StatsType, NEW live \in Nat,
           NEW counter \in {"adds", "states", "removes"}
    PROVE  Count(counter, live) \in StatsType
  <1> DEFINE counted == [stats EXCEPT ![counter] = @ + 1]
             final   == [counted EXCEPT !.final_live = live]
             peak    == IF live > final.peak_live THEN live ELSE final.peak_live
  <1>1. counted \in StatsType
    <2>1. CASE counter = "adds"
      BY <2>1 DEF StatsType
    <2>2. CASE counter = "states"
      BY <2>2 DEF StatsType
    <2>3. CASE counter = "removes"
      BY <2>3 DEF StatsType
    <2>4. QED
      BY <2>1, <2>2, <2>3
  <1>2. final \in StatsType
    BY <1>1 DEF StatsType
  <1>3. peak \in Nat
    BY <1>2 DEF StatsType
  <1>4. [final EXCEPT !.peak_live = peak] \in StatsType
    BY <1>2, <1>3 DEF StatsType
  <1>5. QED
    BY <1>4 DEF Count

\* Handles in the table and in the log of applied adds were issued earlier.
LEMMA HandlesIssued ==
    ASSUME IInv
    PROVE  /\ \A p \in applied : p[1] \in Nat /\ p[1] < next
           /\ \A h \in DOMAIN table : h \in Nat /\ h < next
  <1>1. \A p \in applied : p[1] \in Nat /\ p[1] < next
    BY DEF IInv, TypeOK, FreshInv
  <1>2. ASSUME NEW h \in DOMAIN table
        PROVE  h \in Nat /\ h < next
    <2>1. <<h, table[h]>> \in applied
      BY <1>2 DEF IInv, ProvenanceSound
    <2>2. <<h, table[h]>>[1] = h
      OBVIOUS
    <2>3. QED
      BY <1>1, <2>1, <2>2
  <1>3. QED
    BY <1>1, <1>2

\* A larger handle counter disturbs no freshness fact.
LEMMA FreshKept ==
    ASSUME IInv, UNCHANGED <<reqs, call, replies, table, applied>>,
           next' \in Nat, next <= next'
    PROVE  FreshInv'
  <1>1. next \in Nat /\ \A p \in applied' : p[1] < next'
    BY HandlesIssued DEF IInv, TypeOK
  <1>2. reqs /= <<>> /\ Head(reqs).op = "add" => Head(reqs).handle < next'
    <2>1. SUFFICES ASSUME reqs /= <<>>, Head(reqs).op = "add"
                   PROVE  Head(reqs).handle < next'
      OBVIOUS
    <2>2. Head(reqs) \in Command
      BY <2>1 DEF IInv, TypeOK
    <2>3. Head(reqs).handle \in Nat
      BY <2>2, CommandFields
    <2>4. QED
      BY <1>1, <2>1, <2>3 DEF IInv, FreshInv
  <1>3. QED
    BY <1>1, <1>2 DEF IInv, FreshInv

\* What the client sends: nothing, or one command on an idle channel.
LEMMA SendIInv ==
    ASSUME IInv, Ready, NEW c \in Command, Send(c),
           UNCHANGED <<ownerVars, replies, connected, table, applied>>,
           next' \in Nat, next <= next',
           c.op = "add" => c.handle = next /\ next' = next + 1
    PROVE  IInv'
  <1> USE DEF IInv, Ready, Send, ownerVars
  <1>0. c /= NoCall /\ c.op \in {"add", "state", "remove"} /\ c.handle \in Nat
    BY CommandFields
  <1>T. /\ UNCHANGED <<owner, pinned, vmap, stats, starts, replies, connected, table, applied>>
        /\ next' \in Nat
    OBVIOUS
  <1>1. CASE poisoned
    <2>1. /\ UNCHANGED <<poisoned, call, reqs, replies, table, applied>>
          /\ result' = "err"
      BY <1>1
    <2>2. TypeOK'
      BY <1>T, <2>1, Zenon DEF TypeOK
    <2>3. ChannelInv'
      BY <2>1 DEF ChannelInv
    <2>4. FreshInv'
      BY <2>1, FreshKept
    <2>5. QED
      BY <2>1, <2>2, <2>3, <2>4 DEF ProvenanceSound, NoStaleEntries
  <1>2. CASE ~poisoned /\ owner /= "serving"
    <2>1. /\ UNCHANGED <<call, reqs, replies, table, applied>>
          /\ result' = "err" /\ poisoned' = TRUE
      BY <1>2
    <2>2. TypeOK'
      BY <1>T, <2>1, Zenon DEF TypeOK
    <2>3. ChannelInv'
      BY <2>1 DEF ChannelInv
    <2>4. FreshInv'
      BY <2>1, FreshKept
    <2>5. QED
      BY <2>1, <2>2, <2>3, <2>4 DEF ProvenanceSound, NoStaleEntries
  <1>3. CASE ~poisoned /\ owner = "serving"
    <2>1. /\ UNCHANGED <<poisoned, replies, table, applied>>
          /\ reqs' = Append(reqs, c) /\ call' = c /\ result' = "none"
      BY <1>3
    <2>2. reqs = <<>> /\ replies = <<>>
      BY <1>3 DEF ChannelInv
    <2>3. /\ reqs' = <<c>> /\ Head(reqs') = c /\ reqs' /= <<>>
          /\ reqs' \in Seq(Command)
      BY <2>1, <2>2, Singleton
    <2>4. TypeOK'
      BY <1>T, <2>1, <2>3, Zenon DEF TypeOK
    <2>5. ChannelInv'
      BY <1>0, <1>3, <2>1, <2>2, <2>3 DEF ChannelInv
    <2>6. c.op = "add" => c.handle \notin DOMAIN table
      BY HandlesIssued
    <2>7. FreshInv'
      <3>1. \A p \in applied' : p[1] < next'
        BY <2>1, HandlesIssued DEF TypeOK
      <3>2. c.op = "add" => c.handle < next' /\ \A p \in applied : p[1] /= c.handle
        BY HandlesIssued DEF TypeOK
      <3>3. QED
        BY <2>1, <2>2, <2>3, <2>6, <3>1, <3>2 DEF FreshInv
    <2>8. QED
      BY <2>1, <2>4, <2>5, <2>7 DEF ProvenanceSound, NoStaleEntries
  <1>4. QED
    BY <1>1, <1>2, <1>3

\* Registering consumes a handle and sends an add, or is refused
\* (AttributionSession::register).
LEMMA RegisterIInv ==
    ASSUME IInv, NEW i \in Ifindexes, Register(i)
    PROVE  IInv'
  <1>1. next \in Nat /\ next' = next + 1
    BY DEF IInv, TypeOK, Register
  <1>2. AddCmd(i, next) \in Command /\ AddCmd(i, next).handle = next
    BY <1>1 DEF Command, AddCmd
  <1>3. QED
    BY <1>1, <1>2, SendIInv DEF Register

\* A state command leaves handles and provenance alone
\* (AttributionSession::set_state).
LEMMA SetStateIInv ==
    ASSUME IInv, NEW h \in DOMAIN table, NEW s \in LifecycleStates, SetState(h, s)
    PROVE  IInv'
  <1>1. next \in Nat /\ next' = next
    BY DEF IInv, TypeOK, SetState
  <1>2. StateCmd(h, s) \in Command /\ StateCmd(h, s).op /= "add"
    BY DEF Command, StateCmd, IInv, TypeOK
  <1>3. QED
    BY <1>1, <1>2, SendIInv DEF SetState

\* A remove command leaves handles and provenance alone
\* (AttributionSession::deregister).
LEMMA DeregisterIInv ==
    ASSUME IInv, NEW h \in DOMAIN table, Deregister(h)
    PROVE  IInv'
  <1>1. next \in Nat /\ next' = next
    BY DEF IInv, TypeOK, Deregister
  <1>2. RemoveCmd(h) \in Command /\ RemoveCmd(h).op /= "add"
    BY DEF Command, RemoveCmd, IInv, TypeOK
  <1>3. QED
    BY <1>1, <1>2, SendIInv DEF Deregister

\* The reply read is the answer to the pending command, and there is no other.
LEMMA ReplyOfCall ==
    ASSUME IInv, call /= NoCall, replies /= <<>>
    PROVE  /\ call \in Command
           /\ reqs = <<>> /\ ~poisoned
           /\ Head(replies) \in Reply
           /\ Head(replies).of = call
           /\ Tail(replies) = <<>>
  <1>1. call \in Command
    BY DEF IInv, TypeOK
  <1>2. PICK b \in BOOLEAN : /\ replies = <<[of |-> call, ok |-> b]>>
                             /\ reqs = <<>> /\ ~poisoned
    BY DEF IInv, ChannelInv
  <1>3. [of |-> call, ok |-> b] \in Reply
    BY <1>1 DEF Reply
  <1>4. QED
    BY <1>1, <1>2, <1>3, Singleton

\* Reading the reply records provenance for an acknowledged add and for nothing
\* else (ControlClient::command, AttributionSession::register).
LEMMA ReadReplyIInv ==
    ASSUME IInv, ReadReply
    PROVE  IInv'
  <1>1. /\ call \in Command /\ reqs = <<>> /\ ~poisoned
        /\ Head(replies).of = call /\ replies' = <<>>
    BY ReplyOfCall DEF ReadReply
  <1>2. /\ UNCHANGED <<owner, pinned, vmap, stats, starts, reqs, connected, poisoned, next, applied>>
        /\ call' = NoCall /\ result' \in {"none", "ok", "err"}
    BY DEF ReadReply, ownerVars
  <1>3. /\ DOMAIN table' \subseteq Nat
        /\ table' \in [DOMAIN table' -> Ifindexes]
        /\ \A h \in DOMAIN table' : <<h, table'[h]>> \in applied
    <2>1. CASE call.op = "add" /\ Head(replies).ok
      <3>1. table' = Put(table, call.handle, call.ifindex)
        BY <2>1 DEF ReadReply
      <3>2. call.handle \in Nat /\ call.ifindex \in Ifindexes
        BY <1>1, <2>1, CommandFields
      <3>3. <<call.handle, call.ifindex>> \in applied
        BY <2>1 DEF ReadReply, IInv, FreshInv
      <3>4. DOMAIN table \subseteq Nat /\ table \in [DOMAIN table -> Ifindexes]
        BY DEF IInv, TypeOK
      <3>5. /\ DOMAIN table' \subseteq Nat
            /\ DOMAIN table' = DOMAIN table \cup {call.handle}
            /\ table' \in [DOMAIN table' -> Ifindexes]
            /\ table'[call.handle] = call.ifindex
            /\ \A j \in DOMAIN table : j /= call.handle => table'[j] = table[j]
        BY <3>1, <3>2, <3>4 DEF Put
      <3>6. ASSUME NEW h \in DOMAIN table'
            PROVE  <<h, table'[h]>> \in applied
        <4>1. CASE h = call.handle
          BY <3>3, <3>5, <4>1
        <4>2. CASE h /= call.handle
          <5>1. h \in DOMAIN table /\ table'[h] = table[h]
            BY <3>5, <3>6, <4>2
          <5>2. QED
            BY <5>1 DEF IInv, ProvenanceSound
        <4>3. QED
          BY <4>1, <4>2
      <3>7. QED
        BY <3>5, <3>6
    <2>2. CASE ~(call.op = "add" /\ Head(replies).ok)
      <3>1. table' = table
        BY <2>2 DEF ReadReply
      <3>2. QED
        BY <3>1 DEF IInv, TypeOK, ProvenanceSound
    <2>3. QED
      BY <2>1, <2>2
  <1>4. replies' \in Seq(Reply)
    BY <1>1
  <1>5. TypeOK'
    BY <1>2, <1>3, <1>4, Zenon DEF IInv, TypeOK
  <1>6. ChannelInv'
    BY <1>1, <1>2 DEF ChannelInv
  <1>7. FreshInv'
    <2>1. NoCall.op /= "add"
      BY DEF NoCall
    <2>2. QED
      BY <1>1, <1>2, <2>1 DEF IInv, FreshInv
  <1>8. ProvenanceSound' /\ NoStaleEntries'
    BY <1>2, <1>3 DEF IInv, ProvenanceSound, NoStaleEntries
  <1>9. QED
    BY <1>5, <1>6, <1>7, <1>8 DEF IInv

\* A read that fails or meets the end of the stream leaves no reply behind.
LEMMA ReadErrorIInv ==
    ASSUME IInv, ReadFails \/ ReadEof
    PROVE  IInv'
  <1>1. /\ UNCHANGED <<owner, pinned, vmap, stats, starts, reqs, replies, connected, next, table, applied>>
        /\ call /= NoCall /\ replies = <<>>
        /\ call' = NoCall /\ result' = "err"
    BY DEF ReadFails, ReadEof, ownerVars
  <1>2. \/ poisoned' = TRUE
        \/ poisoned' = poisoned /\ owner = "down"
    BY DEF ReadFails, ReadEof
  <1>3. poisoned' \in BOOLEAN
    BY <1>2 DEF IInv, TypeOK
  <1>4. TypeOK'
    BY <1>1, <1>3, Zenon DEF IInv, TypeOK
  <1>5. ChannelInv'
    BY <1>1, <1>2 DEF IInv, ChannelInv
  <1>6. FreshInv'
    <2>1. NoCall.op /= "add"
      BY DEF NoCall
    <2>2. QED
      BY <1>1, <2>1 DEF IInv, FreshInv
  <1>7. QED
    BY <1>1, <1>4, <1>5, <1>6 DEF IInv, ProvenanceSound, NoStaleEntries

\* A connection carries nothing yet (ControlClient::connect).
LEMMA ConnectIInv ==
    ASSUME IInv, Connect
    PROVE  IInv'
  <1>1. /\ UNCHANGED <<owner, pinned, vmap, stats, starts, reqs, replies,
                       poisoned, call, result, next, table, applied>>
        /\ connected' = TRUE
    BY DEF Connect, ownerVars
  <1>2. TypeOK'
    BY <1>1, Zenon DEF IInv, TypeOK
  <1>3. QED
    BY <1>1, <1>2 DEF IInv, ChannelInv, FreshInv, ProvenanceSound, NoStaleEntries

\* Owner steps that end the process: commands in flight are lost, and the map
\* is either what it was (kept by its pin) or gone.
LEMMA OwnerDownIInv ==
    ASSUME IInv, owner' = "down", pinned' \in BOOLEAN,
           vmap' = vmap \/ vmap' = Empty, reqs' = <<>>, starts' \in Nat,
           UNCHANGED <<stats, replies, clientVars, applied>>
    PROVE  IInv'
  <1>1. UNCHANGED <<connected, poisoned, call, result, next, table>>
    BY DEF clientVars
  <1>2. /\ DOMAIN vmap' \subseteq DOMAIN vmap
        /\ \A i \in DOMAIN vmap' : vmap'[i] = vmap[i]
        /\ DOMAIN vmap' \subseteq Ifindexes
        /\ vmap' \in [DOMAIN vmap' -> VmCtx]
    BY DEF Empty, IInv, TypeOK
  <1>3. reqs' \in Seq(Command)
    OBVIOUS
  <1>4. TypeOK'
    BY <1>1, <1>2, <1>3, Zenon DEF IInv, TypeOK
  <1>5. ChannelInv'
    BY <1>1 DEF IInv, ChannelInv
  <1>6. FreshInv'
    BY <1>1 DEF IInv, FreshInv
  <1>7. ProvenanceSound' /\ NoStaleEntries'
    BY <1>1, <1>2 DEF IInv, ProvenanceSound, NoStaleEntries
  <1>8. QED
    BY <1>4, <1>5, <1>6, <1>7 DEF IInv

\* A new owner starts from an empty map and a new session (create_and_pin).
LEMMA CreateAndPinIInv ==
    ASSUME IInv, CreateAndPin
    PROVE  IInv'
  <1> USE DEF CreateAndPin, Launch
  <1>1. call = NoCall /\ call' = NoCall
    OBVIOUS
  <1>2. TypeOK'
    <2>1. /\ DOMAIN vmap' \subseteq Ifindexes /\ vmap' \in [DOMAIN vmap' -> VmCtx]
          /\ DOMAIN table' \subseteq Nat /\ table' \in [DOMAIN table' -> Ifindexes]
      BY DEF Empty
    <2>2. stats' \in StatsType
      BY DEF ZeroStats, StatsType
    <2>3. reqs' \in Seq(Command) /\ replies' \in Seq(Reply)
      OBVIOUS
    <2>4. starts' \in Nat /\ next' \in Nat
      BY DEF IInv, TypeOK
    <2>5. QED
      BY <1>1, <2>1, <2>2, <2>3, <2>4 DEF TypeOK
  <1>3. ChannelInv'
    BY <1>1 DEF ChannelInv
  <1>4. FreshInv'
    BY <1>1 DEF FreshInv, NoCall
  <1>5. ProvenanceSound' /\ NoStaleEntries'
    BY DEF ProvenanceSound, NoStaleEntries, Empty
  <1>6. QED
    BY <1>2, <1>3, <1>4, <1>5 DEF IInv

\* Owner steps that touch neither the map nor the socket.
LEMMA OwnerIdleIInv ==
    ASSUME IInv, owner' \in {"down", "pinned", "serving"}, owner' = owner \/ owner = "pinned",
           starts' \in Nat, owner = "pinned" => owner' = "serving",
           UNCHANGED <<pinned, vmap, stats, reqs, replies, clientVars, applied>>
    PROVE  IInv'
  <1>1. UNCHANGED <<connected, poisoned, call, result, next, table>>
    BY DEF clientVars
  <1>2. TypeOK'
    BY <1>1, Zenon DEF IInv, TypeOK
  <1>3. ChannelInv'
    BY <1>1 DEF IInv, ChannelInv
  <1>4. QED
    BY <1>1, <1>2, <1>3 DEF IInv, FreshInv, ProvenanceSound, NoStaleEntries

\* One served command, applied or refused: the map changes only by an add of a
\* fresh handle or on the entry of the handle named.
LEMMA ServeIInv ==
    ASSUME IInv, Serve
    PROVE  IInv'
  <1> DEFINE c == Head(reqs)
  <1>1. /\ owner = "serving" /\ reqs /= <<>> /\ reqs = <<c>>
        /\ c \in Command /\ reqs' = <<>>
    <2>1. owner = "serving" /\ reqs /= <<>> /\ reqs = <<c>> /\ c \in Command
      BY DEF Serve, IInv, ChannelInv, TypeOK
    <2>2. Tail(<<c>>) = <<>>
      BY <2>1, Singleton
    <2>3. QED
      BY <2>1, <2>2 DEF Serve
  <1>2. UNCHANGED <<owner, pinned, starts, connected, poisoned, call, result, next, table>>
    BY DEF Serve, clientVars
  <1>3. \/ ApplyAdd(c) \/ ApplyState(c) \/ ApplyRemove(c)
        \/ ApplyFails(c)
    BY DEF Serve
  <1>4. PICK b \in BOOLEAN :
            /\ replies' = Append(replies, [of |-> c, ok |-> b])
            /\ b => ApplyAdd(c) \/ ApplyState(c) \/ ApplyRemove(c)
    BY DEF Serve
  <1>5. [of |-> c, ok |-> b] \in Reply
    BY <1>1 DEF Reply
  <1>6. /\ c.op \in {"add", "state", "remove"} /\ c.handle \in Nat
        /\ c.op = "add" => c.ifindex \in Ifindexes
        /\ c.op = "state" => c.state \in LifecycleStates
    BY <1>1, CommandFields
  <1>7. /\ DOMAIN vmap \subseteq Ifindexes /\ vmap \in [DOMAIN vmap -> VmCtx]
        /\ stats \in StatsType /\ replies \in Seq(Reply)
        /\ applied \subseteq Nat \X Ifindexes
    BY DEF IInv, TypeOK
  <1>8. /\ DOMAIN vmap' \subseteq Ifindexes
        /\ vmap' \in [DOMAIN vmap' -> VmCtx]
        /\ applied \subseteq applied'
        /\ \A i \in DOMAIN vmap' : <<vmap'[i].vm_id, i>> \in applied'
    <2>1. CASE ApplyAdd(c)
      <3> DEFINE e == [vm_id |-> c.handle, lifecycle_state |-> "RUNNING"]
      <3>1. /\ vmap' = Put(vmap, c.ifindex, e)
            /\ applied' = applied \cup {<<c.handle, c.ifindex>>}
            /\ c.ifindex \in Ifindexes
        BY <1>6, <2>1 DEF ApplyAdd
      <3>2. e \in VmCtx /\ e.vm_id = c.handle
        BY <1>6 DEF VmCtx, LifecycleStates
      <3>3. /\ DOMAIN vmap' = DOMAIN vmap \cup {c.ifindex}
            /\ vmap' \in [DOMAIN vmap' -> VmCtx]
            /\ vmap'[c.ifindex] = e
            /\ \A i \in DOMAIN vmap : i /= c.ifindex => vmap'[i] = vmap[i]
        BY <1>7, <3>1, <3>2 DEF Put
      <3>4. ASSUME NEW i \in DOMAIN vmap'
            PROVE  <<vmap'[i].vm_id, i>> \in applied'
        <4>1. CASE i = c.ifindex
          BY <3>1, <3>2, <3>3, <4>1
        <4>2. CASE i /= c.ifindex
          <5>1. i \in DOMAIN vmap /\ vmap'[i] = vmap[i]
            BY <3>3, <3>4, <4>2
          <5>2. QED
            BY <3>1, <5>1 DEF IInv, NoStaleEntries
        <4>3. QED
          BY <4>1, <4>2
      <3>5. QED
        BY <1>7, <3>1, <3>3, <3>4
    <2>2. CASE ApplyState(c)
      <3>1. PICK j \in DOMAIN vmap : vmap' = [vmap EXCEPT ![j].lifecycle_state = c.state]
        BY <2>2 DEF ApplyState, KeysForHandle
      <3>2. c.state \in LifecycleStates /\ applied' = applied
        BY <1>6, <2>2 DEF ApplyState
      <3>3. /\ DOMAIN vmap' = DOMAIN vmap
            /\ vmap' \in [DOMAIN vmap' -> VmCtx]
            /\ \A i \in DOMAIN vmap : vmap'[i].vm_id = vmap[i].vm_id
        BY <1>7, <3>1, <3>2 DEF VmCtx
      <3>4. QED
        BY <1>7, <3>2, <3>3 DEF IInv, NoStaleEntries
    <2>3. CASE ApplyRemove(c)
      <3>1. PICK j \in DOMAIN vmap : vmap' = Del(vmap, j)
        BY <2>3 DEF ApplyRemove, KeysForHandle
      <3>2. applied' = applied
        BY <2>3 DEF ApplyRemove
      <3>3. /\ DOMAIN vmap' \subseteq DOMAIN vmap
            /\ vmap' \in [DOMAIN vmap' -> VmCtx]
            /\ \A i \in DOMAIN vmap' : vmap'[i] = vmap[i]
        BY <1>7, <3>1 DEF Del
      <3>4. QED
        BY <1>7, <3>2, <3>3 DEF IInv, NoStaleEntries
    <2>4. CASE ApplyFails(c)
      BY <1>7, <2>4 DEF ApplyFails, IInv, NoStaleEntries
    <2>5. QED
      BY <1>3, <2>1, <2>2, <2>3, <2>4
  <1>9. stats' \in StatsType
    <2>1. Cardinality(DOMAIN vmap) \in Nat /\ Cardinality(DOMAIN vmap') \in Nat
      <3>1. DOMAIN vmap \subseteq Ifindexes /\ DOMAIN vmap' \subseteq Ifindexes
        BY <1>7, <1>8
      <3>2. QED
        BY <3>1, BoundsAssumption, FS_Subset, FS_CardinalityType
    <2>2. CASE ApplyAdd(c)
      BY <1>7, <2>1, <2>2, CountType DEF ApplyAdd
    <2>3. CASE ApplyState(c)
      BY <1>7, <2>1, <2>3, CountType DEF ApplyState
    <2>4. CASE ApplyRemove(c)
      BY <1>7, <2>1, <2>4, CountType DEF ApplyRemove
    <2>5. CASE ApplyFails(c)
      BY <1>7, <2>5 DEF ApplyFails, StatsType
    <2>6. QED
      BY <1>3, <2>2, <2>3, <2>4, <2>5
  <1>10. \/ /\ c.op = "add"
            /\ applied' = applied \cup {<<c.handle, c.ifindex>>}
         \/ applied' = applied /\ ~(c.op = "add" /\ b)
    BY <1>3, <1>4 DEF ApplyAdd, ApplyState, ApplyRemove, ApplyFails
  <1>11. applied' \subseteq Nat \X Ifindexes
    BY <1>6, <1>7, <1>10
  <1>12. replies' \in Seq(Reply) /\ reqs' \in Seq(Command)
    BY <1>1, <1>4, <1>5, <1>7
  <1>13. TypeOK'
    BY <1>2, <1>8, <1>9, <1>11, <1>12, Zenon DEF IInv, TypeOK
  <1>14. call /= NoCall => call = c /\ replies' = <<[of |-> call, ok |-> b]>>
    <2>1. SUFFICES ASSUME call /= NoCall
                   PROVE  call = c /\ replies' = <<[of |-> call, ok |-> b]>>
      OBVIOUS
    <2>2. reqs = <<call>> /\ replies = <<>>
      BY <1>1, <2>1 DEF IInv, ChannelInv
    <2>3. call = c
      BY <2>2, Singleton
    <2>4. Append(<<>>, [of |-> c, ok |-> b]) = <<[of |-> c, ok |-> b]>>
      BY <1>5, Singleton
    <2>5. QED
      BY <1>4, <2>2, <2>3, <2>4
  <1>15. ChannelInv'
    <2>1. call = NoCall => poisoned
      BY <1>1 DEF IInv, ChannelInv
    <2>2. QED
      BY <1>1, <1>2, <1>14, <2>1 DEF IInv, ChannelInv
  <1>16. FreshInv'
    <2>1. c.op = "add" => c.handle < next /\ \A p \in applied : p[1] /= c.handle
      BY <1>1 DEF IInv, FreshInv
    <2>2. \A p \in applied' : p[1] < next
      BY <1>10, <2>1, HandlesIssued
    <2>3. \A p, q \in applied' : p[1] = q[1] => p = q
      BY <1>10, <2>1 DEF IInv, FreshInv
    <2>4. call.op = "add" /\ replies' /= <<>> /\ Head(replies').ok =>
             <<call.handle, call.ifindex>> \in applied'
      <3>1. SUFFICES ASSUME call.op = "add", Head(replies').ok
                     PROVE  <<call.handle, call.ifindex>> \in applied'
        OBVIOUS
      <3>2. call /= NoCall
        BY <3>1 DEF NoCall
      <3>3. call = c /\ Head(replies') = [of |-> call, ok |-> b]
        BY <1>5, <1>14, <3>2, Singleton
      <3>4. b
        BY <3>1, <3>3
      <3>5. QED
        BY <1>10, <3>1, <3>3, <3>4
    <2>5. QED
      BY <1>1, <1>2, <2>2, <2>3, <2>4 DEF IInv, FreshInv
  <1>17. ProvenanceSound' /\ NoStaleEntries'
    BY <1>2, <1>8 DEF IInv, ProvenanceSound, NoStaleEntries
  <1>18. QED
    BY <1>13, <1>15, <1>16, <1>17 DEF IInv

\* Every step of owner and client keeps the invariant.
LEMMA NextIInv == IInv /\ [Next]_vars => IInv'
  <1> SUFFICES ASSUME IInv, [Next]_vars PROVE IInv'
    OBVIOUS
  <1>1. CASE CreateAndPin
    BY <1>1, CreateAndPinIInv
  <1>2. CASE RefuseStalePin \/ Bind
    <2>1. starts' \in Nat
      BY <1>2 DEF RefuseStalePin, Bind, Launch, IInv, TypeOK
    <2>2. QED
      BY <1>2, <2>1, OwnerIdleIInv DEF RefuseStalePin, Bind, Launch
  <1>3. CASE BindFails \/ CloseWindow \/ Kill \/ RemoveStalePin
    <2>1. starts' \in Nat /\ pinned' \in BOOLEAN
      BY <1>3 DEF BindFails, CloseWindow, Kill, RemoveStalePin, IInv, TypeOK
    <2>2. reqs' = <<>>
      BY <1>3 DEF BindFails, CloseWindow, Kill, RemoveStalePin, IInv, ChannelInv
    <2>3. QED
      BY <1>3, <2>1, <2>2, OwnerDownIInv DEF BindFails, CloseWindow, Kill, RemoveStalePin
  <1>4. CASE Serve
    BY <1>4, ServeIInv
  <1>5. CASE Connect
    BY <1>5, ConnectIInv
  <1>6. CASE \E i \in Ifindexes : Register(i)
    BY <1>6, RegisterIInv
  <1>7. CASE \E h \in DOMAIN table, s \in LifecycleStates : SetState(h, s)
    BY <1>7, SetStateIInv
  <1>8. CASE \E h \in DOMAIN table : Deregister(h)
    BY <1>8, DeregisterIInv
  <1>9. CASE ReadReply
    BY <1>9, ReadReplyIInv
  <1>10. CASE ReadFails \/ ReadEof
    BY <1>10, ReadErrorIInv
  <1>11. CASE UNCHANGED vars
    <2>1. UNCHANGED <<owner, pinned, vmap, stats, starts, reqs, replies, connected,
                      poisoned, call, result, next, table, applied>>
      BY <1>11 DEF vars, ownerVars, clientVars
    <2>2. TypeOK'
      BY <2>1, Zenon DEF IInv, TypeOK
    <2>3. QED
      BY <2>1, <2>2 DEF IInv, ChannelInv, FreshInv, ProvenanceSound, NoStaleEntries
  <1>12. QED
    BY <1>1, <1>2, <1>3, <1>4, <1>5, <1>6, <1>7, <1>8, <1>9, <1>10, <1>11
       DEF Next, OwnerNext, ClientNext, ReadNext

\* The invariant holds in every reachable state.
LEMMA Invariance == Spec => []IInv
  BY InitIInv, NextIInv, PTL DEF Spec
-----------------------------------------------------------------------------
(* The properties, for every set of interfaces, capacity and bound. *)

\* Both processes and the socket keep their types.
THEOREM TypeCorrect == Spec => []TypeOK
  <1>1. IInv => TypeOK
    BY DEF IInv
  <1>2. QED
    BY <1>1, Invariance, PTL

\* The client never takes the answer to an earlier, timed-out command for the
\* answer to the one it is waiting on (ControlClient::command).
THEOREM RepliesMatch == Spec => []ReplyMatches
  <1>1. IInv => ReplyMatches
    BY ReplyOfCall DEF ReplyMatches
  <1>2. QED
    BY <1>1, Invariance, PTL

\* The provenance table names only registrations the owner applied
\* (AttributionSession::register).
THEOREM ProvenanceIsSound == Spec => []ProvenanceSound
  <1>1. IInv => ProvenanceSound
    BY DEF IInv
  <1>2. QED
    BY <1>1, Invariance, PTL

\* The reverse lookup of the owner is unambiguous (key_for_handle).
THEOREM HandlesAreUnique == Spec => []HandleUnique
  <1>1. ASSUME IInv PROVE HandleUnique
    <2> SUFFICES ASSUME NEW i \in DOMAIN vmap, NEW j \in DOMAIN vmap,
                        vmap[i].vm_id = vmap[j].vm_id
                 PROVE  i = j
      BY DEF HandleUnique
    <2> DEFINE p == <<vmap[i].vm_id, i>>
               q == <<vmap[j].vm_id, j>>
    <2>1. p \in applied /\ q \in applied
      BY <1>1 DEF IInv, NoStaleEntries
    <2>2. p[1] = q[1]
      OBVIOUS
    <2>3. p = q
      BY <1>1, <2>1, <2>2 DEF IInv, FreshInv
    <2>4. QED
      BY <2>3
  <1>2. QED
    BY <1>1, Invariance, PTL

\* A map never holds entries of an earlier owner (create_and_pin).
THEOREM NoStaleMap == Spec => []NoStaleEntries
  <1>1. IInv => NoStaleEntries
    BY DEF IInv
  <1>2. QED
    BY <1>1, Invariance, PTL

\* A command that left `live` entries behind is counted as such.
LEMMA CountFields ==
    ASSUME stats \in StatsType, NEW live \in Nat,
           NEW counter \in {"adds", "states", "removes"}
    PROVE  LET s == Count(counter, live)
           IN /\ s.final_live = live
              /\ s.peak_live = IF live > stats.peak_live THEN live ELSE stats.peak_live
              /\ s.adds = IF counter = "adds" THEN stats.adds + 1 ELSE stats.adds
              /\ s.removes = IF counter = "removes" THEN stats.removes + 1 ELSE stats.removes
  <1>1. CASE counter = "adds"
    BY <1>1 DEF Count, StatsType
  <1>2. CASE counter = "states"
    BY <1>2 DEF Count, StatsType
  <1>3. CASE counter = "removes"
    BY <1>3 DEF Count, StatsType
  <1>4. QED
    BY <1>1, <1>2, <1>3

\* A served command leaves Stats in agreement with the map: an add meets a key
\* that is there or a map with room, a remove takes exactly one entry.
LEMMA ServeOccupancy ==
    ASSUME IInv, OccupancyInv, Serve
    PROVE  OccupancyInv'
  <1> DEFINE c == Head(reqs)
             n == Cardinality(DOMAIN vmap)
  <1>1. owner = "serving" /\ owner' = "serving" /\ OccupancyExact
    BY DEF Serve, OccupancyInv
  <1>2. stats \in StatsType /\ DOMAIN vmap \subseteq Ifindexes
    BY DEF IInv, TypeOK
  <1>3. IsFiniteSet(DOMAIN vmap) /\ n \in Nat /\ MaxVms \in Nat
    BY <1>2, BoundsAssumption, FS_Subset, FS_CardinalityType
  <1>4. /\ stats.peak_live \in Nat /\ stats.final_live \in Nat
        /\ stats.adds \in Nat /\ stats.removes \in Nat
    BY <1>2 DEF StatsType
  <1>5. /\ stats.final_live = n /\ n <= stats.peak_live /\ stats.peak_live <= MaxVms
        /\ stats.removes + n <= stats.adds
    BY <1>1 DEF OccupancyExact
  <1>6. CASE ApplyAdd(c)
    <2> DEFINE m == Cardinality(DOMAIN vmap')
    <2>1. DOMAIN vmap' = DOMAIN vmap \cup {c.ifindex}
      BY <1>6 DEF ApplyAdd, Put
    <2>2. m = IF c.ifindex \in DOMAIN vmap THEN n ELSE n + 1
      BY <1>3, <2>1, FS_AddElement
    <2>3. c.ifindex \in DOMAIN vmap \/ n < MaxVms
      BY <1>6 DEF ApplyAdd
    <2>4. m \in Nat /\ stats' = Count("adds", m)
      BY <1>3, <1>6, <2>2 DEF ApplyAdd
    <2>5. /\ stats'.final_live = m /\ stats'.adds = stats.adds + 1
          /\ stats'.removes = stats.removes
          /\ stats'.peak_live = IF m > stats.peak_live THEN m ELSE stats.peak_live
      BY <1>2, <2>4, CountFields
    <2>6. OccupancyExact'
      BY <1>3, <1>4, <1>5, <2>2, <2>3, <2>4, <2>5 DEF OccupancyExact
    <2>7. QED
      BY <2>6 DEF OccupancyInv
  <1>7. CASE ApplyState(c)
    <2>1. DOMAIN vmap' = DOMAIN vmap
      BY <1>7 DEF ApplyState
    <2>2. stats' = Count("states", n)
      BY <1>7 DEF ApplyState
    <2>3. /\ stats'.final_live = n /\ stats'.adds = stats.adds
          /\ stats'.removes = stats.removes
          /\ stats'.peak_live = IF n > stats.peak_live THEN n ELSE stats.peak_live
      BY <1>2, <1>3, <2>2, CountFields
    <2>4. OccupancyExact'
      BY <1>3, <1>4, <1>5, <2>1, <2>3 DEF OccupancyExact
    <2>5. QED
      BY <2>4 DEF OccupancyInv
  <1>8. CASE ApplyRemove(c)
    <2> DEFINE m == Cardinality(DOMAIN vmap')
    <2>1. PICK j \in DOMAIN vmap : DOMAIN vmap' = DOMAIN vmap \ {j}
      BY <1>8 DEF ApplyRemove, KeysForHandle, Del
    <2>2. m = n - 1 /\ m \in Nat
      BY <1>3, <2>1, FS_RemoveElement, FS_CardinalityType
    <2>3. stats' = Count("removes", m)
      BY <1>8 DEF ApplyRemove
    <2>4. /\ stats'.final_live = m /\ stats'.adds = stats.adds
          /\ stats'.removes = stats.removes + 1
          /\ stats'.peak_live = IF m > stats.peak_live THEN m ELSE stats.peak_live
      BY <1>2, <2>2, <2>3, CountFields
    <2>5. OccupancyExact'
      BY <1>3, <1>4, <1>5, <2>2, <2>4 DEF OccupancyExact
    <2>6. QED
      BY <2>5 DEF OccupancyInv
  <1>9. CASE ApplyFails(c)
    <2>1. /\ vmap' = vmap /\ stats'.final_live = stats.final_live
          /\ stats'.peak_live = stats.peak_live /\ stats'.adds = stats.adds
          /\ stats'.removes = stats.removes
      BY <1>2, <1>9 DEF ApplyFails, StatsType
    <2>2. QED
      BY <1>1, <2>1 DEF OccupancyInv, OccupancyExact
  <1>10. QED
    BY <1>6, <1>7, <1>8, <1>9 DEF Serve

\* The occupancy the owner reports is the map's at every moment of its window
\* (Stats, apply).
THEOREM OccupancyIsReported == Spec => []OccupancyReported
  <1>1. Init => OccupancyInv
    BY DEF Init, OccupancyInv
  <1>2. ASSUME IInv, OccupancyInv, [Next]_vars
        PROVE  OccupancyInv'
    <2>1. CASE CreateAndPin
      <3>1. /\ stats'.final_live = 0 /\ stats'.peak_live = 0
            /\ stats'.adds = 0 /\ stats'.removes = 0
        BY <2>1 DEF CreateAndPin, ZeroStats
      <3>2. Cardinality(DOMAIN vmap') = 0
        <4>1. DOMAIN vmap' = {}
          BY <2>1 DEF CreateAndPin, Empty
        <4>2. QED
          BY <4>1, FS_EmptySet
      <3>3. QED
        BY <3>1, <3>2, BoundsAssumption DEF OccupancyInv, OccupancyExact
    <2>2. CASE RefuseStalePin \/ Bind
      <3>1. owner /= "down" \/ owner' = "down"
        BY <2>2 DEF RefuseStalePin, Launch, Bind
      <3>2. UNCHANGED <<stats, vmap>>
        BY <2>2 DEF RefuseStalePin, Bind
      <3>3. QED
        BY <1>2, <3>1, <3>2 DEF OccupancyInv, OccupancyExact
    <2>3. CASE BindFails \/ CloseWindow \/ Kill \/ RemoveStalePin
      BY <2>3 DEF BindFails, CloseWindow, Kill, RemoveStalePin, OccupancyInv
    <2>4. CASE Serve
      BY <1>2, <2>4, ServeOccupancy
    <2>5. CASE ClientNext \/ UNCHANGED vars
      <3>1. UNCHANGED <<owner, stats, vmap>>
        BY <2>5 DEF ClientNext, ReadNext, Connect, Register, SetState, Deregister,
                    ReadReply, ReadFails, ReadEof, vars, ownerVars
      <3>2. QED
        BY <1>2, <3>1 DEF OccupancyInv, OccupancyExact
    <2>6. QED
      BY <1>2, <2>1, <2>2, <2>3, <2>4, <2>5 DEF Next, OwnerNext
  <1>3. OccupancyInv => OccupancyReported
    BY DEF OccupancyInv, OccupancyReported
  <1>4. QED
    BY <1>1, <1>2, <1>3, Invariance, PTL DEF Spec

\* The session and the owner together implement the abstract registry: every
\* step issues a handle, accepts a fresh one, records an accepted one, starts
\* a new run, or is invisible to it.
THEOREM Refinement == Spec => ImplementsRegistry
  <1> USE DEF Registry!regVars
  <1>1. Init => Registry!Init
    BY DEF Init, Registry!Init, Empty
  <1>2. ASSUME IInv, [Next]_vars
        PROVE  [Registry!Next]_(Registry!regVars)
    <2>0. next \in Nat
      BY <1>2 DEF IInv, TypeOK
    <2>1. CASE CreateAndPin
      BY <2>1 DEF CreateAndPin, Registry!Next, Registry!NewRun, Empty
    <2>2. CASE \/ RefuseStalePin \/ Bind \/ BindFails \/ CloseWindow \/ Kill
               \/ RemoveStalePin \/ Connect \/ ReadFails \/ ReadEof
               \/ UNCHANGED vars
      BY <2>2 DEF RefuseStalePin, Bind, BindFails, CloseWindow, Kill, RemoveStalePin,
                  Connect, ReadFails, ReadEof, vars, clientVars
    <2>3. CASE Serve
      <3> DEFINE c == Head(reqs)
      <3>1. UNCHANGED <<next, table>> /\ reqs /= <<>> /\ c \in Command
        BY <1>2, <2>3 DEF Serve, clientVars, IInv, TypeOK
      <3>2. CASE ApplyAdd(c)
        <4>1. /\ c.op = "add" /\ c.handle \in Nat /\ c.ifindex \in Ifindexes
              /\ applied' = applied \cup {<<c.handle, c.ifindex>>}
          BY <3>1, <3>2, CommandFields DEF ApplyAdd
        <4>2. c.handle < next /\ \A p \in applied : p[1] /= c.handle
          BY <1>2, <3>1, <4>1 DEF IInv, FreshInv
        <4>3. Registry!Accept(c.handle, c.ifindex)
          BY <3>1, <4>1, <4>2 DEF Registry!Accept
        <4>4. c.handle \in 0 .. next
          BY <2>0, <4>1, <4>2
        <4>5. QED
          BY <4>1, <4>3, <4>4 DEF Registry!Next
      <3>3. CASE ~ApplyAdd(c)
        <4>1. applied' = applied
          BY <2>3, <3>3 DEF Serve, ApplyState, ApplyRemove, ApplyFails
        <4>2. QED
          BY <3>1, <4>1
      <3>4. QED
        BY <3>2, <3>3
    <2>4. CASE \E i \in Ifindexes : Register(i)
      BY <2>4 DEF Register, Registry!Next, Registry!Issue
    <2>5. CASE \/ \E h \in DOMAIN table, s \in LifecycleStates : SetState(h, s)
               \/ \E h \in DOMAIN table : Deregister(h)
      BY <2>5 DEF SetState, Deregister
    <2>6. CASE ReadReply
      <3>1. call /= NoCall /\ replies /= <<>> /\ call \in Command
        BY <1>2, <2>6, ReplyOfCall DEF ReadReply
      <3>2. UNCHANGED <<next, applied>>
        BY <2>6 DEF ReadReply
      <3>3. CASE call.op = "add" /\ Head(replies).ok
        <4>1. /\ <<call.handle, call.ifindex>> \in applied
              /\ call.handle \notin DOMAIN table
          BY <1>2, <3>1, <3>3 DEF IInv, FreshInv
        <4>2. /\ call.handle \in Nat /\ call.ifindex \in Ifindexes
              /\ call.handle < next
          <5>1. <<call.handle, call.ifindex>>[1] = call.handle
            OBVIOUS
          <5>2. QED
            BY <1>2, <3>1, <3>3, <4>1, <5>1, CommandFields, HandlesIssued
        <4>3. Registry!Record(call.handle, call.ifindex)
          BY <2>6, <3>2, <3>3, <4>1 DEF ReadReply, Put, Registry!Record
        <4>4. call.handle \in 0 .. next
          BY <2>0, <4>2
        <4>5. QED
          BY <4>2, <4>3, <4>4 DEF Registry!Next
      <3>4. CASE ~(call.op = "add" /\ Head(replies).ok)
        BY <2>6, <3>2, <3>4 DEF ReadReply
      <3>5. QED
        BY <3>3, <3>4
    <2>7. QED
      BY <1>2, <2>1, <2>2, <2>3, <2>4, <2>5, <2>6
         DEF Next, OwnerNext, ClientNext, ReadNext
  <1>3. QED
    BY <1>1, <1>2, Invariance, PTL DEF Spec, ImplementsRegistry, Registry!Spec
=============================================================================
