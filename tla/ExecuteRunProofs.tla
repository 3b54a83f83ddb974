-------------------------- MODULE ExecuteRunProofs --------------------------
(* Proofs about the run driver (module ExecuteRun), for every fanout, number  *)
(* of gadgets and capacity of the owner's map.  What the session keeps to     *)
(* itself was proved once, in NetAttribProofs; its lemmas are used here for   *)
(* the driver's session.                                                      *)
EXTENDS ExecuteRun, FiniteSetTheorems, SequenceTheorems, TLAPS

NAP == INSTANCE NetAttribProofs
        WITH Ifindexes <- 1 .. MaxInstances, MaxHandles <- MaxInstances,
             MaxCommands <- 3 * MaxInstances, MaxStarts <- 1

(* The session. *)

\* The driver's bounds are bounds NetAttrib accepts.
LEMMA Bounds ==
    /\ NAP!IsFiniteSet(1 .. MaxInstances)
    /\ MaxVms \in Nat
    /\ MaxInstances \in Nat
    /\ 3 * MaxInstances \in Nat
    /\ 1 \in Nat
  <1>1. IsFiniteSet(1 .. MaxInstances)
    BY RunAssumption, FS_Interval
  <1>2. NAP!IsFiniteSet(1 .. MaxInstances)
    BY <1>1 DEF IsFiniteSet, NAP!IsFiniteSet
  <1>3. QED
    BY <1>2, RunAssumption

\* The two instances of NetAttrib are the same module.
LEMMA SameCommands ==
    /\ NA!Command = NAP!Command
    /\ NA!NoCall = NAP!NoCall
    /\ NA!LifecycleStates = NAP!LifecycleStates
  BY DEF NA!Command, NAP!Command, NA!NoCall, NAP!NoCall, NA!LifecycleStates, NAP!LifecycleStates

\* The session's invariant, seen through either instance of NetAttrib.
LEMMA SameInvariant == NA!IInv <=> NAP!IInv
  <1>1. NA!TypeOK <=> NAP!TypeOK
    BY SameCommands, Zenon
       DEF NA!TypeOK, NAP!TypeOK, NA!VmCtx, NAP!VmCtx, NA!StatsType, NAP!StatsType,
           NA!Reply, NAP!Reply
  <1>2. NA!ChannelInv <=> NAP!ChannelInv
    BY SameCommands, Zenon DEF NA!ChannelInv, NAP!ChannelInv
  <1>3. NA!FreshInv <=> NAP!FreshInv
    BY Zenon DEF NA!FreshInv, NAP!FreshInv
  <1>4. /\ NA!ProvenanceSound <=> NAP!ProvenanceSound
        /\ NA!NoStaleEntries <=> NAP!NoStaleEntries
    BY Zenon DEF NA!ProvenanceSound, NAP!ProvenanceSound, NA!NoStaleEntries, NAP!NoStaleEntries
  <1>5. QED
    BY <1>1, <1>2, <1>3, <1>4 DEF NA!IInv, NAP!IInv

\* The same of the next state.
LEMMA SameInvariantNext == NA!IInv' <=> NAP!IInv'
  BY SameInvariant, PTL

\* The instances agree on what sending a command does,
LEMMA SameSend ==
    ASSUME NEW c
    PROVE  NA!Send(c) <=> NAP!Send(c)
  BY DEF NA!Send, NAP!Send, NA!Received, NAP!Received

\* on how full the map is,
LEMMA SameCardinality ==
    ASSUME NEW S
    PROVE  NA!Cardinality(S) = NAP!Cardinality(S)
  BY Zenon DEF NA!Cardinality, NAP!Cardinality

\* and on how the owner serves a request.
LEMMA SameServe == NA!Serve <=> NAP!Serve
  <1> SUFFICES ASSUME NEW c PROVE
          /\ NA!ApplyAdd(c) <=> NAP!ApplyAdd(c)
          /\ NA!ApplyState(c) <=> NAP!ApplyState(c)
          /\ NA!ApplyRemove(c) <=> NAP!ApplyRemove(c)
          /\ NA!ApplyFails(c) <=> NAP!ApplyFails(c)
    BY Zenon DEF NA!Serve, NAP!Serve, NA!clientVars, NAP!clientVars
  <1>1. /\ NA!Cardinality(DOMAIN vmap) = NAP!Cardinality(DOMAIN vmap)
        /\ NA!Cardinality(DOMAIN vmap') = NAP!Cardinality(DOMAIN vmap')
    BY SameCardinality
  <1> QED
    BY <1>1, Zenon
       DEF NA!ApplyAdd, NAP!ApplyAdd, NA!ApplyState, NAP!ApplyState,
           NA!ApplyRemove, NAP!ApplyRemove, NA!ApplyFails, NAP!ApplyFails,
           NA!Put, NAP!Put, NA!Del, NAP!Del, NA!Count, NAP!Count,
           NA!KeysForHandle, NAP!KeysForHandle

\* Every step the driver or the owner takes on the session keeps the session's
\* own invariant.
LEMMA ServeSession ==
    ASSUME NA!IInv, NA!Serve
    PROVE  NA!IInv'
  BY SameInvariant, SameInvariantNext, SameServe, NAP!ServeIInv, Bounds

\* The owner's end, orderly or not, keeps the session's invariant.
LEMMA OwnerDownSession ==
    ASSUME NA!IInv, NA!CloseWindow \/ NA!Kill
    PROVE  NA!IInv'
  <1>1. /\ owner' = "down" /\ pinned' \in BOOLEAN
        /\ vmap' = vmap \/ vmap' = NAP!Empty
        /\ reqs' = <<>> /\ starts' \in Nat
        /\ UNCHANGED <<stats, replies, NAP!clientVars, applied>>
    BY DEF NA!CloseWindow, NA!Kill, NA!IInv, NA!TypeOK, NA!Empty, NAP!Empty,
           NA!clientVars, NAP!clientVars
  <1>2. QED
    BY <1>1, SameInvariant, SameInvariantNext, NAP!OwnerDownIInv, Bounds

\* So does the end of a pending command,
LEMMA ReadSession ==
    ASSUME NA!IInv, NA!ReadNext
    PROVE  NA!IInv'
  <1>1. /\ NA!ReadReply <=> NAP!ReadReply
        /\ NA!ReadFails <=> NAP!ReadFails
        /\ NA!ReadEof <=> NAP!ReadEof
    BY SameCommands, Zenon
       DEF NA!ReadReply, NAP!ReadReply, NA!ReadFails, NAP!ReadFails,
           NA!ReadEof, NAP!ReadEof, NA!Put, NAP!Put, NA!ownerVars, NAP!ownerVars
  <1>2. CASE NA!ReadReply
    BY <1>1, <1>2, SameInvariant, SameInvariantNext, NAP!ReadReplyIInv, Bounds
  <1>3. CASE NA!ReadFails \/ NA!ReadEof
    BY <1>1, <1>3, SameInvariant, SameInvariantNext, NAP!ReadErrorIInv, Bounds
  <1>4. QED
    BY <1>2, <1>3 DEF NA!ReadNext

\* a registration,
LEMMA RegisterSession ==
    ASSUME NA!IInv, NEW i \in 1 .. MaxInstances, NA!Register(i)
    PROVE  NA!IInv'
  <1>1. NAP!Register(i)
    <2>1. NA!Send(NA!AddCmd(i, next)) <=> NAP!Send(NA!AddCmd(i, next))
      BY SameSend
    <2>2. NA!AddCmd(i, next) = NAP!AddCmd(i, next)
      BY DEF NA!AddCmd, NAP!AddCmd
    <2>3. QED
      BY <2>1, <2>2, SameCommands
         DEF NA!Register, NAP!Register, NA!Ready, NAP!Ready, NA!ownerVars, NAP!ownerVars
  <1>2. QED
    BY <1>1, SameInvariant, SameInvariantNext, NAP!RegisterIInv, Bounds

\* a change of state,
LEMMA SetStateSession ==
    ASSUME NA!IInv, NEW h \in DOMAIN table, NA!SetState(h, "RUNNING")
    PROVE  NA!IInv'
  <1>1. NAP!SetState(h, "RUNNING")
    <2>1. NA!Send(NA!StateCmd(h, "RUNNING")) <=> NAP!Send(NA!StateCmd(h, "RUNNING"))
      BY SameSend
    <2>2. NA!StateCmd(h, "RUNNING") = NAP!StateCmd(h, "RUNNING")
      BY DEF NA!StateCmd, NAP!StateCmd
    <2>3. QED
      BY <2>1, <2>2, SameCommands
         DEF NA!SetState, NAP!SetState, NA!Ready, NAP!Ready, NA!ownerVars, NAP!ownerVars
  <1>2. "RUNNING" \in NAP!LifecycleStates
    BY DEF NAP!LifecycleStates
  <1>3. QED
    BY <1>1, <1>2, SameInvariant, SameInvariantNext, NAP!SetStateIInv, Bounds

\* a removal,
LEMMA DeregisterSession ==
    ASSUME NA!IInv, NEW h \in DOMAIN table, NA!Deregister(h)
    PROVE  NA!IInv'
  <1>1. NAP!Deregister(h)
    <2>1. NA!Send(NA!RemoveCmd(h)) <=> NAP!Send(NA!RemoveCmd(h))
      BY SameSend
    <2>2. NA!RemoveCmd(h) = NAP!RemoveCmd(h)
      BY DEF NA!RemoveCmd, NAP!RemoveCmd
    <2>3. QED
      BY <2>1, <2>2, SameCommands
         DEF NA!Deregister, NAP!Deregister, NA!Ready, NAP!Ready, NA!ownerVars, NAP!ownerVars
  <1>2. QED
    BY <1>1, SameInvariant, SameInvariantNext, NAP!DeregisterIInv, Bounds

\* and every step of the driver that leaves the session alone.
LEMMA IdleSession ==
    ASSUME NA!IInv, UNCHANGED naVars
    PROVE  NA!IInv'
  <1>1. UNCHANGED NAP!vars
    BY DEF naVars, NAP!vars, NAP!ownerVars, NAP!clientVars
  <1>2. QED
    BY <1>1, SameInvariant, SameInvariantNext, NAP!NextIInv, Bounds

-----------------------------------------------------------------------------
(* The driver. *)

\* What the session's invariant says of the types the driver relies on.
LEMMA SessionTypes ==
    ASSUME NA!IInv
    PROVE  /\ next \in Nat
           /\ poisoned \in BOOLEAN
           /\ DOMAIN vmap \subseteq 1 .. MaxInstances
           /\ vmap \in [DOMAIN vmap -> NA!VmCtx]
           /\ DOMAIN table \subseteq Nat
           /\ table \in [DOMAIN table -> 1 .. MaxInstances]
           /\ applied \subseteq Nat \X (1 .. MaxInstances)
  BY DEF NA!IInv, NA!TypeOK

\* Instance i is known to the owner as i - 1, and nothing is known under a
\* handle the run has not taken.
LEMMA Shape ==
    ASSUME NA!IInv, EntryInv
    PROVE  /\ \A i \in DOMAIN vmap : i \in Nat /\ vmap[i].vm_id = i - 1 /\ i <= next
           /\ \A h \in DOMAIN table : h \in Nat /\ h < next /\ table[h] = h + 1
  <1>1. \A p \in applied : p[1] \in Nat /\ p[1] < next /\ p[2] = p[1] + 1
    BY SessionTypes DEF EntryInv, NA!IInv, NA!FreshInv
  <1>2. ASSUME NEW i \in DOMAIN vmap
        PROVE  i \in Nat /\ vmap[i].vm_id = i - 1 /\ i <= next
    <2>1. <<vmap[i].vm_id, i>> \in applied
      BY DEF NA!IInv, NA!NoStaleEntries
    <2>2. vmap[i].vm_id \in Nat /\ vmap[i].vm_id < next /\ i = vmap[i].vm_id + 1
      BY <2>1, <1>1
    <2>3. QED
      BY <2>2, SessionTypes
  <1>3. ASSUME NEW h \in DOMAIN table
        PROVE  h \in Nat /\ h < next /\ table[h] = h + 1
    <2>1. <<h, table[h]>> \in applied
      BY DEF NA!IInv, NA!ProvenanceSound
    <2>2. QED
      BY <2>1, <1>1
  <1>4. QED
    BY <1>2, <1>3

\* A step that leaves the session alone.
LEMMA Quiet ==
    ASSUME IInv, UNCHANGED naVars
    PROVE  /\ NA!IInv' /\ EntryInv'
           /\ UNCHANGED <<owner, vmap, reqs, replies, poisoned, call, result, next, table>>
           /\ UNCHANGED <<pinned, stats, starts, connected, applied>>
  <1>1. NA!IInv'
    BY IdleSession DEF IInv
  <1>2. QED
    BY <1>1 DEF naVars, IInv, EntryInv

\* Before the first registration the session knows nothing.
LEMMA NothingKnown ==
    ASSUME IInv, next = 0
    PROVE  DOMAIN vmap = {} /\ Len(attributed) = 0
  <1>1. DOMAIN vmap = {}
    BY Shape, SessionTypes DEF IInv
  <1>2. Len(attributed) \in Nat
    BY DEF IInv, TypeOK
  <1>3. QED
    BY <1>1, <1>2 DEF IInv, HandleInv

\* A step of the environment: the driver is where it was.
LEMMA Environment ==
    ASSUME IInv, UNCHANGED <<pc, k, outcome, width, attrib, target, taps, attributed, naVars>>,
           TypeOK', InstanceInv', GadgetInv', TornDownOnceSteady'
    PROVE  IInv'
  <1>1. DriverInv' /\ TapInv' /\ HandleInv'
    BY Quiet DEF IInv, DriverInv, TapInv, HandleInv, Instances, Gadgets
  <1>2. CallInv' /\ MapInv'
    BY Quiet DEF IInv, CallInv, MapInv, Acknowledged
  <1>3. QED
    BY <1>1, <1>2, Quiet DEF IInv

\* The next instance and its tap are there, or all of them are.
LEMMA ProvisionIInv ==
    ASSUME IInv, Provision
    PROVE  IInv'
  <1>1. TypeOK'
    <2>1. k \in Instances
      BY DEF IInv, DriverInv, Provision, BringUp
    <2>2. Instances' = Instances /\ taps' \subseteq Instances
      BY <2>1 DEF IInv, TypeOK, Provision, Instances
    <2>3. QED
      BY <2>1, <2>2 DEF IInv, TypeOK, Provision, Loop, Goto, captured, load, Steps
  <1>2. DriverInv'
    BY Quiet, RunAssumption
       DEF IInv, TypeOK, DriverInv, Provision, Loop, Goto, BringUp, Window, Gadgets,
           Instances, Attribution
  <1>3. InstanceInv'
    BY Quiet, RunAssumption
       DEF IInv, TypeOK, InstanceInv, DriverInv, Provision, Loop, Goto, BringUp, Window,
           Gadgets, Instances, Attribution
  <1>4. TapInv'
    BY Quiet, RunAssumption
       DEF IInv, TypeOK, TapInv, DriverInv, Provision, Loop, Goto, BringUp, Window,
           Gadgets, Instances, Attribution
  <1>5. GadgetInv'
    BY Quiet, RunAssumption
       DEF IInv, TypeOK, GadgetInv, DriverInv, Provision, Loop, load, captured, Goto,
           BringUp, Window, Gadgets, Instances, Attribution, WindDown
  <1>6. TornDownOnceSteady'
    BY Quiet, RunAssumption
       DEF IInv, TypeOK, TornDownOnceSteady, DriverInv, Provision, Loop, Goto, BringUp,
           Window, Gadgets, Instances, Attribution
  <1>7. HandleInv'
    BY Quiet, RunAssumption
       DEF IInv, TypeOK, HandleInv, DriverInv, Provision, Loop, Goto, BringUp, Window,
           Gadgets, Instances, Attribution, WindDown
  <1>8. CallInv'
    BY Quiet, RunAssumption
       DEF IInv, TypeOK, CallInv, Provision, Loop, Goto, BringUp, Window, Gadgets,
           Instances
  <1>9. MapInv'
    BY Quiet, RunAssumption
       DEF IInv, TypeOK, MapInv, DriverInv, Provision, Loop, Goto, BringUp, Window,
           Gadgets, Instances, Attribution, Acknowledged
  <1>10. QED
    BY <1>1, <1>2, <1>3, <1>4, <1>5, <1>6, <1>7, <1>8, <1>9, Quiet DEF IInv, Provision

\* The error is returned at once; what the instance reached stays.
LEMMA ProvisionFailsIInv ==
    ASSUME IInv, ProvisionFails
    PROVE  IInv'
  <1>1. TypeOK'
    <2>1. k \in Instances
      BY DEF IInv, DriverInv, ProvisionFails, BringUp
    <2>2. Instances' = Instances /\ taps' \subseteq Instances
      BY <2>1 DEF IInv, TypeOK, ProvisionFails, Instances
    <2>3. QED
      BY <2>1, <2>2 DEF IInv, TypeOK, ProvisionFails, Fail, Goto, captured, load, Steps
  <1>2. DriverInv'
    BY Quiet, RunAssumption
       DEF IInv, TypeOK, DriverInv, ProvisionFails, Fail, Goto, BringUp, Window,
           Gadgets, Instances, Attribution
  <1>3. InstanceInv'
    BY Quiet, RunAssumption
       DEF IInv, TypeOK, InstanceInv, DriverInv, ProvisionFails, Fail, Goto, BringUp,
           Window, Gadgets, Instances, Attribution
  <1>4. TapInv'
    BY Quiet, RunAssumption
       DEF IInv, TypeOK, TapInv, DriverInv, ProvisionFails, Fail, Goto, BringUp, Window,
           Gadgets, Instances, Attribution
  <1>5. GadgetInv'
    BY Quiet, RunAssumption
       DEF IInv, TypeOK, GadgetInv, DriverInv, ProvisionFails, Fail, load, captured,
           Goto, BringUp, Window, Gadgets, Instances, Attribution, WindDown
  <1>6. TornDownOnceSteady'
    BY Quiet, RunAssumption
       DEF IInv, TypeOK, TornDownOnceSteady, DriverInv, ProvisionFails, Fail, Goto,
           BringUp, Window, Gadgets, Instances, Attribution
  <1>7. HandleInv'
    BY Quiet, RunAssumption
       DEF IInv, TypeOK, HandleInv, DriverInv, ProvisionFails, Fail, Goto, BringUp,
           Window, Gadgets, Instances, Attribution, WindDown
  <1>8. CallInv'
    BY Quiet, RunAssumption
       DEF IInv, TypeOK, CallInv, ProvisionFails, Fail, Goto, BringUp, Window, Gadgets,
           Instances
  <1>9. MapInv'
    BY Quiet, RunAssumption
       DEF IInv, TypeOK, MapInv, DriverInv, ProvisionFails, Fail, Goto, BringUp, Window,
           Gadgets, Instances, Attribution, Acknowledged
  <1>10. QED
    BY <1>1, <1>2, <1>3, <1>4, <1>5, <1>6, <1>7, <1>8, <1>9, Quiet DEF IInv, ProvisionFails

\* One instance more is started.
LEMMA StartIInv ==
    ASSUME IInv, Start
    PROVE  IInv'
  <1>1. TypeOK'
    BY Quiet, RunAssumption
       DEF IInv, TypeOK, DriverInv, Start, Loop, captured, load, Goto, BringUp, Window,
           Gadgets, Instances, Attribution, Steps
  <1>2. DriverInv'
    BY Quiet, RunAssumption
       DEF IInv, TypeOK, DriverInv, Start, Loop, Goto, BringUp, Window, Gadgets,
           Instances, Attribution
  <1>3. InstanceInv'
    BY Quiet, RunAssumption
       DEF IInv, TypeOK, InstanceInv, DriverInv, Start, Loop, Goto, BringUp, Window,
           Gadgets, Instances, Attribution
  <1>4. TapInv'
    BY Quiet, RunAssumption
       DEF IInv, TypeOK, TapInv, DriverInv, Start, Loop, Goto, BringUp, Window, Gadgets,
           Instances, Attribution
  <1>5. GadgetInv'
    BY Quiet, RunAssumption
       DEF IInv, TypeOK, GadgetInv, DriverInv, Start, Loop, captured, load, Goto,
           BringUp, Window, Gadgets, Instances, Attribution, WindDown
  <1>6. TornDownOnceSteady'
    BY Quiet, RunAssumption
       DEF IInv, TypeOK, TornDownOnceSteady, DriverInv, Start, Loop, Goto, BringUp,
           Window, Gadgets, Instances, Attribution
  <1>7. HandleInv'
    BY Quiet, RunAssumption
       DEF IInv, TypeOK, HandleInv, DriverInv, Start, Loop, Goto, BringUp, Window,
           Gadgets, Instances, Attribution, WindDown
  <1>8. CallInv'
    BY Quiet, RunAssumption
       DEF IInv, TypeOK, CallInv, Start, Loop, Goto, BringUp, Window, Gadgets, Instances
  <1>9. MapInv'
    BY Quiet, RunAssumption
       DEF IInv, TypeOK, MapInv, DriverInv, Start, Loop, Goto, BringUp, Window, Gadgets,
           Instances, Attribution, Acknowledged
  <1>10. QED
    BY <1>1, <1>2, <1>3, <1>4, <1>5, <1>6, <1>7, <1>8, <1>9, Quiet DEF IInv, Start

\* One instance more is steady; after the last one no handle has been taken yet.
LEMMA ReachSteadyIInv ==
    ASSUME IInv, ReachSteady
    PROVE  IInv'
  <1> DEFINE after == IF attrib THEN "attribute" ELSE After("spawn", NumGadgets, "work")
  <1>a. /\ pc = "steady" /\ k \in Nat /\ k >= 1 /\ Loop(width, after)
        /\ width \in Nat /\ width >= 1
        /\ UNCHANGED <<outcome, width, attrib, target, attributed>>
    BY RunAssumption DEF IInv, TypeOK, ReachSteady
  <1>b. next = 0 /\ Len(attributed) = 0 /\ DOMAIN vmap = {}
    BY NothingKnown, <1>a DEF IInv, HandleInv, BringUp
  <1>c. /\ after \in {"attribute", "spawn", "work"}
        /\ after = "attribute" <=> attrib
        /\ after = "spawn" => 1 \in Gadgets
    BY RunAssumption DEF After, Gadgets
  <1>d. \/ pc' = "steady" /\ k' = k + 1 /\ k < width
        \/ pc' = after /\ k' = 1
    BY <1>a DEF Loop, Goto
  <1> HIDE DEF after
  <1>1. TypeOK'
    BY Quiet, RunAssumption
       DEF IInv, TypeOK, DriverInv, ReachSteady, Loop, load, After, captured, Goto,
           BringUp, Window, Gadgets, Instances, Attribution, Steps
  <1>2. DriverInv'
    BY <1>a, <1>c, <1>d
       DEF IInv, DriverInv, Instances, Gadgets, BringUp, Attribution, Window
  <1>3. InstanceInv'
    BY Quiet, RunAssumption
       DEF IInv, TypeOK, InstanceInv, DriverInv, ReachSteady, Loop, After, Goto,
           BringUp, Window, Gadgets, Instances, Attribution
  <1>4. TapInv'
    BY Quiet, RunAssumption
       DEF IInv, TypeOK, TapInv, DriverInv, ReachSteady, Loop, After, Goto, BringUp,
           Window, Gadgets, Instances, Attribution
  <1>5. GadgetInv'
    BY Quiet, RunAssumption
       DEF IInv, TypeOK, GadgetInv, DriverInv, ReachSteady, Loop, load, After, captured,
           Goto, BringUp, Window, Gadgets, Instances, Attribution, WindDown
  <1>6. TornDownOnceSteady'
    BY Quiet, RunAssumption
       DEF IInv, TypeOK, TornDownOnceSteady, DriverInv, ReachSteady, Loop, After, Goto,
           BringUp, Window, Gadgets, Instances, Attribution
  <1>7. HandleInv'
    BY <1>a, <1>b, <1>c, <1>d, Quiet
       DEF IInv, TypeOK, HandleInv, BringUp, Attribution, Window, WindDown, ReachSteady
  <1>8. CallInv'
    BY Quiet, RunAssumption
       DEF IInv, TypeOK, CallInv, ReachSteady, Loop, After, Goto, BringUp, Window,
           Gadgets, Instances
  <1>9. MapInv'
    <2>1. DOMAIN vmap' = {} /\ Len(attributed') = 0
      BY <1>a, <1>b, Quiet DEF ReachSteady
    <2>2. 1 .. 0 = {}
      OBVIOUS
    <2>3. QED
      BY <1>a, <1>c, <1>d, <2>1, <2>2 DEF MapInv, Window
  <1>10. QED
    BY <1>1, <1>2, <1>3, <1>4, <1>5, <1>6, <1>7, <1>8, <1>9, Quiet DEF IInv, ReachSteady

\* The instance bring-up is at has not reached steady.
LEMMA BringUpFailsIInv ==
    ASSUME IInv, BringUpFails
    PROVE  IInv'
  <1>1. TypeOK'
    BY Quiet, RunAssumption
       DEF IInv, TypeOK, DriverInv, BringUpFails, Fail, load, captured, Goto, BringUp,
           Window, Gadgets, Instances, Attribution, Steps
  <1>2. DriverInv'
    BY Quiet, RunAssumption
       DEF IInv, TypeOK, DriverInv, BringUpFails, Fail, Goto, BringUp, Window, Gadgets,
           Instances, Attribution
  <1>3. InstanceInv'
    BY Quiet, RunAssumption
       DEF IInv, TypeOK, InstanceInv, DriverInv, BringUpFails, Fail, Goto, BringUp,
           Window, Gadgets, Instances, Attribution
  <1>4. TapInv'
    BY Quiet, RunAssumption
       DEF IInv, TypeOK, TapInv, DriverInv, BringUpFails, Fail, Goto, BringUp, Window,
           Gadgets, Instances, Attribution
  <1>5. GadgetInv'
    BY Quiet, RunAssumption
       DEF IInv, TypeOK, GadgetInv, DriverInv, BringUpFails, Fail, load, captured, Goto,
           BringUp, Window, Gadgets, Instances, Attribution, WindDown
  <1>6. TornDownOnceSteady'
    <2>1. k \in Instances /\ inst[k] \in {"provisioned", "started"}
      BY DEF IInv, TypeOK, DriverInv, InstanceInv, BringUpFails, BringUp, Instances
    <2>2. QED
      BY <2>1 DEF TornDownOnceSteady, BringUpFails, Instances
  <1>7. HandleInv'
    BY Quiet, RunAssumption
       DEF IInv, TypeOK, HandleInv, DriverInv, BringUpFails, Fail, Goto, BringUp,
           Window, Gadgets, Instances, Attribution, WindDown
  <1>8. CallInv'
    BY Quiet, RunAssumption
       DEF IInv, TypeOK, CallInv, BringUpFails, Fail, Goto, BringUp, Window, Gadgets,
           Instances
  <1>9. MapInv'
    BY Quiet, RunAssumption
       DEF IInv, TypeOK, MapInv, DriverInv, BringUpFails, Fail, Goto, BringUp, Window,
           Gadgets, Instances, Attribution, Acknowledged
  <1>10. QED
    BY <1>1, <1>2, <1>3, <1>4, <1>5, <1>6, <1>7, <1>8, <1>9, Quiet DEF IInv, BringUpFails

\* A failed step of attribution or of the window: what was registered is
\* deregistered, what was brought up is torn down.
LEMMA AbandonIInv ==
    ASSUME IInv, pc \in Attribution \cup Window, call = NA!NoCall,
           pc \in {"registering", "stating"} => result = "err",
           workload' \in {"idle", "running", "stopped"}, Fail(Cleanup),
           UNCHANGED <<width, attrib, target, inst, taps, gadget, captured, blocking,
                       attributed, torn, naVars>>
    PROVE  IInv'
  <1>1. /\ Len(attributed) \in Nat /\ DOMAIN attributed = 1 .. Len(attributed)
        /\ pc' = Cleanup /\ k' = 1 /\ outcome' = "err"
        /\ Cleanup = IF Len(attributed) = 0 THEN "teardown" ELSE "deregister"
    BY DEF IInv, TypeOK, Fail, Goto, Cleanup, After
  <1>2. TypeOK'
    BY <1>1 DEF IInv, TypeOK, captured, Instances, Gadgets, Steps
  <1>3. DriverInv'
    BY <1>1 DEF DriverInv, BringUp, Attribution, Window
  <1>4. InstanceInv' /\ TapInv' /\ TornDownOnceSteady'
    BY <1>1 DEF IInv, TypeOK, InstanceInv, TapInv, TornDownOnceSteady, Attribution, Window, Instances
  <1>5. GadgetInv'
    BY <1>1, Quiet DEF IInv, GadgetInv, BringUp, Attribution, Window, WindDown, captured, Gadgets
  <1>6. HandleInv'
    BY <1>1, Quiet DEF IInv, HandleInv, BringUp, Window, WindDown
  <1>7. CallInv'
    BY <1>1, Quiet DEF IInv, CallInv, BringUp, Window
  <1>8. ASSUME ~poisoned, owner = "serving"
        PROVE  DOMAIN vmap = 1 .. Len(attributed)
    <2>1. CASE pc = "attribute"
      BY <1>8, <2>1 DEF IInv, HandleInv, MapInv
    <2>2. CASE pc = "registering"
      <3>1. ~Acknowledged
        BY <2>2 DEF Acknowledged
      <3>2. QED
        BY <1>8, <2>2, <3>1 DEF IInv, HandleInv, MapInv
    <2>3. CASE pc = "stating" \/ pc \in Window
      BY <1>8, <2>3 DEF IInv, MapInv, Window
    <2>4. QED
      BY <2>1, <2>2, <2>3 DEF Attribution
  <1>9. MapInv'
    BY <1>1, <1>8, Quiet DEF MapInv, Window
  <1>10. QED
    BY <1>2, <1>3, <1>4, <1>5, <1>6, <1>7, <1>9, Quiet DEF IInv

\* Each of the failing steps is such a step.
LEMMA FailuresIInv ==
    ASSUME IInv,
           NoTap \/ AttributionFails \/ SpawnFails \/ StartWorkloadFails \/ WaitFails
    PROVE  IInv'
  <1> USE DEF load, captured
  <1>1. CASE NoTap
    <2>1. next = 0
      <3>1. next \in Nat /\ (next > 0 => target = "tap") /\ target /= "tap"
        BY <1>1, SessionTypes DEF NoTap, IInv, HandleInv
      <3>2. QED
        BY <3>1
    <2>2. Cleanup = "teardown"
      BY <2>1, NothingKnown DEF Cleanup, After
    <2>3. QED
      BY <1>1, <2>2, AbandonIInv DEF NoTap, IInv, TypeOK, CallInv, Attribution, Window
  <1>2. CASE AttributionFails
    BY <1>2, AbandonIInv DEF AttributionFails, IInv, TypeOK, Attribution, Window
  <1>3. CASE SpawnFails \/ StartWorkloadFails
    BY <1>3, AbandonIInv
       DEF SpawnFails, StartWorkloadFails, IInv, TypeOK, CallInv, Attribution, Window
  <1>4. CASE WaitFails
    <2>1. workload' \in {"idle", "running", "stopped"} /\ UNCHANGED blocking
      BY <1>4 DEF WaitFails, StopWorkload, IInv, TypeOK
    <2>2. QED
      BY <1>4, <2>1, AbandonIInv DEF WaitFails, IInv, CallInv, Attribution, Window
  <1>5. QED
    BY <1>1, <1>2, <1>3, <1>4

\* One instance more is registered; after the last one all of them are.
LEMMA StatedIInv ==
    ASSUME IInv, Stated
    PROVE  IInv'
  <1>a. /\ pc = "stating" /\ call = NA!NoCall /\ result = "ok"
        /\ k \in Nat /\ k >= 1 /\ k <= width /\ width \in Nat
        /\ Len(attributed) = k /\ next = k /\ attrib /\ target = "tap"
        /\ UNCHANGED <<outcome, width, attrib, target, attributed>>
    BY RunAssumption
       DEF Stated, IInv, TypeOK, DriverInv, HandleInv, Attribution, Instances
  <1>b. \/ pc' = "attribute" /\ k' = k + 1 /\ k < width
        \/ pc' \in {"spawn", "work"} /\ k' = 1 /\ k = width
    BY <1>a DEF Stated, Goto, After
  <1>1. TypeOK'
    BY Quiet, RunAssumption
       DEF IInv, TypeOK, DriverInv, Stated, Goto, load, After, captured, BringUp,
           Window, Gadgets, Instances, Attribution, Steps
  <1>2. DriverInv'
    BY Quiet, RunAssumption
       DEF IInv, TypeOK, DriverInv, Stated, Goto, After, BringUp, Window, Gadgets,
           Instances, Attribution
  <1>3. InstanceInv'
    BY Quiet, RunAssumption
       DEF IInv, TypeOK, InstanceInv, DriverInv, Stated, Goto, After, BringUp, Window,
           Gadgets, Instances, Attribution
  <1>4. TapInv'
    BY Quiet, RunAssumption
       DEF IInv, TypeOK, TapInv, DriverInv, Stated, Goto, After, BringUp, Window,
           Gadgets, Instances, Attribution
  <1>5. GadgetInv'
    BY Quiet, RunAssumption
       DEF IInv, TypeOK, GadgetInv, DriverInv, Stated, Goto, load, After, captured,
           BringUp, Window, Gadgets, Instances, Attribution, WindDown
  <1>6. TornDownOnceSteady'
    BY Quiet, RunAssumption
       DEF IInv, TypeOK, TornDownOnceSteady, DriverInv, Stated, Goto, After, BringUp,
           Window, Gadgets, Instances, Attribution
  <1>7. HandleInv'
    BY <1>a, <1>b, Quiet DEF IInv, HandleInv, BringUp, Window, WindDown, Stated
  <1>8. CallInv'
    BY Quiet, RunAssumption
       DEF IInv, TypeOK, CallInv, Stated, Goto, After, BringUp, Window, Gadgets,
           Instances
  <1>9. MapInv'
    <2>1. ~poisoned /\ owner = "serving" => DOMAIN vmap = 1 .. k
      BY <1>a DEF IInv, MapInv
    <2>2. k + 1 - 1 = k
      BY <1>a
    <2>3. QED
      BY <1>a, <1>b, <2>1, <2>2, Quiet DEF MapInv, Window, Stated
  <1>10. QED
    BY <1>1, <1>2, <1>3, <1>4, <1>5, <1>6, <1>7, <1>8, <1>9, Quiet DEF IInv, Stated

\* One gadget more runs.
LEMMA SpawnIInv ==
    ASSUME IInv, Spawn
    PROVE  IInv'
  <1>1. TypeOK'
    BY Quiet, RunAssumption
       DEF IInv, TypeOK, DriverInv, Spawn, Loop, captured, load, Goto, BringUp, Window,
           Gadgets, Instances, Attribution, Steps
  <1>2. DriverInv'
    BY Quiet, RunAssumption
       DEF IInv, TypeOK, DriverInv, Spawn, Loop, Goto, BringUp, Window, Gadgets,
           Instances, Attribution
  <1>3. InstanceInv'
    BY Quiet, RunAssumption
       DEF IInv, TypeOK, InstanceInv, DriverInv, Spawn, Loop, Goto, BringUp, Window,
           Gadgets, Instances, Attribution
  <1>4. TapInv'
    BY Quiet, RunAssumption
       DEF IInv, TypeOK, TapInv, DriverInv, Spawn, Loop, Goto, BringUp, Window, Gadgets,
           Instances, Attribution
  <1>5. GadgetInv'
    BY Quiet, RunAssumption
       DEF IInv, TypeOK, GadgetInv, DriverInv, Spawn, Loop, captured, load, Goto,
           BringUp, Window, Gadgets, Instances, Attribution, WindDown
  <1>6. TornDownOnceSteady'
    BY Quiet, RunAssumption
       DEF IInv, TypeOK, TornDownOnceSteady, DriverInv, Spawn, Loop, Goto, BringUp,
           Window, Gadgets, Instances, Attribution
  <1>7. HandleInv'
    BY Quiet, RunAssumption
       DEF IInv, TypeOK, HandleInv, DriverInv, Spawn, Loop, Goto, BringUp, Window,
           Gadgets, Instances, Attribution, WindDown
  <1>8. CallInv'
    BY Quiet, RunAssumption
       DEF IInv, TypeOK, CallInv, Spawn, Loop, Goto, BringUp, Window, Gadgets, Instances
  <1>9. MapInv'
    BY Quiet, RunAssumption
       DEF IInv, TypeOK, MapInv, DriverInv, Spawn, Loop, Goto, BringUp, Window, Gadgets,
           Instances, Attribution, Acknowledged
  <1>10. QED
    BY <1>1, <1>2, <1>3, <1>4, <1>5, <1>6, <1>7, <1>8, <1>9, Quiet DEF IInv, Spawn

\* The workload was started, or has run to its end.
LEMMA WorkloadIInv ==
    ASSUME IInv, StartWorkload \/ RunWorkload
    PROVE  IInv'
  <1>a. /\ pc = "work" /\ k' = 1 /\ workload' \in {"running", "stopped"}
        /\ pc' = IF NumGadgets = 0 THEN "stop" ELSE "wait"
        /\ UNCHANGED <<outcome, width, attrib, target, inst, taps, gadget, blocking, attributed, torn>>
        /\ UNCHANGED <<sharing, file, leftover, fragments, labels, naVars>>
    BY DEF StartWorkload, RunWorkload, Goto, After, captured
  <1>b. fragments = <<>> /\ Len(fragments) = 0
    BY <1>a DEF IInv, GadgetInv
  <1>1. TypeOK'
    BY <1>a DEF IInv, TypeOK, Instances, Gadgets, Steps
  <1>2. DriverInv'
    BY <1>a, RunAssumption DEF IInv, DriverInv, BringUp, Attribution, Window, Gadgets
  <1>3. InstanceInv'
    BY <1>a DEF IInv, InstanceInv, Instances
  <1>4. TapInv'
    BY <1>a DEF IInv, TapInv, Instances
  <1>5. GadgetInv'
    BY <1>a, <1>b, RunAssumption, Quiet
       DEF IInv, GadgetInv, BringUp, Attribution, Window, WindDown, Gadgets
  <1>6. TornDownOnceSteady'
    BY <1>a DEF TornDownOnceSteady
  <1>7. HandleInv'
    BY <1>a, Quiet DEF IInv, HandleInv, BringUp, Window, WindDown
  <1>8. CallInv'
    BY <1>a, Quiet DEF IInv, CallInv, BringUp, Window
  <1>9. MapInv'
    BY <1>a, Quiet DEF IInv, MapInv, Window
  <1>10. QED
    BY <1>1, <1>2, <1>3, <1>4, <1>5, <1>6, <1>7, <1>8, <1>9, <1>a, Quiet DEF IInv

\* One fragment more is collected, and it is its gadget's.
LEMMA WaitIInv ==
    ASSUME IInv, Wait
    PROVE  IInv'
  <1> DEFINE x == file[Path(k)]
  <1>a. /\ k \in Gadgets /\ Path(k) \in Gadgets /\ pc = "wait" /\ gadget[k] = "ok"
        /\ fragments' = Append(fragments, x)
    BY RunAssumption DEF IInv, DriverInv, Wait, Path, Gadgets
  <1>b. x \in Gadgets \cup {EarlierRun}
    BY <1>a DEF IInv, TypeOK, Wait, Readable
  <1>c. ~sharing /\ leftover = "none" => x = k
    BY <1>a DEF IInv, GadgetInv, Path
  <1>d. /\ Len(fragments) = k - 1 /\ Len(fragments) \in Nat
        /\ DOMAIN fragments = 1 .. Len(fragments)
    BY <1>a DEF IInv, TypeOK, GadgetInv
  <1> HIDE DEF x
  <1>e. /\ fragments' \in Seq(Gadgets \cup {EarlierRun})
        /\ Len(fragments') = k /\ DOMAIN fragments' = 1 .. k
        /\ fragments'[k] = x
        /\ \A n \in 1 .. k - 1 : fragments'[n] = fragments[n]
    BY <1>a, <1>b, <1>d, AppendProperties DEF IInv, TypeOK, Gadgets
  <1>f. \/ pc' = "wait" /\ k' = k + 1 /\ k < NumGadgets
        \/ pc' = "stop" /\ k' = 1 /\ k = NumGadgets
    BY <1>a, RunAssumption DEF Wait, Loop, Goto, Gadgets
  <1>1. TypeOK'
    BY <1>a, <1>e, <1>f DEF IInv, TypeOK, Wait, load, Instances, Gadgets, Steps
  <1>2. DriverInv'
    BY Quiet, RunAssumption
       DEF IInv, TypeOK, DriverInv, Wait, Readable, Loop, Path, Goto, BringUp, Window,
           Gadgets, Instances, Attribution
  <1>3. InstanceInv'
    BY Quiet, RunAssumption
       DEF IInv, TypeOK, InstanceInv, DriverInv, Wait, Readable, Loop, Path, Goto,
           BringUp, Window, Gadgets, Instances, Attribution
  <1>4. TapInv'
    BY Quiet, RunAssumption
       DEF IInv, TypeOK, TapInv, DriverInv, Wait, Readable, Loop, Path, Goto, BringUp,
           Window, Gadgets, Instances, Attribution
  <1>5. GadgetInv'
    <2>1. /\ gadget' = [gadget EXCEPT ![k] = "collected"]
          /\ gadget \in [Gadgets -> {"idle", "running", "ok", "bad", "collected"}]
          /\ \A g \in 1 .. k - 1 : gadget[g] = "collected"
          /\ UNCHANGED <<sharing, leftover, file, labels, next, outcome>>
      BY <1>a, Quiet DEF Wait, IInv, TypeOK, GadgetInv
    <2>2. \A g \in 1 .. k : gadget'[g] = "collected"
      BY <1>a, <2>1, RunAssumption DEF Gadgets
    <2>3. ~sharing /\ leftover = "none" =>
             /\ \A g \in Gadgets : gadget'[g] \in {"ok", "collected"} => file[g] = g
             /\ \A n \in DOMAIN fragments' : fragments'[n] = n
      BY <1>a, <1>c, <1>d, <1>e, <2>1 DEF IInv, GadgetInv, Gadgets
    <2>4. \A h \in labels : h < next
      BY DEF IInv, GadgetInv
    <2>5. CASE pc' = "wait"
      BY <1>d, <1>e, <1>f, <2>1, <2>2, <2>3, <2>4, <2>5
         DEF GadgetInv, BringUp, Attribution, WindDown
    <2>6. CASE pc' = "stop"
      BY <1>e, <1>f, <2>1, <2>2, <2>3, <2>4, <2>6
         DEF GadgetInv, BringUp, Attribution, WindDown, Gadgets
    <2>7. QED
      BY <1>f, <2>5, <2>6
  <1>6. TornDownOnceSteady'
    BY Quiet, RunAssumption
       DEF IInv, TypeOK, TornDownOnceSteady, DriverInv, Wait, Readable, Loop, Path,
           Goto, BringUp, Window, Gadgets, Instances, Attribution
  <1>7. HandleInv'
    BY Quiet, RunAssumption
       DEF IInv, TypeOK, HandleInv, DriverInv, Wait, Readable, Loop, Path, Goto,
           BringUp, Window, Gadgets, Instances, Attribution, WindDown
  <1>8. CallInv'
    BY Quiet, RunAssumption
       DEF IInv, TypeOK, CallInv, Wait, Readable, Loop, Path, Goto, BringUp, Window,
           Gadgets, Instances
  <1>9. MapInv'
    BY Quiet, RunAssumption
       DEF IInv, TypeOK, MapInv, DriverInv, Wait, Readable, Loop, Path, Goto, BringUp,
           Window, Gadgets, Instances, Attribution, Acknowledged
  <1>10. QED
    BY <1>1, <1>2, <1>3, <1>4, <1>5, <1>6, <1>7, <1>8, <1>9, Quiet DEF IInv, Wait

\* Stopping the workload changes nothing else.
LEMMA StopIInv ==
    ASSUME IInv, Stop
    PROVE  IInv'
  <1>1. TypeOK'
    BY Quiet, RunAssumption
       DEF IInv, TypeOK, DriverInv, Stop, Goto, StopWorkload, captured, BringUp, Window,
           Gadgets, Instances, Attribution, Steps
  <1>2. DriverInv'
    BY Quiet, RunAssumption
       DEF IInv, TypeOK, DriverInv, Stop, Goto, StopWorkload, BringUp, Window, Gadgets,
           Instances, Attribution
  <1>3. InstanceInv'
    BY Quiet, RunAssumption
       DEF IInv, TypeOK, InstanceInv, DriverInv, Stop, Goto, StopWorkload, BringUp,
           Window, Gadgets, Instances, Attribution
  <1>4. TapInv'
    BY Quiet, RunAssumption
       DEF IInv, TypeOK, TapInv, DriverInv, Stop, Goto, StopWorkload, BringUp, Window,
           Gadgets, Instances, Attribution
  <1>5. GadgetInv'
    BY Quiet, RunAssumption
       DEF IInv, TypeOK, GadgetInv, DriverInv, Stop, Goto, StopWorkload, captured,
           BringUp, Window, Gadgets, Instances, Attribution, WindDown
  <1>6. TornDownOnceSteady'
    BY Quiet, RunAssumption
       DEF IInv, TypeOK, TornDownOnceSteady, DriverInv, Stop, Goto, StopWorkload,
           BringUp, Window, Gadgets, Instances, Attribution
  <1>7. HandleInv'
    BY Quiet, RunAssumption
       DEF IInv, TypeOK, HandleInv, DriverInv, Stop, Goto, StopWorkload, BringUp,
           Window, Gadgets, Instances, Attribution, WindDown
  <1>8. CallInv'
    BY Quiet, RunAssumption
       DEF IInv, TypeOK, CallInv, Stop, Goto, StopWorkload, BringUp, Window, Gadgets,
           Instances
  <1>9. MapInv'
    BY Quiet, RunAssumption
       DEF IInv, TypeOK, MapInv, DriverInv, Stop, Goto, StopWorkload, BringUp, Window,
           Gadgets, Instances, Attribution, Acknowledged
  <1>10. QED
    BY <1>1, <1>2, <1>3, <1>4, <1>5, <1>6, <1>7, <1>8, <1>9, Quiet DEF IInv, Stop

\* The window is over; what was registered is deregistered.
LEMMA SpansIInv ==
    ASSUME IInv, Spans
    PROVE  IInv'
  <1>1. TypeOK'
    BY Quiet, RunAssumption
       DEF IInv, TypeOK, DriverInv, Spans, Goto, Cleanup, load, captured, After,
           BringUp, Window, Gadgets, Instances, Attribution, Steps
  <1>2. DriverInv'
    BY Quiet, RunAssumption
       DEF IInv, TypeOK, DriverInv, Spans, Goto, Cleanup, After, BringUp, Window,
           Gadgets, Instances, Attribution
  <1>3. InstanceInv'
    BY Quiet, RunAssumption
       DEF IInv, TypeOK, InstanceInv, DriverInv, Spans, Goto, Cleanup, After, BringUp,
           Window, Gadgets, Instances, Attribution
  <1>4. TapInv'
    BY Quiet, RunAssumption
       DEF IInv, TypeOK, TapInv, DriverInv, Spans, Goto, Cleanup, After, BringUp,
           Window, Gadgets, Instances, Attribution
  <1>5. GadgetInv'
    BY Quiet, RunAssumption
       DEF IInv, TypeOK, GadgetInv, DriverInv, Spans, Goto, Cleanup, load, captured,
           After, BringUp, Window, Gadgets, Instances, Attribution, WindDown
  <1>6. TornDownOnceSteady'
    BY Quiet, RunAssumption
       DEF IInv, TypeOK, TornDownOnceSteady, DriverInv, Spans, Goto, Cleanup, After,
           BringUp, Window, Gadgets, Instances, Attribution
  <1>7. HandleInv'
    BY Quiet, RunAssumption
       DEF IInv, TypeOK, HandleInv, DriverInv, Spans, Goto, Cleanup, After, BringUp,
           Window, Gadgets, Instances, Attribution, WindDown
  <1>8. CallInv'
    BY Quiet, RunAssumption
       DEF IInv, TypeOK, CallInv, Spans, Goto, Cleanup, After, BringUp, Window, Gadgets,
           Instances
  <1>9. MapInv'
    BY Quiet, RunAssumption
       DEF IInv, TypeOK, MapInv, DriverInv, Spans, Goto, Cleanup, After, BringUp,
           Window, Gadgets, Instances, Attribution, Acknowledged
  <1>10. QED
    BY <1>1, <1>2, <1>3, <1>4, <1>5, <1>6, <1>7, <1>8, <1>9, Quiet DEF IInv, Spans

\* A single command target has no session to clean up.
LEMMA SpansFailsIInv ==
    ASSUME IInv, SpansFails
    PROVE  IInv'
  <1>1. TypeOK'
    BY Quiet, RunAssumption
       DEF IInv, TypeOK, DriverInv, SpansFails, Fail, load, captured, Goto, BringUp,
           Window, Gadgets, Instances, Attribution, Steps
  <1>2. DriverInv'
    BY Quiet, RunAssumption
       DEF IInv, TypeOK, DriverInv, SpansFails, Fail, Goto, BringUp, Window, Gadgets,
           Instances, Attribution
  <1>3. InstanceInv'
    BY Quiet, RunAssumption
       DEF IInv, TypeOK, InstanceInv, DriverInv, SpansFails, Fail, Goto, BringUp,
           Window, Gadgets, Instances, Attribution
  <1>4. TapInv'
    BY Quiet, RunAssumption
       DEF IInv, TypeOK, TapInv, DriverInv, SpansFails, Fail, Goto, BringUp, Window,
           Gadgets, Instances, Attribution
  <1>5. GadgetInv'
    BY Quiet, RunAssumption
       DEF IInv, TypeOK, GadgetInv, DriverInv, SpansFails, Fail, load, captured, Goto,
           BringUp, Window, Gadgets, Instances, Attribution, WindDown
  <1>6. TornDownOnceSteady'
    BY Quiet, RunAssumption
       DEF IInv, TypeOK, TornDownOnceSteady, DriverInv, SpansFails, Fail, Goto, BringUp,
           Window, Gadgets, Instances, Attribution
  <1>7. HandleInv'
    BY Quiet, RunAssumption
       DEF IInv, TypeOK, HandleInv, DriverInv, SpansFails, Fail, Goto, BringUp, Window,
           Gadgets, Instances, Attribution, WindDown
  <1>8. CallInv'
    BY Quiet, RunAssumption
       DEF IInv, TypeOK, CallInv, SpansFails, Fail, Goto, BringUp, Window, Gadgets,
           Instances
  <1>9. MapInv'
    <2>1. next = 0
      BY SessionTypes DEF SpansFails, IInv, HandleInv
    <2>2. DOMAIN vmap' = {} /\ pc' = "returned"
      BY <2>1, NothingKnown, Quiet DEF SpansFails, Fail, Goto
    <2>3. QED
      BY <2>2 DEF MapInv, Window
  <1>10. QED
    BY <1>1, <1>2, <1>3, <1>4, <1>5, <1>6, <1>7, <1>8, <1>9, Quiet DEF IInv, SpansFails

\* The entry of one handle more is gone, if the owner could be told.
LEMMA DeregisteredIInv ==
    ASSUME IInv, Deregistered
    PROVE  IInv'
  <1>1. TypeOK'
    BY Quiet, RunAssumption
       DEF IInv, TypeOK, DriverInv, Deregistered, Goto, load, captured, BringUp, Window,
           Gadgets, Instances, Attribution, Steps
  <1>2. DriverInv'
    BY Quiet, RunAssumption
       DEF IInv, TypeOK, DriverInv, Deregistered, Goto, BringUp, Window, Gadgets,
           Instances, Attribution
  <1>3. InstanceInv'
    BY Quiet, RunAssumption
       DEF IInv, TypeOK, InstanceInv, DriverInv, Deregistered, Goto, BringUp, Window,
           Gadgets, Instances, Attribution
  <1>4. TapInv'
    BY Quiet, RunAssumption
       DEF IInv, TypeOK, TapInv, DriverInv, Deregistered, Goto, BringUp, Window,
           Gadgets, Instances, Attribution
  <1>5. GadgetInv'
    BY Quiet, RunAssumption
       DEF IInv, TypeOK, GadgetInv, DriverInv, Deregistered, Goto, load, captured,
           BringUp, Window, Gadgets, Instances, Attribution, WindDown
  <1>6. TornDownOnceSteady'
    BY Quiet, RunAssumption
       DEF IInv, TypeOK, TornDownOnceSteady, DriverInv, Deregistered, Goto, BringUp,
           Window, Gadgets, Instances, Attribution
  <1>7. HandleInv'
    BY Quiet, RunAssumption
       DEF IInv, TypeOK, HandleInv, DriverInv, Deregistered, Goto, BringUp, Window,
           Gadgets, Instances, Attribution, WindDown
  <1>8. CallInv'
    BY Quiet, RunAssumption
       DEF IInv, TypeOK, CallInv, Deregistered, Goto, BringUp, Window, Gadgets,
           Instances
  <1>9. MapInv'
    <2>1. /\ pc = "deregistering" /\ call = NA!NoCall
          /\ k \in Nat /\ Len(attributed) \in Nat /\ k <= Len(attributed)
      BY DEF Deregistered, IInv, TypeOK, DriverInv
    <2>2. ~poisoned => reqs = <<>>
      BY <2>1 DEF IInv, NA!IInv, NA!ChannelInv
    <2>3. ~poisoned /\ owner = "serving" => DOMAIN vmap = k + 1 .. Len(attributed)
      BY <2>1, <2>2 DEF IInv, MapInv, Window
    <2>4. CASE k < Len(attributed)
      BY <2>3, <2>4, Quiet DEF MapInv, Window, Deregistered
    <2>5. CASE ~(k < Len(attributed))
      <3>1. k + 1 .. Len(attributed) = {}
        BY <2>1, <2>5
      <3>2. QED
        BY <2>3, <2>5, <3>1, Quiet DEF MapInv, Window, Deregistered, Goto
    <2>6. QED
      BY <2>4, <2>5
  <1>10. QED
    BY <1>1, <1>2, <1>3, <1>4, <1>5, <1>6, <1>7, <1>8, <1>9, Quiet DEF IInv, Deregistered

\* A run that is still a success has torn down every instance.
LEMMA TeardownIInv ==
    ASSUME IInv, Teardown
    PROVE  IInv'
  <1>1. TypeOK'
    BY Quiet, RunAssumption
       DEF IInv, TypeOK, DriverInv, Teardown, Goto, load, Instances, captured, BringUp,
           Window, Gadgets, Attribution, Steps
  <1>2. DriverInv'
    BY Quiet, RunAssumption
       DEF IInv, TypeOK, DriverInv, Teardown, Goto, Instances, BringUp, Window, Gadgets,
           Attribution
  <1>3. InstanceInv'
    BY Quiet, RunAssumption
       DEF IInv, TypeOK, InstanceInv, DriverInv, Teardown, Goto, Instances, BringUp,
           Window, Gadgets, Attribution
  <1>4. TapInv'
    BY Quiet, RunAssumption
       DEF IInv, TypeOK, TapInv, DriverInv, Teardown, Goto, Instances, BringUp, Window,
           Gadgets, Attribution
  <1>5. GadgetInv'
    BY Quiet, RunAssumption
       DEF IInv, TypeOK, GadgetInv, DriverInv, Teardown, Goto, load, Instances,
           captured, BringUp, Window, Gadgets, Attribution, WindDown
  <1>6. TornDownOnceSteady'
    BY Quiet, RunAssumption
       DEF IInv, TypeOK, TornDownOnceSteady, DriverInv, Teardown, Goto, Instances,
           BringUp, Window, Gadgets, Attribution
  <1>7. HandleInv'
    BY Quiet, RunAssumption
       DEF IInv, TypeOK, HandleInv, DriverInv, Teardown, Goto, Instances, BringUp,
           Window, Gadgets, Attribution, WindDown
  <1>8. CallInv'
    BY Quiet, RunAssumption
       DEF IInv, TypeOK, CallInv, Teardown, Goto, Instances, BringUp, Window, Gadgets
  <1>9. MapInv'
    BY Quiet, RunAssumption
       DEF IInv, TypeOK, MapInv, DriverInv, Teardown, Goto, Instances, BringUp, Window,
           Gadgets, Attribution, Acknowledged
  <1>10. QED
    BY <1>1, <1>2, <1>3, <1>4, <1>5, <1>6, <1>7, <1>8, <1>9, Quiet DEF IInv, Teardown

\* What a gadget writes is its own, with labels of handles that were taken.
LEMMA GadgetExitsIInv ==
    ASSUME IInv, NEW g \in Gadgets, GadgetExits(g)
    PROVE  IInv'
  <1>1. Path(g) \in Gadgets /\ (~sharing => Path(g) = g)
    BY RunAssumption DEF Path, Gadgets
  <1>2. /\ pc' = pc /\ k' = k /\ outcome' = outcome /\ fragments' = fragments
        /\ sharing' = sharing /\ leftover' = leftover /\ next' = next
        /\ UNCHANGED <<width, attrib, target, inst, taps, blocking, workload, attributed, torn>>
    BY Quiet DEF GadgetExits, load
  <1>3. labels' \subseteq Nat /\ \A h \in labels' : h < next
    <2>1. \A i \in DOMAIN vmap : vmap[i].vm_id \in Nat /\ vmap[i].vm_id < next
      <3> SUFFICES ASSUME NEW i \in DOMAIN vmap
                   PROVE  vmap[i].vm_id \in Nat /\ vmap[i].vm_id < next
        OBVIOUS
      <3>1. i \in Nat /\ i >= 1 /\ next \in Nat
        BY SessionTypes, RunAssumption DEF IInv
      <3>2. vmap[i].vm_id = i - 1 /\ i <= next
        BY Shape DEF IInv
      <3>3. QED
        BY <3>1, <3>2
    <2>2. labels \subseteq Nat /\ \A h \in labels : h < next
      BY DEF IInv, TypeOK, GadgetInv
    <2>3. labels' \subseteq labels \cup {vmap[i].vm_id : i \in DOMAIN vmap}
      BY DEF GadgetExits
    <2>4. QED
      BY <2>1, <2>2, <2>3
  <1>4. /\ gadget' \in [Gadgets -> {"idle", "running", "ok", "bad", "collected"}]
        /\ file' \in [Gadgets -> Gadgets \cup {Garbled, EarlierRun}]
    BY <1>1 DEF GadgetExits, IInv, TypeOK
  <1>5. TypeOK'
    BY <1>2, <1>3, <1>4 DEF IInv, TypeOK, Instances
  <1>6. GadgetInv'
    <2>1. \A o \in Gadgets : gadget[o] = "collected" => gadget'[o] = "collected"
      BY DEF GadgetExits, IInv, TypeOK
    <2>2. ASSUME ~sharing, leftover = "none", NEW o \in Gadgets,
                 gadget'[o] \in {"ok", "collected"}
          PROVE  file'[o] = o
      BY <1>1, <2>2 DEF GadgetExits, IInv, TypeOK, GadgetInv
    <2>3. pc = "wait" => k \in Gadgets
      BY DEF IInv, DriverInv
    <2>4. pc = "wait" => \A o \in 1 .. k - 1 : o \in Gadgets
      BY <2>3, RunAssumption DEF Gadgets
    <2>5. QED
      BY <1>2, <1>3, <2>1, <2>2, <2>4 DEF IInv, GadgetInv
  <1>7. InstanceInv' /\ TornDownOnceSteady'
    BY <1>2 DEF IInv, InstanceInv, TornDownOnceSteady, Instances
  <1>8. QED
    BY <1>2, <1>5, <1>6, <1>7, Environment DEF GadgetExits

\* A gadget of an earlier invocation may write over a file.
LEMMA LeftoverWritesIInv ==
    ASSUME IInv, LeftoverWrites
    PROVE  IInv'
  <1>1. PICK g \in Gadgets : file' = [file EXCEPT ![Path(g)] = EarlierRun]
    BY DEF LeftoverWrites
  <1>2. Path(g) \in Gadgets
    BY RunAssumption DEF Path, Gadgets
  <1>3. TypeOK'
    BY <1>1, <1>2 DEF IInv, TypeOK, LeftoverWrites, load, Instances, Gadgets
  <1>4. GadgetInv'
    BY Quiet DEF IInv, GadgetInv, LeftoverWrites, Gadgets
  <1>5. InstanceInv' /\ TornDownOnceSteady'
    BY DEF IInv, InstanceInv, TornDownOnceSteady, Instances, LeftoverWrites
  <1>6. QED
    BY <1>3, <1>4, <1>5, Environment DEF LeftoverWrites

\* An instance that dies had been steady.
LEMMA InstanceDiesIInv ==
    ASSUME IInv, NEW i \in 1 .. MaxInstances, InstanceDies(i)
    PROVE  IInv'
  <1>1. TypeOK'
    BY DEF IInv, TypeOK, InstanceDies, captured, load, Instances
  <1>2. GadgetInv'
    BY Quiet DEF IInv, GadgetInv, InstanceDies, captured
  <1>3. InstanceInv' /\ TornDownOnceSteady'
    BY DEF IInv, TypeOK, InstanceInv, TornDownOnceSteady, Instances, InstanceDies
  <1>4. QED
    BY <1>1, <1>2, <1>3, Environment DEF InstanceDies

-----------------------------------------------------------------------------
(* The driver and its session. *)

\* What sending a command does to a channel that is not in use.
LEMMA Sent ==
    ASSUME IInv, call = NA!NoCall, NEW c, NA!Send(c), UNCHANGED <<owner, replies>>
    PROVE  \/ /\ poisoned /\ poisoned' /\ result' = "err"
              /\ UNCHANGED <<call, reqs>>
           \/ /\ ~poisoned /\ poisoned' /\ result' = "err" /\ owner /= "serving"
              /\ UNCHANGED <<call, reqs>> /\ reqs = <<>>
           \/ /\ ~poisoned /\ ~poisoned' /\ result' = "none" /\ owner = "serving"
              /\ call' = c /\ reqs' = <<c>> /\ replies' = <<>>
  <1>1. ~poisoned => reqs = <<>> /\ replies = <<>>
    BY DEF IInv, NA!IInv, NA!ChannelInv
  <1>2. Append(<<>>, c) = <<c>>
    OBVIOUS
  <1>3. CASE /\ poisoned /\ result' = "err"
             /\ poisoned' = poisoned /\ call' = call /\ reqs' = reqs
    BY <1>3
  <1>4. CASE /\ ~poisoned /\ owner /= "serving" /\ poisoned' = TRUE /\ result' = "err"
             /\ call' = call /\ reqs' = reqs
    BY <1>1, <1>4
  <1>5. CASE /\ ~poisoned /\ owner = "serving" /\ call' = c /\ reqs' = Append(reqs, c)
             /\ result' = "none" /\ poisoned' = poisoned
    BY <1>1, <1>2, <1>5
  <1>6. QED
    BY <1>3, <1>4, <1>5, Zenon DEF NA!Send

\* The head of a channel that holds one command.
LEMMA HeadOfOne ==
    ASSUME NEW c
    PROVE  <<c>> /= <<>> /\ Head(<<c>>) = c /\ Tail(<<c>>) = <<>>
  OBVIOUS

\* An instance's add is sent under a fresh handle; no entry is behind it yet.
LEMMA RegisterVmIInv ==
    ASSUME IInv, RegisterVm
    PROVE  IInv'
  <1> DEFINE c == NA!AddCmd(k, next)
  <1>1. /\ pc = "attribute" /\ pc' = "registering" /\ target = "tap" /\ attrib
        /\ call = NA!NoCall /\ ~poisoned
        /\ NA!Send(c) /\ next' = next + 1
        /\ UNCHANGED <<owner, vmap, replies, table, applied>>
        /\ UNCHANGED <<k, outcome, width, attrib, target, inst, taps, gadget, attributed, torn>>
        /\ UNCHANGED <<sharing, file, leftover, fragments, labels, blocking, workload>>
    BY DEF RegisterVm, NA!Register, NA!Ready, NA!ownerVars, captured, load,
           IInv, CallInv, HandleInv, BringUp
  <1>2. /\ k \in Nat /\ k >= 1 /\ k <= width /\ width \in Nat /\ width <= MaxInstances
        /\ next = k - 1 /\ Len(attributed) = k - 1
    BY <1>1, RunAssumption DEF IInv, TypeOK, DriverInv, HandleInv, Attribution, Instances
  <1>3. \/ /\ poisoned' /\ result' = "err" /\ owner /= "serving"
           /\ UNCHANGED <<call, reqs>>
        \/ /\ ~poisoned' /\ result' = "none" /\ owner = "serving"
           /\ call' = c /\ reqs' = <<c>> /\ replies' = <<>>
    BY <1>1, Sent
  <1>4. c = NA!AddCmd(k, k - 1) /\ c.op = "add" /\ c.handle = k - 1 /\ c.ifindex = k
    BY <1>2 DEF NA!AddCmd
  <1>5. c /= NA!NoCall
    BY <1>4 DEF NA!NoCall
  <1> HIDE DEF c
  <1>6. NA!IInv'
    <2>1. k \in 1 .. MaxInstances
      BY <1>2, RunAssumption
    <2>2. QED
      BY <2>1, RegisterSession DEF IInv, RegisterVm
  <1>7. TypeOK'
    BY <1>1 DEF IInv, TypeOK, Instances, Gadgets, Steps
  <1>8. DriverInv' /\ InstanceInv' /\ TapInv' /\ TornDownOnceSteady'
    BY <1>1 DEF IInv, DriverInv, InstanceInv, TapInv, TornDownOnceSteady,
                BringUp, Attribution, Window, Instances, Gadgets
  <1>9. GadgetInv'
    <2>1. \A h \in labels' : h < next'
      BY <1>1, <1>2 DEF IInv, TypeOK, GadgetInv
    <2>2. QED
      BY <1>1, <2>1 DEF IInv, GadgetInv, BringUp, Attribution, Window, WindDown, Gadgets
  <1>10. HandleInv'
    BY <1>1, <1>2 DEF IInv, HandleInv, BringUp, Attribution, Window, WindDown
  <1>11. CallInv'
    BY <1>1, <1>3, <1>4, HeadOfOne DEF CallInv, BringUp, Window
  <1>12. EntryInv'
    <2>1. reqs' /= <<>> =>
             /\ Head(reqs').op = "add" => Head(reqs').ifindex = Head(reqs').handle + 1
             /\ Head(reqs').op = "state" => Head(reqs').state = "RUNNING"
      BY <1>2, <1>3, <1>4, HeadOfOne DEF IInv, EntryInv
    <2>2. QED
      BY <1>1, <2>1 DEF IInv, EntryInv
  <1>13. MapInv'
    BY <1>1, <1>3, <1>5 DEF IInv, MapInv, Acknowledged
  <1>14. QED
    BY <1>6, <1>7, <1>8, <1>9, <1>10, <1>11, <1>12, <1>13 DEF IInv

\* The add was acknowledged: the handle joins the list that is later removed.
LEMMA RegisteredIInv ==
    ASSUME IInv, Registered
    PROVE  IInv'
  <1> DEFINE c == NA!StateCmd(next - 1, "RUNNING")
  <1>1. /\ pc = "registering" /\ pc' = "stating" /\ target = "tap" /\ attrib
        /\ call = NA!NoCall /\ result = "ok" /\ ~poisoned
        /\ NA!Send(c) /\ attributed' = Append(attributed, next - 1)
        /\ UNCHANGED <<owner, vmap, replies, next, table, applied>>
        /\ UNCHANGED <<k, outcome, width, attrib, target, inst, taps, gadget, torn>>
        /\ UNCHANGED <<sharing, file, leftover, fragments, labels, blocking, workload>>
    BY DEF Registered, NA!SetState, NA!Ready, NA!ownerVars, captured, load,
           IInv, CallInv, HandleInv
  <1>2. /\ k \in Nat /\ k >= 1 /\ k <= width /\ width \in Nat
        /\ next = k /\ Len(attributed) = k - 1 /\ attributed \in Seq(Nat)
        /\ k - 1 \in DOMAIN table
    BY <1>1, RunAssumption
       DEF IInv, TypeOK, DriverInv, HandleInv, CallInv, Attribution, Instances
  <1>3. \/ /\ poisoned' /\ result' = "err" /\ owner /= "serving"
           /\ UNCHANGED <<call, reqs>>
        \/ /\ ~poisoned' /\ result' = "none" /\ owner = "serving"
           /\ call' = c /\ reqs' = <<c>> /\ replies' = <<>>
    BY <1>1, Sent
  <1>4. c = NA!StateCmd(k - 1, "RUNNING") /\ c.op = "state" /\ c.state = "RUNNING"
    BY <1>2 DEF NA!StateCmd
  <1> HIDE DEF c
  <1>5. /\ attributed' \in Seq(Nat) /\ Len(attributed') = k
        /\ attributed'[k] = k - 1
        /\ \A j \in 1 .. k - 1 : attributed'[j] = attributed[j]
    BY <1>1, <1>2, AppendProperties
  <1>6. NA!IInv'
    BY <1>2, SetStateSession DEF IInv, Registered
  <1>7. TypeOK'
    BY <1>1, <1>5 DEF IInv, TypeOK, Instances, Gadgets, Steps
  <1>8. DriverInv' /\ InstanceInv' /\ TapInv' /\ TornDownOnceSteady'
    BY <1>1 DEF IInv, DriverInv, InstanceInv, TapInv, TornDownOnceSteady,
                BringUp, Attribution, Window, Instances, Gadgets
  <1>9. GadgetInv'
    BY <1>1 DEF IInv, GadgetInv, BringUp, Attribution, Window, WindDown, Gadgets
  <1>10. HandleInv'
    <2>1. \A j \in 1 .. k : attributed'[j] = j - 1 /\ j - 1 \in DOMAIN table
      <3>1. \A j \in 1 .. k - 1 : attributed[j] = j - 1 /\ j - 1 \in DOMAIN table
        BY <1>2 DEF IInv, HandleInv
      <3>2. \A j \in 1 .. k : j = k \/ j \in 1 .. k - 1
        BY <1>2
      <3>3. QED
        BY <1>2, <1>5, <3>1, <3>2
    <2>2. QED
      BY <1>1, <1>2, <1>5, <2>1 DEF HandleInv, BringUp, Window, WindDown
  <1>11. CallInv'
    BY <1>1, <1>3, <1>4, HeadOfOne DEF CallInv, BringUp, Window
  <1>12. EntryInv'
    <2>1. reqs' /= <<>> =>
             /\ Head(reqs').op = "add" => Head(reqs').ifindex = Head(reqs').handle + 1
             /\ Head(reqs').op = "state" => Head(reqs').state = "RUNNING"
      BY <1>2, <1>3, <1>4, HeadOfOne DEF IInv, EntryInv
    <2>2. QED
      BY <1>1, <2>1 DEF IInv, EntryInv
  <1>13. MapInv'
    <2>1. Acknowledged
      BY <1>1 DEF Acknowledged
    <2>2. ~poisoned /\ owner = "serving" => DOMAIN vmap = 1 .. k
      BY <1>1, <2>1 DEF IInv, MapInv
    <2>3. QED
      BY <1>1, <1>3, <1>5, <2>2 DEF MapInv
  <1>14. QED
    BY <1>6, <1>7, <1>8, <1>9, <1>10, <1>11, <1>12, <1>13 DEF IInv

\* A removal is sent for a handle of the list, before any tap goes.
LEMMA DeregisterVmIInv ==
    ASSUME IInv, DeregisterVm
    PROVE  IInv'
  <1> DEFINE c == NA!RemoveCmd(attributed[k])
  <1>1. /\ pc = "deregister" /\ pc' = "deregistering"
        /\ call = NA!NoCall /\ NA!Send(c)
        /\ UNCHANGED <<owner, vmap, replies, next, table, applied>>
        /\ UNCHANGED <<k, outcome, width, attrib, target, inst, taps, gadget, attributed, torn>>
        /\ UNCHANGED <<sharing, file, leftover, fragments, labels, blocking, workload>>
    BY DEF DeregisterVm, NA!Deregister, NA!Ready, NA!ownerVars, captured, load
  <1>2. attributed[k] = k - 1 /\ k - 1 \in DOMAIN table /\ k \in Nat
    BY <1>1 DEF IInv, TypeOK, DriverInv, HandleInv
  <1>3. \/ /\ poisoned' /\ UNCHANGED <<call, reqs>>
        \/ /\ ~poisoned /\ ~poisoned' /\ call' = c /\ reqs' = <<c>>
    BY <1>1, Sent
  <1>4. c = NA!RemoveCmd(k - 1) /\ c.op = "remove"
    BY <1>2 DEF NA!RemoveCmd
  <1> HIDE DEF c
  <1>5. NA!IInv'
    BY <1>2, DeregisterSession DEF IInv, DeregisterVm
  <1>6. TypeOK'
    BY <1>1 DEF IInv, TypeOK, Instances, Gadgets, Steps
  <1>7. DriverInv' /\ InstanceInv' /\ TapInv' /\ TornDownOnceSteady'
    BY <1>1 DEF IInv, DriverInv, InstanceInv, TapInv, TornDownOnceSteady,
                BringUp, Attribution, Window, Instances, Gadgets
  <1>8. GadgetInv'
    BY <1>1 DEF IInv, GadgetInv, BringUp, Attribution, Window, WindDown, Gadgets
  <1>9. HandleInv'
    BY <1>1 DEF IInv, HandleInv, BringUp, Window, WindDown
  <1>10. CallInv'
    BY <1>1, <1>3, <1>4, HeadOfOne DEF CallInv, BringUp, Window
  <1>11. EntryInv'
    <2>1. reqs' /= <<>> =>
             /\ Head(reqs').op = "add" => Head(reqs').ifindex = Head(reqs').handle + 1
             /\ Head(reqs').op = "state" => Head(reqs').state = "RUNNING"
      BY <1>3, <1>4, HeadOfOne DEF IInv, EntryInv
    <2>2. QED
      BY <1>1, <2>1 DEF IInv, EntryInv
  <1>12. MapInv'
    BY <1>1, <1>3, HeadOfOne DEF IInv, MapInv, Window
  <1>13. QED
    BY <1>5, <1>6, <1>7, <1>8, <1>9, <1>10, <1>11, <1>12 DEF IInv

\* A step of the control plane: the driver is where it was.
LEMMA Control ==
    ASSUME IInv, UNCHANGED runVars, next' = next, DOMAIN table \subseteq DOMAIN table',
           NA!IInv', CallInv', EntryInv', MapInv'
    PROVE  IInv'
  <1>1. /\ UNCHANGED <<pc, k, outcome, width, attrib, target, inst, taps, gadget, attributed, torn>>
        /\ UNCHANGED <<sharing, file, leftover, fragments, labels, blocking, workload>>
    BY DEF runVars, captured, load
  <1>2. TypeOK'
    BY <1>1 DEF IInv, TypeOK, Instances
  <1>3. DriverInv' /\ InstanceInv' /\ TapInv' /\ TornDownOnceSteady'
    BY <1>1 DEF IInv, DriverInv, InstanceInv, TapInv, TornDownOnceSteady, Instances
  <1>4. GadgetInv'
    BY <1>1 DEF IInv, GadgetInv
  <1>5. HandleInv'
    BY <1>1 DEF IInv, HandleInv
  <1>6. QED
    BY <1>2, <1>3, <1>4, <1>5 DEF IInv

\* The owner is gone: a healthy owner's entries are no longer the question.
LEMMA OwnerDownIInv ==
    ASSUME IInv, NA!CloseWindow \/ NA!Kill, UNCHANGED runVars
    PROVE  IInv'
  <1>1. /\ owner' = "down" /\ reqs' = <<>>
        /\ vmap' = vmap \/ DOMAIN vmap' = {}
        /\ UNCHANGED <<replies, poisoned, call, result, next, table, applied>>
    BY DEF NA!CloseWindow, NA!Kill, NA!clientVars, NA!Empty
  <1>2. UNCHANGED <<pc, k>>
    BY DEF runVars
  <1>3. NA!IInv'
    BY OwnerDownSession DEF IInv
  <1>4. CallInv'
    BY <1>1, <1>2 DEF IInv, CallInv
  <1>5. EntryInv'
    BY <1>1 DEF IInv, EntryInv
  <1>6. MapInv'
    BY <1>1 DEF MapInv
  <1>7. QED
    BY <1>1, <1>3, <1>4, <1>5, <1>6, Control

\* The driver waits for a reply at three of its steps.
LEMMA Waiting ==
    ASSUME IInv, call /= NA!NoCall
    PROVE  /\ pc \in {"registering", "stating", "deregistering"}
           /\ ~poisoned
           /\ reqs /= <<>> => reqs = <<call>> /\ replies = <<>>
           /\ replies /= <<>> =>
                 reqs = <<>> /\ \E b \in BOOLEAN : replies = <<[of |-> call, ok |-> b]>>
  BY DEF IInv, CallInv, NA!IInv, NA!ChannelInv

\* The end of a pending command tells the driver what the owner did, or poisons
\* the channel; the map is the owner's and stays.
LEMMA ReadIInv ==
    ASSUME IInv, NA!ReadNext, UNCHANGED runVars
    PROVE  IInv'
  <1>1. /\ UNCHANGED <<pc, k, attributed>>
        /\ UNCHANGED <<owner, vmap, reqs, next, applied>>
        /\ call /= NA!NoCall /\ call' = NA!NoCall
    BY DEF runVars, NA!ReadNext, NA!ReadReply, NA!ReadFails, NA!ReadEof, NA!ownerVars
  <1>2. NA!IInv' /\ EntryInv'
    BY <1>1, ReadSession DEF IInv, EntryInv
  <1>3. /\ pc \in {"registering", "stating", "deregistering"}
        /\ ~poisoned
    BY <1>1, Waiting
  <1>4. CASE NA!ReadReply
    <2>1. PICK b \in BOOLEAN : replies = <<[of |-> call, ok |-> b]>>
      BY <1>1, <1>4, Waiting DEF NA!ReadReply
    <2>2. /\ reqs = <<>> /\ replies /= <<>> /\ Head(replies).ok = b
          /\ poisoned' = poisoned
          /\ result' = IF b THEN "ok" ELSE "err"
          /\ table' = IF call.op = "add" /\ b
                      THEN NA!Put(table, call.handle, call.ifindex) ELSE table
      BY <1>1, <1>4, <2>1, Waiting DEF NA!ReadReply
    <2>3. /\ DOMAIN table \subseteq DOMAIN table'
          /\ call.op = "add" /\ b => call.handle \in DOMAIN table'
      BY <2>2 DEF NA!Put
    <2>4. pc = "registering" => call.op = "add" /\ call.handle = k - 1
      BY <1>1 DEF IInv, CallInv, NA!AddCmd
    <2>5. CallInv'
      BY <1>1, <1>3, <2>2, <2>3, <2>4 DEF CallInv, BringUp, Window
    <2>6. Acknowledged' = Acknowledged
      BY <1>1, <2>2 DEF Acknowledged
    <2>7. MapInv'
      BY <1>1, <2>2, <2>6 DEF IInv, MapInv
    <2>8. QED
      BY <1>1, <1>2, <2>3, <2>5, <2>7, Control
  <1>5. CASE NA!ReadFails \/ NA!ReadEof
    <2>1. /\ result' = "err" /\ table' = table
          /\ poisoned' \/ owner = "down"
      BY <1>5 DEF NA!ReadFails, NA!ReadEof
    <2>2. CallInv'
      BY <1>1, <1>3, <2>1 DEF CallInv, BringUp, Window
    <2>3. MapInv'
      BY <1>1, <2>1 DEF MapInv
    <2>4. QED
      BY <1>1, <1>2, <2>1, <2>2, <2>3, Control
  <1>6. QED
    BY <1>4, <1>5 DEF NA!ReadNext

\* What the owner does with the command at the head of its queue: an entry it
\* adds is keyed by the instance, and the others keep their keys and handles.
LEMMA ServeEntries ==
    ASSUME IInv, NA!Serve
    PROVE  /\ EntryInv'
           /\ reqs' = <<>> /\ reqs /= <<>>
           /\ \E b \in BOOLEAN :
                 /\ replies' = Append(replies, [of |-> Head(reqs), ok |-> b])
                 /\ Head(reqs).op = "add" =>
                       DOMAIN vmap' = IF b THEN DOMAIN vmap \cup {Head(reqs).ifindex} ELSE DOMAIN vmap
                 /\ Head(reqs).op = "state" => DOMAIN vmap' = DOMAIN vmap
                 /\ Head(reqs).op = "remove" =>
                       DOMAIN vmap' = DOMAIN vmap \ {Head(reqs).handle + 1}
  <1> DEFINE c == Head(reqs)
             entry == [vm_id |-> c.handle, lifecycle_state |-> "RUNNING"]
  <1>1. reqs /= <<>> /\ reqs = <<c>> /\ reqs' = Tail(reqs)
    BY DEF NA!Serve, IInv, NA!IInv, NA!ChannelInv
  <1>2. reqs' = <<>>
    BY <1>1, HeadOfOne
  <1>3. /\ c.op = "add" => c.ifindex = c.handle + 1
        /\ c.op = "state" => c.state = "RUNNING"
        /\ \A p \in applied : p[2] = p[1] + 1
        /\ \A i \in DOMAIN vmap : vmap[i].lifecycle_state = "RUNNING"
    BY <1>1 DEF IInv, EntryInv
  <1>4. vmap \in [DOMAIN vmap -> NA!VmCtx]
    BY SessionTypes DEF IInv
  <1>5. \A i \in NA!KeysForHandle(c.handle) : i \in DOMAIN vmap /\ i = c.handle + 1
    <2> SUFFICES ASSUME NEW i \in DOMAIN vmap, vmap[i].vm_id = c.handle
                 PROVE  i = c.handle + 1
      BY DEF NA!KeysForHandle
    <2>1. i \in Nat /\ vmap[i].vm_id = i - 1
      BY Shape DEF IInv
    <2>2. QED
      BY <2>1
  <1>6. CASE NA!ApplyAdd(c) /\ replies' = Append(replies, [of |-> c, ok |-> TRUE])
    <2>1. /\ c.op = "add" /\ vmap' = NA!Put(vmap, c.ifindex, entry)
          /\ applied' = applied \cup {<<c.handle, c.ifindex>>}
      BY <1>6 DEF NA!ApplyAdd
    <2>2. /\ DOMAIN vmap' = DOMAIN vmap \cup {c.ifindex}
          /\ \A i \in DOMAIN vmap' : vmap'[i] = IF i = c.ifindex THEN entry ELSE vmap[i]
      BY <2>1 DEF NA!Put
    <2>3. entry.lifecycle_state = "RUNNING"
      OBVIOUS
    <2> HIDE DEF entry
    <2>4. \A i \in DOMAIN vmap' : vmap'[i].lifecycle_state = "RUNNING"
      BY <1>3, <2>2, <2>3
    <2>5. \A p \in applied' : p[2] = p[1] + 1
      BY <1>3, <2>1
    <2>6. EntryInv'
      BY <1>2, <2>4, <2>5 DEF EntryInv
    <2>7. QED
      BY <1>1, <1>2, <1>6, <2>1, <2>2, <2>6
  <1>7. CASE NA!ApplyState(c) /\ replies' = Append(replies, [of |-> c, ok |-> TRUE])
    <2>1. PICK i \in NA!KeysForHandle(c.handle) :
             vmap' = [vmap EXCEPT ![i].lifecycle_state = c.state]
      BY <1>7 DEF NA!ApplyState
    <2>2. c.op = "state" /\ applied' = applied
      BY <1>7 DEF NA!ApplyState
    <2> DEFINE changed == [vmap[i] EXCEPT !.lifecycle_state = c.state]
    <2>3. vmap' = [vmap EXCEPT ![i] = changed]
      BY <2>1
    <2>4. changed.lifecycle_state = "RUNNING"
      BY <1>3, <1>4, <1>5, <2>2 DEF NA!VmCtx
    <2> HIDE DEF changed
    <2>5. /\ DOMAIN vmap' = DOMAIN vmap
          /\ \A j \in DOMAIN vmap' : vmap'[j].lifecycle_state = "RUNNING"
      BY <1>3, <1>4, <1>5, <2>3, <2>4
    <2>6. EntryInv'
      BY <1>2, <1>3, <2>2, <2>5 DEF EntryInv
    <2>7. QED
      BY <1>1, <1>2, <1>7, <2>2, <2>5, <2>6
  <1>8. CASE NA!ApplyRemove(c) /\ replies' = Append(replies, [of |-> c, ok |-> TRUE])
    <2>1. PICK i \in NA!KeysForHandle(c.handle) : vmap' = NA!Del(vmap, i)
      BY <1>8 DEF NA!ApplyRemove
    <2>2. c.op = "remove" /\ applied' = applied
      BY <1>8 DEF NA!ApplyRemove
    <2>3. /\ DOMAIN vmap' = DOMAIN vmap \ {c.handle + 1}
          /\ \A j \in DOMAIN vmap' : vmap'[j] = vmap[j]
      BY <1>5, <2>1 DEF NA!Del
    <2>4. EntryInv'
      BY <1>2, <1>3, <2>2, <2>3 DEF EntryInv
    <2>5. QED
      BY <1>1, <1>2, <1>8, <2>2, <2>3, <2>4
  <1>9. CASE NA!ApplyFails(c) /\ replies' = Append(replies, [of |-> c, ok |-> FALSE])
    <2>1. UNCHANGED <<vmap, applied>>
      BY <1>9 DEF NA!ApplyFails
    <2>2. EntryInv'
      BY <1>2, <1>3, <2>1 DEF EntryInv
    <2>3. c.op = "remove" => c.handle + 1 \notin DOMAIN vmap
      <3> SUFFICES ASSUME c.op = "remove", c.handle + 1 \in DOMAIN vmap
                   PROVE  FALSE
        OBVIOUS
      <3>1. NA!KeysForHandle(c.handle) = {}
        BY <1>9 DEF NA!ApplyFails
      <3>2. c.handle \in Nat
        BY <1>1 DEF IInv, NA!IInv, NA!TypeOK, NA!Command
      <3>3. vmap[c.handle + 1].vm_id = c.handle
        BY <3>2, Shape DEF IInv
      <3>4. QED
        BY <3>1, <3>3 DEF NA!KeysForHandle
    <2>4. QED
      BY <1>1, <1>2, <1>9, <2>1, <2>2, <2>3
  <1>10. QED
    BY <1>6, <1>7, <1>8, <1>9 DEF NA!Serve

\* The owner serves the one request that can be on the socket.
LEMMA ServeIInv ==
    ASSUME IInv, NA!Serve, UNCHANGED runVars
    PROVE  IInv'
  <1>1. PICK b \in BOOLEAN :
           /\ replies' = Append(replies, [of |-> Head(reqs), ok |-> b])
           /\ Head(reqs).op = "add" =>
                 DOMAIN vmap' = IF b THEN DOMAIN vmap \cup {Head(reqs).ifindex} ELSE DOMAIN vmap
           /\ Head(reqs).op = "state" => DOMAIN vmap' = DOMAIN vmap
           /\ Head(reqs).op = "remove" =>
                 DOMAIN vmap' = DOMAIN vmap \ {Head(reqs).handle + 1}
    BY ServeEntries
  <1>2. /\ EntryInv' /\ reqs' = <<>> /\ reqs /= <<>>
        /\ UNCHANGED <<pc, k, attributed, owner, poisoned, call, result, next, table>>
    BY ServeEntries DEF runVars, NA!Serve, NA!clientVars
  <1>3. replies' /= <<>>
    BY <1>1 DEF IInv, NA!IInv, NA!TypeOK
  <1>4. CallInv'
    BY <1>2, <1>3 DEF IInv, CallInv
  <1>5. MapInv'
    <2> SUFFICES ASSUME ~poisoned, owner = "serving" PROVE MapInv'
      BY <1>2 DEF MapInv
    <2>1. call /= NA!NoCall
      BY <1>2 DEF IInv, NA!IInv, NA!ChannelInv
    <2>2. /\ pc \in {"registering", "stating", "deregistering"}
          /\ reqs = <<call>> /\ replies = <<>>
      BY <1>2, <2>1, Waiting
    <2>3. Head(reqs) = call /\ replies' = <<[of |-> call, ok |-> b]>>
      BY <1>1, <2>2, HeadOfOne
    <2>4. Acknowledged' = b /\ ~Acknowledged
      BY <1>2, <2>1, <2>2, <2>3, HeadOfOne DEF Acknowledged
    <2>5. CASE pc = "registering"
      <3>1. call.op = "add" /\ call.ifindex = k
        BY <2>1, <2>5 DEF IInv, CallInv, NA!AddCmd
      <3>2. DOMAIN vmap = 1 .. k - 1
        BY <2>4, <2>5 DEF IInv, MapInv
      <3>3. (1 .. k - 1) \cup {k} = 1 .. k
        BY DEF IInv, TypeOK
      <3>4. DOMAIN vmap' = 1 .. IF b THEN k ELSE k - 1
        BY <1>1, <2>3, <3>1, <3>2, <3>3
      <3>5. QED
        BY <1>2, <2>4, <2>5, <3>4 DEF MapInv
    <2>6. CASE pc = "stating"
      <3>1. call.op = "state"
        BY <2>1, <2>6 DEF IInv, CallInv, NA!StateCmd
      <3>2. QED
        BY <1>1, <1>2, <2>3, <2>6, <3>1 DEF IInv, MapInv
    <2>7. CASE pc = "deregistering"
      <3>1. call.op = "remove" /\ call.handle = k - 1
        BY <2>1, <2>7 DEF IInv, CallInv, NA!RemoveCmd
      <3>2. DOMAIN vmap = k .. Len(attributed)
        BY <1>2, <2>7 DEF IInv, MapInv, Window
      <3>3. k - 1 + 1 = k /\ (k .. Len(attributed)) \ {k} = k + 1 .. Len(attributed)
        BY DEF IInv, TypeOK
      <3>4. DOMAIN vmap' = k + 1 .. Len(attributed)
        BY <1>1, <2>3, <3>1, <3>2, <3>3
      <3>5. QED
        BY <1>2, <2>7, <3>4 DEF MapInv, Window
    <2>8. QED
      BY <2>2, <2>5, <2>6, <2>7
  <1>6. QED
    BY <1>2, <1>4, <1>5, ServeSession, Control DEF IInv

\* A run starts with nothing brought up and a session nothing was sent on.
LEMMA InitIInv == Init => IInv
  <1> SUFFICES ASSUME Init PROVE IInv
    OBVIOUS
  <1>1. TypeOK
    <2>1. /\ file \in [Gadgets -> Gadgets \cup {Garbled, EarlierRun}]
          /\ gadget \in [Gadgets -> {"idle", "running", "ok", "bad", "collected"}]
          /\ inst \in [Instances -> {"absent", "provisioned", "started", "steady", "dead", "torndown"}]
      BY DEF Init
    <2>2. attrib \in BOOLEAN /\ sharing \in BOOLEAN /\ blocking \in BOOLEAN /\ torn \in BOOLEAN
      BY Zenon DEF Init
    <2>3. QED
      BY <2>1, <2>2 DEF Init, TypeOK, Steps
  <1>2. DOMAIN NA!Empty = {} /\ NA!Empty \in [DOMAIN NA!Empty -> NA!VmCtx]
        /\ NA!Empty \in [DOMAIN NA!Empty -> 1 .. MaxInstances]
    BY DEF NA!Empty
  <1>3. NA!TypeOK
    <2>1. NA!ZeroStats \in NA!StatsType
      BY DEF NA!ZeroStats, NA!StatsType
    <2>2. pinned \in BOOLEAN /\ connected \in BOOLEAN /\ poisoned \in BOOLEAN
      BY Zenon DEF Init
    <2>3. owner \in {"down", "pinned", "serving"}
      BY DEF Init
    <2>4. QED
      BY <1>2, <2>1, <2>2, <2>3 DEF Init, NA!TypeOK
  <1>4. NA!ChannelInv
    BY DEF Init, NA!ChannelInv
  <1>5. NA!FreshInv
    BY DEF Init, NA!FreshInv, NA!NoCall
  <1>6. NA!ProvenanceSound /\ NA!NoStaleEntries
    BY <1>2 DEF Init, NA!ProvenanceSound, NA!NoStaleEntries
  <1>7. DriverInv /\ InstanceInv /\ TapInv /\ TornDownOnceSteady
    BY RunAssumption
       DEF Init, DriverInv, InstanceInv, TapInv, TornDownOnceSteady, BringUp, Attribution,
           Window, Instances
  <1>8. GadgetInv
    BY DEF Init, GadgetInv, WindDown
  <1>9. HandleInv
    BY <1>1 DEF Init, HandleInv, BringUp, Window, WindDown, TypeOK
  <1>10. CallInv /\ EntryInv /\ MapInv
    BY <1>2 DEF Init, CallInv, EntryInv, MapInv, BringUp, Window
  <1>11. QED
    BY <1>1, <1>3, <1>4, <1>5, <1>6, <1>7, <1>8, <1>9, <1>10 DEF IInv, NA!IInv

\* One case per action of the driver, the owner and the host.
LEMMA NextIInv == IInv /\ [Next]_vars => IInv'
  <1> SUFFICES ASSUME IInv, [Next]_vars PROVE IInv'
    OBVIOUS
  <1>1. CASE DriverNext
    <2>1. CASE Provision \/ ProvisionFails \/ Start \/ ReachSteady \/ BringUpFails
      BY <2>1, ProvisionIInv, ProvisionFailsIInv, StartIInv, ReachSteadyIInv, BringUpFailsIInv
    <2>2. CASE RegisterVm \/ Registered \/ Stated
      BY <2>2, RegisterVmIInv, RegisteredIInv, StatedIInv
    <2>3. CASE NoTap \/ AttributionFails \/ SpawnFails \/ StartWorkloadFails \/ WaitFails
      BY <2>3, FailuresIInv
    <2>4. CASE Spawn \/ StartWorkload \/ RunWorkload \/ Wait \/ Stop
      BY <2>4, SpawnIInv, WorkloadIInv, WaitIInv, StopIInv
    <2>5. CASE Spans \/ SpansFails \/ DeregisterVm \/ Deregistered \/ Teardown
      BY <2>5, SpansIInv, SpansFailsIInv, DeregisterVmIInv, DeregisteredIInv, TeardownIInv
    <2>6. QED
      BY <1>1, <2>1, <2>2, <2>3, <2>4, <2>5 DEF DriverNext
  <1>2. CASE ControlNext
    BY <1>2, ServeIInv, OwnerDownIInv, ReadIInv DEF ControlNext
  <1>3. CASE \E g \in Gadgets : GadgetExits(g)
    BY <1>3, GadgetExitsIInv
  <1>4. CASE LeftoverWrites
    BY <1>4, LeftoverWritesIInv
  <1>5. CASE \E i \in 1 .. MaxInstances : InstanceDies(i)
    BY <1>5, InstanceDiesIInv
  <1>6. CASE UNCHANGED vars
    <2>1. UNCHANGED runVars /\ UNCHANGED naVars
      BY <1>6 DEF vars
    <2>2. CallInv' /\ MapInv'
      BY <2>1, Quiet DEF runVars, IInv, CallInv, MapInv, Acknowledged
    <2>3. QED
      BY <2>1, <2>2, Quiet, Control
  <1>7. QED
    BY <1>1, <1>2, <1>3, <1>4, <1>5, <1>6 DEF Next

\* The inductive invariant holds of every run of the driver.
THEOREM Invariance == Spec => []IInv
  BY InitIInv, NextIInv, PTL DEF Spec
-----------------------------------------------------------------------------
(* The properties. *)

\* No entry of a healthy owner outlives its tap (deregister_all comes before
\* teardown on every path of execute_run).
THEOREM EntriesHaveTaps == Spec => []EntryHasTap
  <1>1. ASSUME IInv PROVE EntryHasTap
    <2> SUFFICES ASSUME ~poisoned, owner = "serving", NEW i \in DOMAIN vmap
                 PROVE  i \in taps
      BY DEF EntryHasTap
    <2>1. i \in Nat /\ i >= 1 /\ i <= next /\ next \in Nat
      BY <1>1, Shape, SessionTypes, RunAssumption DEF IInv
    <2>2. width \in Nat /\ next <= width /\ target = "tap" /\ pc \notin BringUp
      BY <1>1, <2>1, RunAssumption DEF IInv, TypeOK, HandleInv
    <2>3. pc /= "returned"
      BY <1>1 DEF IInv, MapInv, Window
    <2>4. taps = Instances
      BY <1>1, <2>2, <2>3 DEF IInv, TapInv, BringUp
    <2>5. QED
      BY <2>1, <2>2, <2>4 DEF Instances
  <1>2. QED
    BY <1>1, Invariance, PTL

\* While the gadgets measure, every instance is in the owner's map, RUNNING and
\* under a handle that resolves to it (attribute_instances before spawn).
THEOREM WindowIsAttributed == Spec => []AttributedInWindow
  <1>1. ASSUME IInv PROVE AttributedInWindow
    <2> SUFFICES ASSUME attrib, owner = "serving", pc \in Window, NEW i \in Instances
                 PROVE  /\ i \in DOMAIN vmap
                        /\ vmap[i].lifecycle_state = "RUNNING"
                        /\ vmap[i].vm_id \in DOMAIN table
                        /\ table[vmap[i].vm_id] = i
      BY DEF AttributedInWindow, Window
    <2>1. Len(attributed) = width /\ ~poisoned /\ i \in Nat /\ i \in 1 .. width
      BY <1>1, RunAssumption DEF IInv, TypeOK, HandleInv, CallInv, Instances
    <2>2. DOMAIN vmap = 1 .. width
      BY <1>1, <2>1 DEF IInv, MapInv, Window
    <2>3. vmap[i].vm_id = i - 1 /\ vmap[i].lifecycle_state = "RUNNING"
      BY <1>1, <2>1, <2>2, Shape DEF IInv, EntryInv
    <2>4. i - 1 \in DOMAIN table
      BY <1>1, <2>1 DEF IInv, HandleInv
    <2>5. table[i - 1] = i
      <3>1. table[i - 1] = i - 1 + 1
        BY <1>1, <2>4, Shape DEF IInv
      <3>2. QED
        BY <2>1, <3>1
    <2>6. QED
      BY <2>1, <2>2, <2>3, <2>4, <2>5
  <1>2. QED
    BY <1>1, Invariance, PTL

\* A run that returns Ok left nothing behind: instances, gadgets, entries, and
\* no handle its provenance cannot resolve.
THEOREM OkIsClean == Spec => []OkLeavesNothing
  <1>1. ASSUME IInv PROVE OkLeavesNothing
    <2> SUFFICES ASSUME pc = "returned", outcome = "ok"
                 PROVE  /\ \A i \in Instances : inst[i] = "torndown"
                        /\ \A g \in Gadgets : gadget[g] = "collected"
                        /\ attrib => Provenance = Instances /\ Unresolved = {}
                        /\ ~poisoned /\ owner = "serving" => DOMAIN vmap = {}
      BY DEF OkLeavesNothing
    <2>1. \A i \in Instances : inst[i] = "torndown"
      BY <1>1 DEF IInv, InstanceInv
    <2>2. \A g \in Gadgets : gadget[g] = "collected"
      BY <1>1 DEF IInv, GadgetInv, WindDown
    <2>3. ASSUME attrib PROVE Provenance = Instances /\ Unresolved = {}
      <3>1. Len(attributed) = width /\ next = width /\ width \in Nat
        BY <1>1, <2>3, RunAssumption DEF IInv, TypeOK, HandleInv, WindDown
      <3>2. \A j \in 1 .. width : j - 1 \in DOMAIN table
        BY <1>1, <3>1 DEF IInv, HandleInv
      <3>3. \A h \in DOMAIN table : h \in Nat /\ h < width /\ table[h] = h + 1
        BY <1>1, <3>1, Shape DEF IInv
      <3>4. Provenance \subseteq Instances
        BY <3>1, <3>3 DEF Provenance, Instances
      <3>5. ASSUME NEW j \in Instances PROVE j \in Provenance
        <4>1. j \in Nat /\ j \in 1 .. width
          BY <3>1 DEF Instances
        <4>2. j - 1 \in DOMAIN table /\ table[j - 1] = j - 1 + 1
          BY <3>2, <3>3, <4>1
        <4>3. table[j - 1] = j
          BY <4>1, <4>2
        <4>4. QED
          BY <4>2, <4>3 DEF Provenance
      <3>6. ASSUME NEW h \in labels PROVE h \in DOMAIN table
        <4>1. h \in Nat /\ h < width
          BY <1>1, <3>1 DEF IInv, TypeOK, GadgetInv
        <4> DEFINE j == h + 1
        <4>2. j \in 1 .. width /\ j - 1 = h
          BY <3>1, <4>1
        <4> HIDE DEF j
        <4>3. j - 1 \in DOMAIN table
          BY <3>2, <4>2
        <4>4. QED
          BY <4>2, <4>3, Zenon
      <3>7. QED
        BY <3>4, <3>5, <3>6 DEF Unresolved
    <2>4. ~poisoned /\ owner = "serving" => DOMAIN vmap = {}
      BY <1>1 DEF IInv, MapInv, Window
    <2>5. QED
      BY <2>1, <2>2, <2>3, <2>4
  <1>2. QED
    BY <1>1, Invariance, PTL

\* No return path of a native or fanned-out target skips teardown once every
\* instance reached steady.
THEOREM TeardownIsReached == Spec => []TornDownOnceSteady
  <1>1. IInv => TornDownOnceSteady
    BY DEF IInv
  <1>2. QED
    BY <1>1, Invariance, PTL

\* A run that returns Ok is made of its own gadgets' fragments, in plan order.
THEOREM FragmentsAreOwn == Spec => []CollectedIsOwn
  <1>1. ASSUME IInv PROVE CollectedIsOwn
    <2> SUFFICES ASSUME pc = "returned", outcome = "ok", ~sharing, leftover = "none"
                 PROVE  fragments = [g \in Gadgets |-> g]
      BY DEF CollectedIsOwn
    <2>1. Len(fragments) = NumGadgets /\ \A n \in DOMAIN fragments : fragments[n] = n
      BY <1>1 DEF IInv, GadgetInv, WindDown
    <2>2. fragments \in Seq(Gadgets \cup {EarlierRun})
      BY <1>1 DEF IInv, TypeOK
    <2>3. fragments = [n \in 1 .. Len(fragments) |-> fragments[n]]
      BY <2>2
    <2>4. DOMAIN fragments = Gadgets
      BY <2>1, <2>2 DEF Gadgets
    <2>5. QED
      BY <2>1, <2>3, <2>4 DEF Gadgets
  <1>2. QED
    BY <1>1, Invariance, PTL
=============================================================================
