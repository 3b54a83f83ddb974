-------------------------- MODULE BlockCaptureProofs --------------------------
(* Proofs about the block gadget (module BlockCapture), for any number of      *)
(* requests, devices, sectors, CPUs and elements and any capacity of its maps. *)
EXTENDS BlockCapture, FiniteSetTheorems, TLAPS

(* Who holds what. *)

\* What a handler has in its hands is a request and an element.
LEMMA BusyFacts ==
    ASSUME IInv, NEW c \in CPUs, Busy(c)
    PROVE  /\ cpu[c] \in Handler /\ cpu[c].rq \in Reqs /\ cpu[c].s \in Elements
           /\ req[cpu[c].rq].state = "done" /\ Key(c) = req[cpu[c].rq].key
           /\ Key(c) \in Keys /\ Held(cpu[c].rq)
  <1>1. cpu[c] \in Handler
    BY DEF IInv, TypeOK, Busy, Idle
  <1>2. cpu[c].rq \in Reqs /\ cpu[c].s \in Elements
    BY <1>1 DEF Handler
  <1>3. req[cpu[c].rq].state = "done"
    BY DEF IInv, HostInv
  <1>4. Key(c) = req[cpu[c].rq].key /\ Key(c) \in Keys
    BY <1>2, <1>3 DEF IInv, HostInv, Key
  <1>5. Held(cpu[c].rq)
    BY DEF Held, Busy
  <1>6. QED
    BY <1>1, <1>2, <1>3, <1>4, <1>5

\* A step that issues and completes nothing, and ends no handler, leaves the
\* matching of requests and entries as it is.
LEMMA SameMatching ==
    ASSUME IInv, UNCHANGED <<req, inflight, elem, collided, strayed>>,
           onIssue => onIssue',
           \A c \in CPUs : /\ Busy(c)' <=> Busy(c)
                           /\ Busy(c) => cpu'[c].rq = cpu[c].rq /\ cpu'[c].s = cpu[c].s
    PROVE  HostInv' /\ ElementInv' /\ MatchInv' /\ EntriesAreOutstanding'
  <1>1. \A r : Held(r)' <=> Held(r)
    BY DEF Held, Busy
  <1>2. \A c \in CPUs : Busy(c) => Key(c)' = Key(c)
    BY DEF Key
  <1>3. HostInv'
    BY DEF IInv, HostInv
  <1>4. ElementInv'
    BY DEF IInv, ElementInv
  <1>5. MatchInv'
    BY <1>1, <1>2 DEF IInv, MatchInv
  <1>6. EntriesAreOutstanding'
    BY <1>1 DEF IInv, EntriesAreOutstanding, HeldAt
  <1>7. QED
    BY <1>3, <1>4, <1>5, <1>6

-----------------------------------------------------------------------------
(* Issues. *)

\* What an issue records: nothing, or its request in an element that was free.
LEMMA RecordFacts ==
    ASSUME IInv, NEW r \in Reqs, NEW k \in Keys, RecordStart(k, r)
    PROVE  \/ /\ UNCHANGED <<inflight, elem>>
              /\ k \notin DOMAIN inflight
           \/ \E e \in Elements :
                 /\ onIssue
                 /\ \A l \in DOMAIN inflight : inflight[l] /= e
                 /\ DOMAIN inflight' = DOMAIN inflight \cup {k}
                 /\ inflight' \in [DOMAIN inflight' -> Elements] /\ inflight'[k] = e
                 /\ \A l \in DOMAIN inflight : l /= k => inflight'[l] = inflight[l]
                 /\ elem' \in [Elements -> Reqs \cup {None}] /\ elem'[e] = r
                 /\ \A x \in Elements : x /= e => elem'[x] = elem[x]
  <1>1. /\ inflight \in [DOMAIN inflight -> Elements]
        /\ elem \in [Elements -> Reqs \cup {None}]
        /\ ~onIssue => DOMAIN inflight = {}
    BY DEF IInv, TypeOK, ElementInv
  <1>2. CASE onIssue /\ (k \in DOMAIN inflight \/ Cardinality(DOMAIN inflight) < MaxInflight)
    <2>1. PICK e \in Free : inflight' = Put(inflight, k, e) /\ elem' = [elem EXCEPT ![e] = r]
      BY <1>2 DEF RecordStart
    <2>2. e \in Elements /\ \A l \in DOMAIN inflight : inflight[l] /= e
      BY <2>1 DEF Free
    <2>3. /\ DOMAIN inflight' = DOMAIN inflight \cup {k}
          /\ inflight' \in [DOMAIN inflight' -> Elements] /\ inflight'[k] = e
          /\ \A l \in DOMAIN inflight : l /= k => inflight'[l] = inflight[l]
      BY <1>1, <2>1, <2>2 DEF Put
    <2>4. /\ elem' \in [Elements -> Reqs \cup {None}] /\ elem'[e] = r
          /\ \A x \in Elements : x /= e => elem'[x] = elem[x]
      BY <1>1, <2>1, <2>2
    <2>5. QED
      BY <1>2, <2>2, <2>3, <2>4
  <1>3. CASE ~(onIssue /\ (k \in DOMAIN inflight \/ Cardinality(DOMAIN inflight) < MaxInflight))
    <2>1. UNCHANGED <<inflight, elem>>
      BY <1>3 DEF RecordStart
    <2>2. k \notin DOMAIN inflight
      BY <1>1, <1>3
    <2>3. QED
      BY <2>1, <2>2
  <1>4. QED
    BY <1>2, <1>3

\* An issue takes over its key; whoever held it makes it a collision, and an entry
\* it leaves at another key makes it stray.
LEMMA IssueToIInv ==
    ASSUME IInv, NEW r \in Reqs, NEW k \in Keys, req[r].state \in {"new", "issued"},
           IssueTo(r, k), requeues' \in 0 .. MaxRequeues
    PROVE  IInv'
  <1>1. /\ UNCHANGED <<onIssue, onComplete, stats, cpu, loader, left, series>>
        /\ UNCHANGED <<found, dropped, atEnd, wrong>>
        /\ req' = [req EXCEPT ![r] = [state |-> "issued", key |-> k]]
        /\ RecordStart(k, r)
        /\ collided' = (collided \/ HeldAt(k) \ {r} /= {})
        /\ strayed' = (strayed \/ req[r].key \notin {None, k})
    BY DEF IssueTo, loaderVars
  <1>2. /\ req \in [Reqs -> [state : {"new", "issued", "done"}, key : Keys \cup {None}]]
        /\ collided \in BOOLEAN /\ strayed \in BOOLEAN
        /\ inflight \in [DOMAIN inflight -> Elements] /\ DOMAIN inflight \subseteq Keys
        /\ elem \in [Elements -> Reqs \cup {None}]
        /\ cpu \in [CPUs -> Handler \cup {Idle}]
    BY DEF IInv, TypeOK
  <1>3. /\ req' \in [Reqs -> [state : {"new", "issued", "done"}, key : Keys \cup {None}]]
        /\ req'[r].state = "issued" /\ req'[r].key = k
        /\ \A q \in Reqs : q /= r => req'[q] = req[q]
        /\ collided' \in BOOLEAN /\ strayed' \in BOOLEAN
    BY <1>1, <1>2
  <1>4. \/ UNCHANGED <<inflight, elem>> /\ k \notin DOMAIN inflight
        \/ \E e \in Elements :
              /\ onIssue
              /\ \A l \in DOMAIN inflight : inflight[l] /= e
              /\ DOMAIN inflight' = DOMAIN inflight \cup {k}
              /\ inflight' \in [DOMAIN inflight' -> Elements] /\ inflight'[k] = e
              /\ \A l \in DOMAIN inflight : l /= k => inflight'[l] = inflight[l]
              /\ elem' \in [Elements -> Reqs \cup {None}] /\ elem'[e] = r
              /\ \A x \in Elements : x /= e => elem'[x] = elem[x]
    BY <1>1, RecordFacts
  <1>5. /\ inflight' \in [DOMAIN inflight' -> Elements] /\ DOMAIN inflight' \subseteq Keys
        /\ elem' \in [Elements -> Reqs \cup {None}]
    BY <1>2, <1>4
  <1>6. TypeOK'
    BY <1>1, <1>3, <1>5 DEF IInv, TypeOK
  <1>7. \A c \in CPUs : /\ Busy(c)' <=> Busy(c)
                        /\ Busy(c) => /\ cpu[c].rq \in Reqs /\ cpu[c].rq /= r
                                      /\ req[cpu[c].rq].state = "done"
                                      /\ cpu[c].s \in Elements
                                      /\ Key(c)' = Key(c) /\ Key(c) = req[cpu[c].rq].key
    BY <1>1, <1>3, BusyFacts DEF Busy, Key
  <1>8. HostInv'
    BY <1>1, <1>3, <1>7 DEF IInv, HostInv
  <1>9. HandlerInv'
    BY <1>1 DEF IInv, HandlerInv, Busy
  <1>10. ElementInv'
    <2>1. CASE UNCHANGED <<inflight, elem>> /\ k \notin DOMAIN inflight
      BY <1>1, <1>7, <2>1 DEF IInv, ElementInv
    <2>2. ASSUME NEW e \in Elements,
                 onIssue,
                 \A l \in DOMAIN inflight : inflight[l] /= e,
                 DOMAIN inflight' = DOMAIN inflight \cup {k},
                 inflight' \in [DOMAIN inflight' -> Elements], inflight'[k] = e,
                 \A l \in DOMAIN inflight : l /= k => inflight'[l] = inflight[l],
                 elem'[e] = r,
                 \A x \in Elements : x /= e => elem'[x] = elem[x]
          PROVE  ElementInv'
      <3>1. \A l \in DOMAIN inflight : inflight[l] \in Elements
        BY <1>2
      <3>2. \A l \in DOMAIN inflight' : elem'[inflight'[l]] \in Reqs
        BY <2>2, <3>1 DEF IInv, ElementInv
      <3>3. \A l, m \in DOMAIN inflight' : inflight'[l] = inflight'[m] => l = m
        BY <2>2 DEF IInv, ElementInv
      <3>4. \A c \in CPUs : Busy(c)' => elem'[cpu'[c].s] \in Reqs
        BY <1>1, <1>7, <2>2 DEF IInv, ElementInv
      <3>5. QED
        BY <1>1, <2>2, <3>2, <3>3, <3>4 DEF ElementInv
    <2>3. QED
      BY <1>4, <2>1, <2>2
  <1>11. \A q \in Reqs : q /= r => (Held(q)' <=> Held(q))
    BY <1>1, <1>3 DEF Held
  <1>12. ~collided' => /\ ~collided
                       /\ \A q \in Reqs : q /= r /\ Held(q) => req[q].key /= k
    BY <1>1, <1>2 DEF HeldAt
  <1>13. MatchInv'
    <2> SUFFICES ASSUME ~collided'
                 PROVE  /\ \A p, q \in Reqs :
                              Held(p)' /\ Held(q)' /\ req'[p].key = req'[q].key => p = q
                        /\ \A q \in Reqs :
                              req'[q].state = "issued" /\ req'[q].key \in DOMAIN inflight' =>
                                  elem'[inflight'[req'[q].key]] = q
                        /\ \A c \in CPUs : Busy(c)' => /\ Key(c)' \in DOMAIN inflight'
                                                       /\ inflight'[Key(c)'] = cpu'[c].s
                                                       /\ elem'[cpu'[c].s] = cpu'[c].rq
      BY DEF MatchInv
    <2>1. \A p, q \in Reqs : Held(p) /\ Held(q) /\ req[p].key = req[q].key => p = q
      BY <1>12 DEF IInv, MatchInv
    <2>2. \A p, q \in Reqs : Held(p)' /\ Held(q)' /\ req'[p].key = req'[q].key => p = q
      BY <1>3, <1>11, <1>12, <2>1
    <2>3. \A q \in Reqs : q /= r /\ req'[q].state = "issued" =>
             /\ req'[q].key = req[q].key /\ req[q].state = "issued" /\ req[q].key /= k
      BY <1>3, <1>12 DEF Held
    <2>4. \A q \in Reqs : req[q].state = "issued" /\ req[q].key \in DOMAIN inflight =>
             elem[inflight[req[q].key]] = q
      BY <1>12 DEF IInv, MatchInv
    <2>5. \A c \in CPUs : Busy(c) => /\ Key(c) \in DOMAIN inflight /\ Key(c) /= k
                                     /\ inflight[Key(c)] = cpu[c].s
                                     /\ elem[cpu[c].s] = cpu[c].rq
      <3> SUFFICES ASSUME NEW c \in CPUs, Busy(c)
                   PROVE  /\ Key(c) \in DOMAIN inflight /\ Key(c) /= k
                          /\ inflight[Key(c)] = cpu[c].s
                          /\ elem[cpu[c].s] = cpu[c].rq
        OBVIOUS
      <3>1. Held(cpu[c].rq) /\ cpu[c].rq \in Reqs /\ cpu[c].rq /= r
        BY <1>7, BusyFacts
      <3>2. QED
        BY <1>7, <1>12, <3>1 DEF IInv, MatchInv
    <2>6. CASE UNCHANGED <<inflight, elem>> /\ k \notin DOMAIN inflight
      BY <1>1, <1>3, <1>7, <2>2, <2>3, <2>4, <2>5, <2>6
    <2>7. ASSUME NEW e \in Elements,
                 \A l \in DOMAIN inflight : inflight[l] /= e,
                 DOMAIN inflight' = DOMAIN inflight \cup {k}, inflight'[k] = e,
                 \A l \in DOMAIN inflight : l /= k => inflight'[l] = inflight[l],
                 elem'[e] = r,
                 \A x \in Elements : x /= e => elem'[x] = elem[x]
          PROVE  /\ \A q \in Reqs :
                       req'[q].state = "issued" /\ req'[q].key \in DOMAIN inflight' =>
                           elem'[inflight'[req'[q].key]] = q
                 /\ \A c \in CPUs : Busy(c)' => /\ Key(c)' \in DOMAIN inflight'
                                                /\ inflight'[Key(c)'] = cpu'[c].s
                                                /\ elem'[cpu'[c].s] = cpu'[c].rq
      <3>1. \A l \in DOMAIN inflight : inflight[l] \in Elements
        BY <1>2
      <3>2. \A q \in Reqs : req'[q].state = "issued" /\ req'[q].key \in DOMAIN inflight' =>
               elem'[inflight'[req'[q].key]] = q
        BY <1>3, <2>3, <2>4, <2>7, <3>1
      <3>3. \A c \in CPUs : Busy(c)' => /\ Key(c)' \in DOMAIN inflight'
                                        /\ inflight'[Key(c)'] = cpu'[c].s
                                        /\ elem'[cpu'[c].s] = cpu'[c].rq
        BY <1>1, <1>7, <2>5, <2>7, <3>1
      <3>4. QED
        BY <3>2, <3>3
    <2>8. QED
      BY <1>4, <2>2, <2>6, <2>7
  <1>14. EntriesAreOutstanding'
    <2> SUFFICES ASSUME ~collided', ~strayed', NEW l \in DOMAIN inflight'
                 PROVE  \E q \in Reqs : elem'[inflight'[l]] = q /\ Held(q)' /\ req'[q].key = l
      BY DEF EntriesAreOutstanding, HeldAt
    <2>1. Held(r)'
      BY <1>3 DEF Held
    <2>2. ASSUME l \in DOMAIN inflight, l /= k
          PROVE  \E q \in Reqs : elem[inflight[l]] = q /\ Held(q)' /\ req'[q].key = l
      <3>1. ~collided /\ ~strayed /\ req[r].key \in {None, k}
        BY <1>1, <1>2, <1>12
      <3>2. PICK q \in Reqs : elem[inflight[l]] = q /\ Held(q) /\ req[q].key = l
        BY <2>2, <3>1 DEF IInv, EntriesAreOutstanding, HeldAt
      <3>3. l /= None
        BY <1>2, <2>2, BlockAssumption DEF Keys
      <3>4. q /= r
        BY <2>2, <3>1, <3>2, <3>3
      <3>5. QED
        BY <1>3, <1>11, <3>2, <3>4
    <2>3. CASE UNCHANGED <<inflight, elem>> /\ k \notin DOMAIN inflight
      BY <2>2, <2>3
    <2>4. ASSUME NEW e \in Elements,
                 \A m \in DOMAIN inflight : inflight[m] /= e,
                 DOMAIN inflight' = DOMAIN inflight \cup {k}, inflight'[k] = e,
                 \A m \in DOMAIN inflight : m /= k => inflight'[m] = inflight[m],
                 elem'[e] = r,
                 \A x \in Elements : x /= e => elem'[x] = elem[x]
          PROVE  \E q \in Reqs : elem'[inflight'[l]] = q /\ Held(q)' /\ req'[q].key = l
      <3>1. CASE l = k
        BY <1>3, <2>1, <2>4, <3>1
      <3>2. CASE l /= k
        <4>1. l \in DOMAIN inflight /\ inflight'[l] = inflight[l] /\ inflight[l] \in Elements
          BY <1>2, <2>4, <3>2
        <4>2. elem'[inflight'[l]] = elem[inflight[l]]
          BY <2>4, <4>1
        <4>3. QED
          BY <2>2, <3>2, <4>1, <4>2
      <3>3. QED
        BY <3>1, <3>2
    <2>5. QED
      BY <1>4, <2>3, <2>4
  <1>15. ExactWithoutCollision'
    BY <1>1, <1>12 DEF IInv, ExactWithoutCollision, InHand
  <1>16. ReadInv'
    BY <1>1 DEF IInv, ReadInv
  <1>17. QED
    BY <1>6, <1>8, <1>9, <1>10, <1>13, <1>14, <1>15, <1>16 DEF IInv

\* An issue, the first of its request or a later one.
LEMMA IssueIInv ==
    ASSUME IInv, NEW r \in Reqs, NEW k \in Keys, Issue(r, k) \/ Reissue(r, k)
    PROVE  IInv'
  <1>1. IssueTo(r, k) /\ req[r].state \in {"new", "issued"}
    BY DEF Issue, Reissue
  <1>2. requeues' \in 0 .. MaxRequeues
    BY BlockAssumption DEF IInv, TypeOK, Issue, Reissue
  <1>3. QED
    BY <1>1, <1>2, IssueToIInv

-----------------------------------------------------------------------------
(* Completions. *)

\* A completion without an entry leaves none behind, unless the program that would
\* have taken it out was not attached yet.
LEMMA CompleteUnmatchedIInv ==
    ASSUME IInv, NEW r \in Reqs, CompleteUnmatched(r)
    PROVE  IInv'
  <1>1. /\ UNCHANGED <<requeues, onIssue, onComplete, inflight, elem, stats, cpu>>
        /\ UNCHANGED <<loader, left, series, found, dropped, atEnd, collided, wrong>>
        /\ req' = [req EXCEPT ![r].state = "done"] /\ req[r].state = "issued"
        /\ ~onComplete \/ req[r].key \notin DOMAIN inflight
        /\ strayed' = (strayed \/ (onIssue /\ ~onComplete))
    BY DEF CompleteUnmatched, progVars, loaderVars
  <1>2. /\ req \in [Reqs -> [state : {"new", "issued", "done"}, key : Keys \cup {None}]]
        /\ strayed \in BOOLEAN /\ onIssue \in BOOLEAN /\ onComplete \in BOOLEAN
    BY DEF IInv, TypeOK
  <1>3. /\ req' \in [Reqs -> [state : {"new", "issued", "done"}, key : Keys \cup {None}]]
        /\ req'[r].state = "done" /\ req'[r].key = req[r].key
        /\ \A q \in Reqs : q /= r => req'[q] = req[q]
        /\ strayed' \in BOOLEAN
    BY <1>1, <1>2
  <1>4. TypeOK'
    BY <1>1, <1>3 DEF IInv, TypeOK
  <1>5. \A c \in CPUs : /\ Busy(c)' <=> Busy(c)
                        /\ Busy(c) => cpu[c].rq \in Reqs /\ cpu[c].rq /= r /\ Key(c)' = Key(c)
    BY <1>1, <1>3, BusyFacts DEF Busy, Key
  <1>6. HostInv'
    BY <1>1, <1>3, <1>5 DEF IInv, HostInv
  <1>7. HandlerInv' /\ ElementInv'
    BY <1>1 DEF IInv, HandlerInv, ElementInv, Busy
  <1>8. \A q \in Reqs : /\ Held(q)' => Held(q)
                        /\ q /= r => (Held(q)' <=> Held(q))
    BY <1>1, <1>3 DEF Held
  <1>9. MatchInv'
    BY <1>1, <1>3, <1>5, <1>8 DEF IInv, MatchInv
  <1>10. EntriesAreOutstanding'
    <2> SUFFICES ASSUME ~collided', ~strayed', NEW l \in DOMAIN inflight
                 PROVE  \E q \in Reqs : elem'[inflight'[l]] = q /\ Held(q)' /\ req'[q].key = l
      BY <1>1 DEF EntriesAreOutstanding, HeldAt
    <2>1. ~collided /\ ~strayed /\ (onIssue => onComplete)
      BY <1>1, <1>2
    <2>2. PICK q \in Reqs : elem[inflight[l]] = q /\ Held(q) /\ req[q].key = l
      BY <2>1 DEF IInv, EntriesAreOutstanding, HeldAt
    <2>3. onComplete
      BY <2>1 DEF IInv, ElementInv
    <2>4. q /= r
      BY <1>1, <2>2, <2>3
    <2>5. QED
      BY <1>1, <1>3, <1>8, <2>2, <2>4
  <1>11. ExactWithoutCollision'
    BY <1>1 DEF IInv, ExactWithoutCollision, InHand
  <1>12. ReadInv'
    BY <1>1 DEF IInv, ReadInv
  <1>13. QED
    BY <1>4, <1>6, <1>7, <1>9, <1>10, <1>11, <1>12 DEF IInv

\* A completion that finds its key: the handler takes over from the request.
LEMMA CompleteIInv ==
    ASSUME IInv, NEW c \in CPUs, NEW r \in Reqs, Complete(c, r)
    PROVE  IInv'
  <1> DEFINE h == [pc |-> "start", rq |-> r, s |-> inflight[req[r].key], bk |-> None]
  <1>1. /\ UNCHANGED <<requeues, onIssue, onComplete, inflight, elem, stats>>
        /\ UNCHANGED <<loader, left, series, found, dropped, atEnd, collided, strayed, wrong>>
        /\ req' = [req EXCEPT ![r].state = "done"] /\ req[r].state = "issued"
        /\ cpu[c] = Idle /\ cpu' = [cpu EXCEPT ![c] = h]
        /\ req[r].key \in DOMAIN inflight
    BY DEF Complete, loaderVars, history
  <1>2. /\ req \in [Reqs -> [state : {"new", "issued", "done"}, key : Keys \cup {None}]]
        /\ cpu \in [CPUs -> Handler \cup {Idle}]
        /\ inflight \in [DOMAIN inflight -> Elements]
    BY DEF IInv, TypeOK
  <1>3. h \in Handler /\ h.pc = "start" /\ h.rq = r /\ h.s = inflight[req[r].key]
    BY <1>1, <1>2 DEF Handler, Steps
  <1> HIDE DEF h
  <1>4. /\ req' \in [Reqs -> [state : {"new", "issued", "done"}, key : Keys \cup {None}]]
        /\ req'[r].state = "done" /\ req'[r].key = req[r].key
        /\ \A q \in Reqs : q /= r => req'[q] = req[q]
        /\ cpu' \in [CPUs -> Handler \cup {Idle}] /\ cpu'[c] = h
        /\ \A d \in CPUs : d /= c => cpu'[d] = cpu[d]
        /\ ~Busy(c) /\ Busy(c)'
    BY <1>1, <1>2, <1>3 DEF Busy, Idle
  <1>5. TypeOK'
    BY <1>1, <1>4 DEF IInv, TypeOK
  <1>6. \A d \in CPUs : d /= c =>
           /\ Busy(d)' <=> Busy(d)
           /\ Busy(d) => /\ cpu[d].rq \in Reqs /\ cpu[d].rq /= r /\ Key(d)' = Key(d)
                         /\ req[cpu[d].rq].state = "done"
    BY <1>1, <1>4, BusyFacts DEF Busy, Key
  <1>7. Key(c)' = req[r].key
    BY <1>3, <1>4 DEF Key
  <1>8. HostInv'
    BY <1>1, <1>3, <1>4, <1>6 DEF IInv, HostInv
  <1>9. HandlerInv'
    BY <1>1, <1>3, <1>4 DEF IInv, HandlerInv, Busy
  <1>10. ElementInv'
    BY <1>1, <1>3, <1>4, <1>6 DEF IInv, ElementInv
  <1>11. \A q \in Reqs : Held(q)' <=> Held(q)
    <2>1. Held(r) /\ Held(r)'
      BY <1>1, <1>3, <1>4 DEF Held, Busy
    <2>2. \A q \in Reqs : q /= r => (Held(q)' <=> Held(q))
      BY <1>3, <1>4 DEF Held, Busy
    <2>3. QED
      BY <2>1, <2>2
  <1>12. \A q \in Reqs : req'[q].key = req[q].key
    BY <1>4
  <1>13. MatchInv'
    <2> SUFFICES ASSUME ~collided
                 PROVE  /\ \A p, q \in Reqs :
                              Held(p)' /\ Held(q)' /\ req'[p].key = req'[q].key => p = q
                        /\ \A q \in Reqs :
                              req'[q].state = "issued" /\ req'[q].key \in DOMAIN inflight' =>
                                  elem'[inflight'[req'[q].key]] = q
                        /\ \A d \in CPUs : Busy(d)' => /\ Key(d)' \in DOMAIN inflight'
                                                       /\ inflight'[Key(d)'] = cpu'[d].s
                                                       /\ elem'[cpu'[d].s] = cpu'[d].rq
      BY <1>1 DEF MatchInv
    <2>1. \A p, q \in Reqs : Held(p)' /\ Held(q)' /\ req'[p].key = req'[q].key => p = q
      BY <1>11, <1>12 DEF IInv, MatchInv
    <2>2. \A q \in Reqs : req'[q].state = "issued" /\ req'[q].key \in DOMAIN inflight' =>
             elem'[inflight'[req'[q].key]] = q
      BY <1>1, <1>4 DEF IInv, MatchInv
    <2>3. /\ Key(c)' \in DOMAIN inflight' /\ inflight'[Key(c)'] = cpu'[c].s
          /\ elem'[cpu'[c].s] = cpu'[c].rq
      BY <1>1, <1>3, <1>4, <1>7 DEF IInv, MatchInv
    <2>4. \A d \in CPUs : d /= c /\ Busy(d)' => /\ Key(d)' \in DOMAIN inflight'
                                                /\ inflight'[Key(d)'] = cpu'[d].s
                                                /\ elem'[cpu'[d].s] = cpu'[d].rq
      BY <1>1, <1>4, <1>6 DEF IInv, MatchInv
    <2>5. QED
      BY <2>1, <2>2, <2>3, <2>4
  <1>14. EntriesAreOutstanding'
    BY <1>1, <1>11, <1>12 DEF IInv, EntriesAreOutstanding, HeldAt
  <1>15. \A k \in StatKeys : InHand(k)' = InHand(k)
    BY <1>1, <1>3, <1>4 DEF InHand, Idle
  <1>16. ExactWithoutCollision'
    BY <1>1, <1>15 DEF IInv, ExactWithoutCollision
  <1>17. ReadInv'
    BY <1>1 DEF IInv, ReadInv
  <1>18. QED
    BY <1>5, <1>8, <1>9, <1>10, <1>13, <1>14, <1>16, <1>17 DEF IInv

\* The end of a handler: the entry that goes is its own request's, or nobody's
\* that a property speaks of.
LEMMA EndMatching ==
    ASSUME IInv, NEW c \in CPUs, Busy(c), cpu' = [cpu EXCEPT ![c] = Idle],
           inflight' = Del(inflight, Key(c)),
           UNCHANGED <<req, onIssue, elem, collided, strayed>>
    PROVE  /\ inflight' \in [DOMAIN inflight' -> Elements] /\ DOMAIN inflight' \subseteq Keys
           /\ cpu' \in [CPUs -> Handler \cup {Idle}] /\ cpu'[c] = Idle
           /\ \A d \in CPUs : d /= c => cpu'[d] = cpu[d]
           /\ HostInv' /\ ElementInv' /\ MatchInv' /\ EntriesAreOutstanding'
  <1>1. /\ inflight \in [DOMAIN inflight -> Elements] /\ DOMAIN inflight \subseteq Keys
        /\ cpu \in [CPUs -> Handler \cup {Idle}]
    BY DEF IInv, TypeOK
  <1>2. /\ DOMAIN inflight' = DOMAIN inflight \ {Key(c)}
        /\ \A l \in DOMAIN inflight' : inflight'[l] = inflight[l]
        /\ inflight' \in [DOMAIN inflight' -> Elements] /\ DOMAIN inflight' \subseteq Keys
    BY <1>1 DEF Del
  <1>3. /\ cpu' \in [CPUs -> Handler \cup {Idle}] /\ cpu'[c] = Idle /\ ~Busy(c)'
        /\ \A d \in CPUs : d /= c => cpu'[d] = cpu[d] /\ (Busy(d)' <=> Busy(d))
    BY <1>1 DEF Busy, Idle
  <1>4. HostInv'
    BY <1>3 DEF IInv, HostInv
  <1>5. ElementInv'
    BY <1>2, <1>3 DEF IInv, ElementInv
  <1>6. \A d \in CPUs : d /= c /\ Busy(d) =>
           /\ Key(d)' = Key(d) /\ cpu[d].rq /= cpu[c].rq /\ cpu[d].rq \in Reqs
           /\ Held(cpu[d].rq) /\ Key(d) = req[cpu[d].rq].key
    BY <1>3, BusyFacts DEF Key, IInv, HostInv
  <1>7. Held(cpu[c].rq) /\ Key(c) = req[cpu[c].rq].key /\ cpu[c].rq \in Reqs
    BY BusyFacts
  <1>8. \A q \in Reqs : /\ Held(q)' => Held(q)
                        /\ Held(q) /\ q /= cpu[c].rq => Held(q)'
    BY <1>3 DEF Held, Busy
  <1>9. MatchInv'
    <2> SUFFICES ASSUME ~collided
                 PROVE  /\ \A p, q \in Reqs :
                              Held(p)' /\ Held(q)' /\ req'[p].key = req'[q].key => p = q
                        /\ \A q \in Reqs :
                              req'[q].state = "issued" /\ req'[q].key \in DOMAIN inflight' =>
                                  elem'[inflight'[req'[q].key]] = q
                        /\ \A d \in CPUs : Busy(d)' => /\ Key(d)' \in DOMAIN inflight'
                                                       /\ inflight'[Key(d)'] = cpu'[d].s
                                                       /\ elem'[cpu'[d].s] = cpu'[d].rq
      BY DEF MatchInv
    <2>1. \A p, q \in Reqs : Held(p) /\ Held(q) /\ req[p].key = req[q].key => p = q
      BY DEF IInv, MatchInv
    <2>2. \A d \in CPUs : d /= c /\ Busy(d) => Key(d) /= Key(c)
      BY <1>6, <1>7, <2>1
    <2>3. \A q \in Reqs : req'[q].state = "issued" /\ req'[q].key \in DOMAIN inflight' =>
             elem'[inflight'[req'[q].key]] = q
      BY <1>2 DEF IInv, MatchInv
    <2>4. \A d \in CPUs : d /= c /\ Busy(d) => /\ Key(d) \in DOMAIN inflight
                                               /\ inflight[Key(d)] = cpu[d].s
                                               /\ elem[cpu[d].s] = cpu[d].rq
      BY DEF IInv, MatchInv
    <2>5. \A d \in CPUs : Busy(d)' => /\ Key(d)' \in DOMAIN inflight'
                                      /\ inflight'[Key(d)'] = cpu'[d].s
                                      /\ elem'[cpu'[d].s] = cpu'[d].rq
      BY <1>2, <1>3, <1>6, <2>2, <2>4
    <2>6. QED
      BY <1>8, <2>1, <2>3, <2>5
  <1>10. EntriesAreOutstanding'
    <2> SUFFICES ASSUME ~collided, ~strayed, NEW l \in DOMAIN inflight'
                 PROVE  \E q \in Reqs : elem'[inflight'[l]] = q /\ Held(q)' /\ req'[q].key = l
      BY DEF EntriesAreOutstanding, HeldAt
    <2>1. PICK q \in Reqs : elem[inflight[l]] = q /\ Held(q) /\ req[q].key = l
      BY <1>2 DEF IInv, EntriesAreOutstanding, HeldAt
    <2>2. q /= cpu[c].rq
      BY <1>2, <1>7, <2>1
    <2>3. QED
      BY <1>2, <1>8, <2>1, <2>2
  <1>11. QED
    BY <1>2, <1>3, <1>4, <1>5, <1>9, <1>10

-----------------------------------------------------------------------------
(* The steps of a handler. *)

\* Handlers with a sample in hand are finitely many.
LEMMA HandsFinite ==
    ASSUME NEW k
    PROVE  IsFiniteSet(InHand(k)) /\ Cardinality(InHand(k)) \in Nat
  BY BlockAssumption, FS_Subset, FS_CardinalityType DEF InHand

\* A handler that goes on keeps its request, its element and its key.
LEMMA GotoFacts ==
    ASSUME IInv, NEW c \in CPUs, Busy(c), NEW p \in Steps \ {"idle"}, Goto(c, p)
    PROVE  /\ cpu' \in [CPUs -> Handler \cup {Idle}]
           /\ cpu'[c].pc = p /\ cpu'[c].rq = cpu[c].rq
           /\ cpu'[c].s = cpu[c].s /\ cpu'[c].bk = cpu[c].bk
           /\ \A d \in CPUs : d /= c => cpu'[d] = cpu[d]
           /\ \A d \in CPUs : /\ Busy(d)' <=> Busy(d)
                              /\ Busy(d) => cpu'[d].rq = cpu[d].rq /\ cpu'[d].s = cpu[d].s
  <1>1. cpu \in [CPUs -> Handler \cup {Idle}] /\ cpu[c] \in Handler
    BY BusyFacts DEF IInv, TypeOK
  <1>2. cpu' = [cpu EXCEPT ![c] = [cpu[c] EXCEPT !.pc = p]]
    BY DEF Goto
  <1>3. [cpu[c] EXCEPT !.pc = p] \in Handler
    BY <1>1 DEF Handler
  <1>4. /\ [cpu[c] EXCEPT !.pc = p].pc = p /\ [cpu[c] EXCEPT !.pc = p].rq = cpu[c].rq
        /\ [cpu[c] EXCEPT !.pc = p].s = cpu[c].s /\ [cpu[c] EXCEPT !.pc = p].bk = cpu[c].bk
    BY <1>1 DEF Handler
  <1>5. cpu'[c] = [cpu[c] EXCEPT !.pc = p] /\ \A d \in CPUs : d /= c => cpu'[d] = cpu[d]
    BY <1>1, <1>2
  <1>6. cpu' \in [CPUs -> Handler \cup {Idle}]
    BY <1>1, <1>2, <1>3
  <1>7. QED
    BY <1>4, <1>5, <1>6 DEF Busy

\* The handler's key once it has read the element.
LEMMA KeyInHand ==
    ASSUME IInv, NEW c \in CPUs, Busy(c), cpu[c].pc /= "start"
    PROVE  cpu[c].bk \in StatKeys
  BY DEF IInv, HandlerInv

\* What a step that adds to the statistics leaves true of the readout.
LEMMA GrowingReadInv ==
    ASSUME IInv, stats' \in [DOMAIN stats' -> Stat], DOMAIN stats \subseteq DOMAIN stats',
           \A k \in DOMAIN stats : /\ stats'[k].count >= stats[k].count
                                   /\ stats'[k].bytes >= stats[k].bytes,
           UNCHANGED <<loader, left, series, atEnd>>
    PROVE  ReadInv'
  <1>1. /\ stats \in [DOMAIN stats -> Stat] /\ atEnd \in [DOMAIN atEnd -> Stat]
        /\ DOMAIN atEnd \subseteq DOMAIN stats
    BY DEF IInv, TypeOK, ReadInv
  <1>2. \A k \in DOMAIN atEnd : /\ stats'[k].count >= atEnd[k].count
                                /\ stats'[k].bytes >= atEnd[k].bytes
    <2> SUFFICES ASSUME NEW k \in DOMAIN atEnd
                 PROVE  /\ stats'[k].count >= atEnd[k].count
                        /\ stats'[k].bytes >= atEnd[k].bytes
      OBVIOUS
    <2>1. stats[k] \in Stat /\ stats'[k] \in Stat /\ atEnd[k] \in Stat
      BY <1>1
    <2>2. stats[k].count >= atEnd[k].count /\ stats[k].bytes >= atEnd[k].bytes
      BY DEF IInv, ReadInv
    <2>3. stats'[k].count >= stats[k].count /\ stats'[k].bytes >= stats[k].bytes
      BY <1>1
    <2>4. QED
      BY <2>1, <2>2, <2>3 DEF Stat
  <1>3. QED
    BY <1>1, <1>2 DEF IInv, ReadInv

\* Reading the element puts one sample in hand, from the request's own start
\* unless keys collided.
LEMMA ReadStartIInv ==
    ASSUME IInv, NEW c \in CPUs, ReadStart(c)
    PROVE  IInv'
  <1>1. /\ UNCHANGED <<req, requeues, onIssue, onComplete, inflight, elem, stats>>
        /\ UNCHANGED <<loader, left, series, dropped, atEnd, collided, strayed>>
        /\ cpu[c].pc = "start"
        /\ wrong' = IF elem[cpu[c].s] = cpu[c].rq THEN wrong ELSE wrong \cup {"start"}
    BY DEF ReadStart, hostVars, loaderVars
  <1>2. Busy(c) /\ cpu[c] \in Handler /\ Key(c) \in Keys
    BY <1>1, BusyFacts DEF Busy
  <1>3. <<Key(c)[1], elem[cpu[c].s] \in Writes>> \in StatKeys
    <2>1. Key(c)[1] \in Devs
      BY <1>2 DEF Keys
    <2>2. (elem[cpu[c].s] \in Writes) \in BOOLEAN
      OBVIOUS
    <2>3. QED
      BY <2>1, <2>2 DEF StatKeys
  <1>4. PICK b \in StatKeys :
           /\ cpu' = [cpu EXCEPT ![c] = [cpu[c] EXCEPT !.pc = "lookup", !.bk = b]]
           /\ found' = [found EXCEPT ![b] = @ + 1]
    BY <1>3 DEF ReadStart
  <1>5. wrong' \subseteq {"start", "bytes"} /\ (~collided => wrong' = wrong)
    BY <1>1, <1>2 DEF IInv, TypeOK, MatchInv
  <1> DEFINE h == [cpu[c] EXCEPT !.pc = "lookup", !.bk = b]
  <1>6. h \in Handler /\ h.pc = "lookup" /\ h.rq = cpu[c].rq /\ h.s = cpu[c].s /\ h.bk = b
    BY <1>2 DEF Handler, Steps
  <1> HIDE DEF h
  <1>7. cpu \in [CPUs -> Handler \cup {Idle}] /\ found \in [StatKeys -> Nat]
    BY DEF IInv, TypeOK
  <1>8. /\ cpu' \in [CPUs -> Handler \cup {Idle}] /\ cpu'[c] = h
        /\ \A d \in CPUs : d /= c => cpu'[d] = cpu[d]
        /\ found' \in [StatKeys -> Nat] /\ found'[b] = found[b] + 1
        /\ \A k \in StatKeys : k /= b => found'[k] = found[k]
    BY <1>4, <1>6, <1>7 DEF h
  <1>9. TypeOK'
    BY <1>1, <1>5, <1>8 DEF IInv, TypeOK
  <1>10. \A d \in CPUs : /\ Busy(d)' <=> Busy(d)
                         /\ Busy(d) => cpu'[d].rq = cpu[d].rq /\ cpu'[d].s = cpu[d].s
    BY <1>2, <1>6, <1>8 DEF Busy
  <1>11. HostInv' /\ ElementInv' /\ MatchInv' /\ EntriesAreOutstanding'
    BY <1>1, <1>10, SameMatching
  <1>12. HandlerInv'
    BY <1>1, <1>6, <1>8 DEF IInv, HandlerInv, Busy
  <1>13. InHand(b)' = InHand(b) \cup {c} /\ c \notin InHand(b)
    BY <1>1, <1>6, <1>8 DEF InHand
  <1>14. \A k \in StatKeys : k /= b => InHand(k)' = InHand(k)
    BY <1>1, <1>6, <1>8 DEF InHand
  <1>15. Cardinality(InHand(b)') = Cardinality(InHand(b)) + 1
    BY <1>13, HandsFinite, FS_AddElement
  <1>16. ExactWithoutCollision'
    <2> SUFFICES ASSUME NEW k \in StatKeys
                 PROVE  found'[k] = (IF k \in DOMAIN stats THEN stats[k].count ELSE 0)
                                    + dropped[k] + Cardinality(InHand(k)')
      BY <1>1, <1>5 DEF IInv, ExactWithoutCollision
    <2> DEFINE n == IF k \in DOMAIN stats THEN stats[k].count ELSE 0
    <2>1. n \in Nat /\ dropped[k] \in Nat /\ Cardinality(InHand(k)) \in Nat
      BY HandsFinite DEF IInv, TypeOK, Stat
    <2>2. found[k] = n + dropped[k] + Cardinality(InHand(k))
      BY DEF IInv, ExactWithoutCollision
    <2> HIDE DEF n
    <2>3. found'[k] = n + dropped[k] + Cardinality(InHand(k)')
      BY <1>8, <1>14, <1>15, <2>1, <2>2
    <2>4. QED
      BY <2>3 DEF n
  <1>17. ReadInv'
    BY <1>1 DEF IInv, ReadInv
  <1>18. QED
    BY <1>9, <1>11, <1>12, <1>16, <1>17 DEF IInv

\* Between the element and the count a handler keeps its sample in hand.
LEMMA StillInHand ==
    ASSUME IInv, NEW c \in CPUs, cpu[c].pc \in {"lookup", "insert", "relookup"},
           NEW p \in {"insert", "relookup", "count"}, Goto(c, p),
           UNCHANGED <<req, requeues, onIssue, onComplete, inflight, elem>>,
           UNCHANGED <<loader, left, series, found, dropped, atEnd, collided, strayed, wrong>>,
           stats' \in [DOMAIN stats' -> Stat], DOMAIN stats' \subseteq StatKeys,
           DOMAIN stats \subseteq DOMAIN stats',
           \A k \in DOMAIN stats : stats'[k] = stats[k],
           \A k \in DOMAIN stats' : k \notin DOMAIN stats => stats'[k].count = 0,
           p = "count" => cpu[c].bk \in DOMAIN stats'
    PROVE  IInv'
  <1>1. Busy(c) /\ p \in Steps \ {"idle"}
    BY DEF Busy, Steps
  <1>2. /\ cpu' \in [CPUs -> Handler \cup {Idle}]
        /\ cpu'[c].pc = p /\ cpu'[c].bk = cpu[c].bk
        /\ \A d \in CPUs : d /= c => cpu'[d] = cpu[d]
        /\ \A d \in CPUs : /\ Busy(d)' <=> Busy(d)
                           /\ Busy(d) => cpu'[d].rq = cpu[d].rq /\ cpu'[d].s = cpu[d].s
    BY <1>1, GotoFacts
  <1>3. TypeOK'
    BY <1>2 DEF IInv, TypeOK
  <1>4. HostInv' /\ ElementInv' /\ MatchInv' /\ EntriesAreOutstanding'
    BY <1>2, SameMatching
  <1>5. HandlerInv'
    <2>1. cpu[c].bk \in StatKeys
      BY <1>1, KeyInHand
    <2>2. QED
      BY <1>2, <2>1 DEF IInv, HandlerInv, Busy
  <1>6. \A k \in StatKeys : InHand(k)' = InHand(k)
    BY <1>2 DEF InHand
  <1>7. ExactWithoutCollision'
    <2> SUFFICES ASSUME NEW k \in StatKeys
                 PROVE  found[k] = (IF k \in DOMAIN stats' THEN stats'[k].count ELSE 0)
                                   + dropped[k] + Cardinality(InHand(k)')
      BY DEF IInv, ExactWithoutCollision
    <2>1. (IF k \in DOMAIN stats' THEN stats'[k].count ELSE 0)
              = (IF k \in DOMAIN stats THEN stats[k].count ELSE 0)
      OBVIOUS
    <2>2. found[k] = (IF k \in DOMAIN stats THEN stats[k].count ELSE 0)
                     + dropped[k] + Cardinality(InHand(k))
      BY DEF IInv, ExactWithoutCollision
    <2>3. QED
      BY <1>6, <2>1, <2>2
  <1>8. ReadInv'
    BY DEF IInv, ReadInv
  <1>9. QED
    BY <1>3, <1>4, <1>5, <1>7, <1>8 DEF IInv

\* The three map operations before the count: only the second writes, and only an
\* empty entry.
LEMMA MapIInv ==
    ASSUME IInv, NEW c \in CPUs, LookupStat(c) \/ InsertStat(c) \/ RelookupStat(c)
    PROVE  IInv'
  <1>1. /\ stats \in [DOMAIN stats -> Stat] /\ DOMAIN stats \subseteq StatKeys
        /\ UNCHANGED <<req, requeues, onIssue, onComplete, inflight, elem>>
        /\ UNCHANGED <<loader, left, series, found, dropped, atEnd, collided, strayed, wrong>>
        /\ cpu[c].pc \in {"lookup", "insert", "relookup"}
    BY DEF IInv, TypeOK, LookupStat, InsertStat, RelookupStat, hostVars, loaderVars, history
  <1>2. CASE LookupStat(c)
    <2>1. UNCHANGED stats
      BY <1>2 DEF LookupStat
    <2>2. CASE cpu[c].bk \in DOMAIN stats
      <3>1. Goto(c, "count")
        BY <1>2, <2>2 DEF LookupStat
      <3>2. QED
        BY <1>1, <2>1, <2>2, <3>1, StillInHand
    <2>3. CASE cpu[c].bk \notin DOMAIN stats
      <3>1. Goto(c, "insert")
        BY <1>2, <2>3 DEF LookupStat
      <3>2. QED
        BY <1>1, <2>1, <3>1, StillInHand
    <2>4. QED
      BY <2>2, <2>3
  <1>3. CASE InsertStat(c)
    <2>1. Goto(c, "relookup") /\ cpu[c].pc = "insert"
      BY <1>3 DEF InsertStat
    <2>2. cpu[c].bk \in StatKeys
      BY <2>1, KeyInHand DEF Busy
    <2>3. Zero \in Stat /\ Zero.count = 0
      BY DEF Zero, Stat
    <2>4. /\ stats' \in [DOMAIN stats' -> Stat] /\ DOMAIN stats' \subseteq StatKeys
          /\ DOMAIN stats \subseteq DOMAIN stats'
          /\ \A k \in DOMAIN stats : stats'[k] = stats[k]
          /\ \A k \in DOMAIN stats' : k \notin DOMAIN stats => stats'[k].count = 0
      <3>1. CASE stats' = Put(stats, cpu[c].bk, Zero) /\ cpu[c].bk \notin DOMAIN stats
        BY <1>1, <2>2, <2>3, <3>1 DEF Put
      <3>2. CASE stats' = stats
        BY <1>1, <3>2
      <3>3. QED
        BY <1>3, <3>1, <3>2 DEF InsertStat
    <2>5. QED
      BY <1>1, <2>1, <2>4, StillInHand
  <1>4. CASE RelookupStat(c)
    <2>1. Goto(c, "count") /\ UNCHANGED stats /\ cpu[c].bk \in DOMAIN stats
      BY <1>4 DEF RelookupStat
    <2>2. QED
      BY <1>1, <2>1, StillInHand
  <1>5. QED
    BY <1>2, <1>3, <1>4

\* A sample the full statistics have no room for: dropped once, the entry with it.
LEMMA DropSampleIInv ==
    ASSUME IInv, NEW c \in CPUs, DropSample(c)
    PROVE  IInv'
  <1>1. /\ UNCHANGED <<req, requeues, onIssue, onComplete, elem, stats>>
        /\ UNCHANGED <<loader, left, series, found, atEnd, collided, strayed, wrong>>
        /\ cpu[c].pc = "relookup" /\ cpu[c].bk \notin DOMAIN stats
        /\ cpu' = [cpu EXCEPT ![c] = Idle] /\ inflight' = Del(inflight, Key(c))
    BY DEF DropSample, hostVars, loaderVars
  <1>2. Busy(c)
    BY <1>1 DEF Busy
  <1>3. PICK b \in StatKeys : b = cpu[c].bk
    BY <1>1, <1>2, KeyInHand
  <1>4. dropped \in [StatKeys -> Nat] /\ dropped' = [dropped EXCEPT ![b] = @ + 1]
    BY <1>3 DEF DropSample, IInv, TypeOK
  <1>5. /\ dropped' \in [StatKeys -> Nat] /\ dropped'[b] = dropped[b] + 1
        /\ \A k \in StatKeys : k /= b => dropped'[k] = dropped[k]
    BY <1>4
  <1>6. /\ inflight' \in [DOMAIN inflight' -> Elements] /\ DOMAIN inflight' \subseteq Keys
        /\ cpu' \in [CPUs -> Handler \cup {Idle}] /\ cpu'[c] = Idle
        /\ \A d \in CPUs : d /= c => cpu'[d] = cpu[d]
        /\ HostInv' /\ ElementInv' /\ MatchInv' /\ EntriesAreOutstanding'
    BY <1>1, <1>2, EndMatching
  <1>7. TypeOK'
    BY <1>1, <1>5, <1>6 DEF IInv, TypeOK
  <1>8. HandlerInv'
    BY <1>1, <1>6 DEF IInv, HandlerInv, Busy, Idle
  <1>9. InHand(b)' = InHand(b) \ {c} /\ c \in InHand(b)
    BY <1>1, <1>3, <1>6 DEF InHand, Idle
  <1>10. \A k \in StatKeys : k /= b => InHand(k)' = InHand(k)
    BY <1>3, <1>6 DEF InHand, Idle
  <1>11. Cardinality(InHand(b)') = Cardinality(InHand(b)) - 1
    BY <1>9, HandsFinite, FS_RemoveElement
  <1>12. ExactWithoutCollision'
    <2> SUFFICES ASSUME NEW k \in StatKeys
                 PROVE  found[k] = (IF k \in DOMAIN stats THEN stats[k].count ELSE 0)
                                    + dropped'[k] + Cardinality(InHand(k)')
      BY <1>1 DEF IInv, ExactWithoutCollision
    <2> DEFINE n == IF k \in DOMAIN stats THEN stats[k].count ELSE 0
    <2>1. n \in Nat /\ dropped[k] \in Nat /\ Cardinality(InHand(k)) \in Nat
      BY HandsFinite DEF IInv, TypeOK, Stat
    <2>2. found[k] = n + dropped[k] + Cardinality(InHand(k))
      BY DEF IInv, ExactWithoutCollision
    <2> HIDE DEF n
    <2>3. found[k] = n + dropped'[k] + Cardinality(InHand(k)')
      BY <1>5, <1>10, <1>11, <2>1, <2>2
    <2>4. QED
      BY <2>3 DEF n
  <1>13. ReadInv'
    BY <1>1 DEF IInv, ReadInv
  <1>14. QED
    BY <1>6, <1>7, <1>8, <1>12, <1>13 DEF IInv

\* The delete that follows the byte count.
LEMMA DeleteStartIInv ==
    ASSUME IInv, NEW c \in CPUs, DeleteStart(c)
    PROVE  IInv'
  <1>1. /\ UNCHANGED <<req, requeues, onIssue, onComplete, elem, stats>>
        /\ UNCHANGED <<loader, left, series, found, dropped, atEnd, collided, strayed, wrong>>
        /\ cpu[c].pc = "delete"
        /\ cpu' = [cpu EXCEPT ![c] = Idle] /\ inflight' = Del(inflight, Key(c))
    BY DEF DeleteStart, hostVars, loaderVars, history
  <1>2. Busy(c)
    BY <1>1 DEF Busy
  <1>3. /\ inflight' \in [DOMAIN inflight' -> Elements] /\ DOMAIN inflight' \subseteq Keys
        /\ cpu' \in [CPUs -> Handler \cup {Idle}] /\ cpu'[c] = Idle
        /\ \A d \in CPUs : d /= c => cpu'[d] = cpu[d]
        /\ HostInv' /\ ElementInv' /\ MatchInv' /\ EntriesAreOutstanding'
    BY <1>1, <1>2, EndMatching
  <1>4. TypeOK'
    BY <1>1, <1>3 DEF IInv, TypeOK
  <1>5. HandlerInv'
    BY <1>1, <1>3 DEF IInv, HandlerInv, Busy, Idle
  <1>6. \A k \in StatKeys : InHand(k)' = InHand(k)
    BY <1>1, <1>3 DEF InHand, Idle
  <1>7. ExactWithoutCollision'
    BY <1>1, <1>6 DEF IInv, ExactWithoutCollision
  <1>8. ReadInv'
    BY <1>1 DEF IInv, ReadInv
  <1>9. QED
    BY <1>3, <1>4, <1>5, <1>7, <1>8 DEF IInv

\* The count takes the sample out of the handler's hands.
LEMMA CountSlotIInv ==
    ASSUME IInv, NEW c \in CPUs, CountSlot(c)
    PROVE  IInv'
  <1>1. /\ UNCHANGED <<req, requeues, onIssue, onComplete, inflight, elem>>
        /\ UNCHANGED <<loader, left, series, found, dropped, atEnd, collided, strayed, wrong>>
        /\ cpu[c].pc = "count" /\ Goto(c, "bytes")
    BY DEF CountSlot, hostVars, loaderVars, history
  <1>2. Busy(c) /\ cpu[c].bk \in DOMAIN stats
    BY <1>1 DEF Busy, IInv, HandlerInv
  <1>3. PICK b \in StatKeys : b = cpu[c].bk
    BY <1>1, <1>2, KeyInHand
  <1>4. /\ stats \in [DOMAIN stats -> Stat] /\ DOMAIN stats \subseteq StatKeys
        /\ stats' = [stats EXCEPT ![b] = [stats[b] EXCEPT !.count = @ + 1]]
    BY <1>3 DEF CountSlot, IInv, TypeOK
  <1>5. stats[b] \in Stat
    BY <1>2, <1>3, <1>4
  <1>6. /\ [stats[b] EXCEPT !.count = @ + 1] \in Stat
        /\ [stats[b] EXCEPT !.count = @ + 1].count = stats[b].count + 1
        /\ [stats[b] EXCEPT !.count = @ + 1].bytes = stats[b].bytes
    BY <1>5 DEF Stat
  <1>7. /\ DOMAIN stats' = DOMAIN stats /\ stats' \in [DOMAIN stats' -> Stat]
        /\ \A k \in DOMAIN stats : k /= b => stats'[k] = stats[k]
        /\ stats'[b].count = stats[b].count + 1 /\ stats'[b].bytes = stats[b].bytes
    BY <1>2, <1>3, <1>4, <1>6
  <1>8. /\ cpu' \in [CPUs -> Handler \cup {Idle}]
        /\ cpu'[c].pc = "bytes" /\ cpu'[c].bk = cpu[c].bk
        /\ \A d \in CPUs : d /= c => cpu'[d] = cpu[d]
        /\ \A d \in CPUs : /\ Busy(d)' <=> Busy(d)
                           /\ Busy(d) => cpu'[d].rq = cpu[d].rq /\ cpu'[d].s = cpu[d].s
    BY <1>1, <1>2, GotoFacts DEF Steps
  <1>9. TypeOK'
    BY <1>1, <1>4, <1>7, <1>8 DEF IInv, TypeOK
  <1>10. HostInv' /\ ElementInv' /\ MatchInv' /\ EntriesAreOutstanding'
    BY <1>1, <1>8, SameMatching
  <1>11. HandlerInv'
    BY <1>2, <1>3, <1>7, <1>8 DEF IInv, HandlerInv, Busy
  <1>12. InHand(b)' = InHand(b) \ {c} /\ c \in InHand(b)
    BY <1>1, <1>3, <1>8 DEF InHand
  <1>13. \A k \in StatKeys : k /= b => InHand(k)' = InHand(k)
    BY <1>1, <1>3, <1>8 DEF InHand
  <1>14. Cardinality(InHand(b)') = Cardinality(InHand(b)) - 1
    BY <1>12, HandsFinite, FS_RemoveElement
  <1>15. ExactWithoutCollision'
    <2> SUFFICES ASSUME NEW k \in StatKeys
                 PROVE  found[k] = (IF k \in DOMAIN stats' THEN stats'[k].count ELSE 0)
                                    + dropped[k] + Cardinality(InHand(k)')
      BY <1>1 DEF IInv, ExactWithoutCollision
    <2>1. found[k] = (IF k \in DOMAIN stats THEN stats[k].count ELSE 0)
                     + dropped[k] + Cardinality(InHand(k))
      BY DEF IInv, ExactWithoutCollision
    <2>2. CASE k = b
      <3>1. stats[b].count \in Nat /\ dropped[b] \in Nat /\ Cardinality(InHand(b)) \in Nat
        BY <1>5, HandsFinite DEF IInv, TypeOK, Stat
      <3>2. QED
        BY <1>2, <1>3, <1>7, <1>14, <2>1, <2>2, <3>1
    <2>3. CASE k /= b
      BY <1>7, <1>13, <2>1, <2>3
    <2>4. QED
      BY <2>2, <2>3
  <1>16. \A k \in DOMAIN stats : /\ stats'[k].count >= stats[k].count
                                 /\ stats'[k].bytes >= stats[k].bytes
    BY <1>4, <1>7 DEF Stat
  <1>17. ReadInv'
    BY <1>1, <1>7, <1>16, GrowingReadInv
  <1>18. QED
    BY <1>9, <1>10, <1>11, <1>15, <1>17 DEF IInv

\* The bytes are the request's own unless keys collided.
LEMMA AddBytesIInv ==
    ASSUME IInv, NEW c \in CPUs, AddBytes(c)
    PROVE  IInv'
  <1>1. /\ UNCHANGED <<req, requeues, onIssue, onComplete, inflight, elem>>
        /\ UNCHANGED <<loader, left, series, found, dropped, atEnd, collided, strayed>>
        /\ cpu[c].pc = "bytes" /\ Goto(c, "delete")
        /\ wrong' = IF elem[cpu[c].s] = cpu[c].rq THEN wrong ELSE wrong \cup {"bytes"}
    BY DEF AddBytes, hostVars, loaderVars
  <1>2. Busy(c) /\ cpu[c].bk \in DOMAIN stats
    BY <1>1 DEF Busy, IInv, HandlerInv
  <1>3. PICK b \in StatKeys : b = cpu[c].bk
    BY <1>1, <1>2, KeyInHand
  <1>4. elem[cpu[c].s] \in Reqs
    BY <1>2 DEF IInv, ElementInv
  <1>5. PICK n \in Nat : n = Bytes[elem[cpu[c].s]]
    BY <1>4, BlockAssumption
  <1>6. wrong' \subseteq {"start", "bytes"} /\ (~collided => wrong' = wrong)
    BY <1>1, <1>2 DEF IInv, TypeOK, MatchInv
  <1>7. /\ stats \in [DOMAIN stats -> Stat] /\ DOMAIN stats \subseteq StatKeys
        /\ stats' = [stats EXCEPT ![b] = [stats[b] EXCEPT !.bytes = @ + n]]
    BY <1>3, <1>5 DEF AddBytes, IInv, TypeOK
  <1>8. stats[b] \in Stat
    BY <1>2, <1>3, <1>7
  <1>9. /\ [stats[b] EXCEPT !.bytes = @ + n] \in Stat
        /\ [stats[b] EXCEPT !.bytes = @ + n].count = stats[b].count
        /\ [stats[b] EXCEPT !.bytes = @ + n].bytes = stats[b].bytes + n
    BY <1>8 DEF Stat
  <1>10. /\ DOMAIN stats' = DOMAIN stats /\ stats' \in [DOMAIN stats' -> Stat]
         /\ \A k \in DOMAIN stats : k /= b => stats'[k] = stats[k]
         /\ stats'[b].count = stats[b].count /\ stats'[b].bytes = stats[b].bytes + n
    BY <1>2, <1>3, <1>7, <1>9
  <1>11. /\ cpu' \in [CPUs -> Handler \cup {Idle}]
         /\ cpu'[c].pc = "delete" /\ cpu'[c].bk = cpu[c].bk
         /\ \A d \in CPUs : d /= c => cpu'[d] = cpu[d]
         /\ \A d \in CPUs : /\ Busy(d)' <=> Busy(d)
                            /\ Busy(d) => cpu'[d].rq = cpu[d].rq /\ cpu'[d].s = cpu[d].s
    BY <1>1, <1>2, GotoFacts DEF Steps
  <1>12. TypeOK'
    BY <1>1, <1>6, <1>7, <1>10, <1>11 DEF IInv, TypeOK
  <1>13. HostInv' /\ ElementInv' /\ MatchInv' /\ EntriesAreOutstanding'
    BY <1>1, <1>11, SameMatching
  <1>14. HandlerInv'
    BY <1>3, <1>10, <1>11 DEF IInv, HandlerInv, Busy
  <1>15. \A k \in StatKeys : InHand(k)' = InHand(k)
    BY <1>1, <1>11 DEF InHand
  <1>16. \A k \in DOMAIN stats : stats'[k].count = stats[k].count
    BY <1>10
  <1>17. ExactWithoutCollision'
    BY <1>1, <1>6, <1>10, <1>15, <1>16 DEF IInv, ExactWithoutCollision
  <1>18. \A k \in DOMAIN stats : /\ stats'[k].count >= stats[k].count
                                 /\ stats'[k].bytes >= stats[k].bytes
    BY <1>7, <1>10 DEF Stat
  <1>19. ReadInv'
    BY <1>1, <1>10, <1>18, GrowingReadInv
  <1>20. QED
    BY <1>12, <1>13, <1>14, <1>17, <1>19 DEF IInv

\* Whatever the handler does next.
LEMMA CompleteNextIInv ==
    ASSUME IInv, NEW c \in CPUs, CompleteNext(c)
    PROVE  IInv'
  BY ReadStartIInv, MapIInv, DropSampleIInv, CountSlotIInv, AddBytesIInv, DeleteStartIInv
     DEF CompleteNext

-----------------------------------------------------------------------------
(* The loader. *)

\* A loader step that leaves requests, entries and handlers alone.
LEMMA LoaderKeeps ==
    ASSUME IInv, UNCHANGED <<req, inflight, elem, stats, cpu>>,
           UNCHANGED <<found, dropped, collided, strayed, wrong>>, onIssue => onIssue'
    PROVE  /\ HostInv' /\ HandlerInv' /\ ElementInv' /\ MatchInv'
           /\ ExactWithoutCollision' /\ EntriesAreOutstanding'
  <1>1. \A d \in CPUs : /\ Busy(d)' <=> Busy(d)
                        /\ Busy(d) => cpu'[d].rq = cpu[d].rq /\ cpu'[d].s = cpu[d].s
    BY DEF Busy
  <1>2. HostInv' /\ ElementInv' /\ MatchInv' /\ EntriesAreOutstanding'
    BY <1>1, SameMatching
  <1>3. HandlerInv'
    BY DEF IInv, HandlerInv, Busy
  <1>4. ExactWithoutCollision'
    BY DEF IInv, ExactWithoutCollision, InHand
  <1>5. QED
    BY <1>2, <1>3, <1>4

\* Attaching the programs, closing the window, writing the fragment.
LEMMA PhaseIInv ==
    ASSUME IInv, AttachIssue \/ AttachComplete \/ EndWindow \/ WriteFragment
    PROVE  IInv'
  <1>1. /\ UNCHANGED <<req, requeues, inflight, elem, stats, cpu, series>>
        /\ UNCHANGED <<found, dropped, collided, strayed, wrong>>
        /\ onIssue => onIssue'
        /\ onIssue' \in BOOLEAN /\ onComplete' \in BOOLEAN
    BY DEF AttachIssue, AttachComplete, EndWindow, WriteFragment, IInv, TypeOK,
           hostVars, progVars, loaderVars, history
  <1>2. /\ HostInv' /\ HandlerInv' /\ ElementInv' /\ MatchInv'
        /\ ExactWithoutCollision' /\ EntriesAreOutstanding'
    BY <1>1, LoaderKeeps
  <1>3. /\ loader' \in {"load", "window", "read", "done"} /\ left' \subseteq StatKeys
        /\ atEnd' \in [DOMAIN atEnd' -> Stat]
    BY DEF AttachIssue, AttachComplete, EndWindow, WriteFragment, IInv, TypeOK,
           loaderVars, history
  <1>4. TypeOK'
    BY <1>1, <1>3 DEF IInv, TypeOK
  <1>5. CASE AttachIssue \/ AttachComplete \/ WriteFragment
    <2>1. ReadInv'
      BY <1>1, <1>5 DEF AttachIssue, AttachComplete, WriteFragment, IInv, ReadInv,
                        loaderVars, history
    <2>2. QED
      BY <1>2, <1>4, <2>1 DEF IInv
  <1>6. CASE EndWindow
    <2>1. /\ loader = "window" /\ loader' = "read" /\ left' = DOMAIN stats /\ atEnd' = stats
          /\ stats \in [DOMAIN stats -> Stat]
      BY <1>6 DEF EndWindow, IInv, TypeOK
    <2>2. DOMAIN series' = {}
      BY <1>1, <2>1 DEF IInv, ReadInv
    <2>3. \A k \in DOMAIN stats : /\ stats[k].count >= stats[k].count
                                   /\ stats[k].bytes >= stats[k].bytes
      BY <2>1 DEF Stat
    <2>4. ReadInv'
      BY <1>1, <2>1, <2>2, <2>3 DEF ReadInv
    <2>5. QED
      BY <1>2, <1>4, <2>4 DEF IInv
  <1>7. QED
    BY <1>5, <1>6

\* Reading an entry: what is copied covers what the window ended with.
LEMMA ReadIInv ==
    ASSUME IInv, NEW k \in StatKeys, ReadSlots(k) \/ ReadBytes(k)
    PROVE  IInv'
  <1>1. /\ UNCHANGED <<req, requeues, onIssue, onComplete, inflight, elem, stats, cpu>>
        /\ UNCHANGED <<loader, found, dropped, atEnd, collided, strayed, wrong>>
        /\ loader = "read" /\ k \in left
    BY DEF ReadSlots, ReadBytes, hostVars, progVars, history
  <1>2. /\ HostInv' /\ HandlerInv' /\ ElementInv' /\ MatchInv'
        /\ ExactWithoutCollision' /\ EntriesAreOutstanding'
    BY <1>1, LoaderKeeps
  <1>3. /\ series \in [DOMAIN series -> Stat] /\ DOMAIN series \subseteq StatKeys
        /\ stats \in [DOMAIN stats -> Stat] /\ left \subseteq StatKeys
        /\ atEnd \in [DOMAIN atEnd -> Stat]
    BY DEF IInv, TypeOK
  <1>4. /\ left \subseteq DOMAIN atEnd /\ DOMAIN atEnd \subseteq DOMAIN stats
        /\ \A j \in DOMAIN atEnd :
              /\ stats[j].count >= atEnd[j].count /\ stats[j].bytes >= atEnd[j].bytes
              /\ j \in DOMAIN series => series[j].count >= atEnd[j].count
              /\ j \notin left /\ atEnd[j].count > 0 =>
                    j \in DOMAIN series /\ series[j].bytes >= atEnd[j].bytes
    BY DEF IInv, ReadInv
  <1>5. k \in DOMAIN atEnd /\ stats[k] \in Stat /\ atEnd[k] \in Stat
    BY <1>1, <1>3, <1>4
  <1>6. /\ series' \in [DOMAIN series' -> Stat] /\ DOMAIN series' \subseteq StatKeys
        /\ left' \subseteq left /\ \A j \in left : j \notin left' => j = k
        /\ \A j \in DOMAIN series : j /= k => j \in DOMAIN series' /\ series'[j] = series[j]
        /\ \A j \in DOMAIN series' : j \in DOMAIN series \/ j = k
        /\ k \in DOMAIN series' => series'[k].count >= atEnd[k].count
        /\ k \notin left' /\ atEnd[k].count > 0 =>
              k \in DOMAIN series' /\ series'[k].bytes >= atEnd[k].bytes
    <2>1. CASE ReadSlots(k)
      <3>1. k \notin DOMAIN series
        BY <2>1 DEF ReadSlots
      <3>2. CASE stats[k].count = 0
        <4>1. left' = left \ {k} /\ series' = series
          BY <2>1, <3>2 DEF ReadSlots
        <4>2. ~(atEnd[k].count > 0)
          BY <1>4, <1>5, <3>2 DEF Stat
        <4>3. QED
          BY <1>3, <3>1, <4>1, <4>2
      <3>3. CASE stats[k].count /= 0
        <4> DEFINE v == [count |-> stats[k].count, bytes |-> 0]
        <4>1. left' = left /\ series' = Put(series, k, v)
          BY <2>1, <3>3 DEF ReadSlots
        <4>2. v \in Stat /\ v.count = stats[k].count
          BY <1>5 DEF Stat
        <4> HIDE DEF v
        <4>3. QED
          BY <1>1, <1>3, <1>4, <1>5, <3>1, <4>1, <4>2 DEF Put
      <3>4. QED
        BY <3>2, <3>3
    <2>2. CASE ReadBytes(k)
      <3> DEFINE v == [series[k] EXCEPT !.bytes = stats[k].bytes]
      <3>1. left' = left \ {k} /\ series' = [series EXCEPT ![k] = v] /\ k \in DOMAIN series
        BY <2>2 DEF ReadBytes
      <3>2. v \in Stat /\ v.count = series[k].count /\ v.bytes = stats[k].bytes
        BY <1>3, <1>5, <3>1 DEF Stat
      <3> HIDE DEF v
      <3>3. QED
        BY <1>3, <1>4, <1>5, <3>1, <3>2
    <2>3. QED
      BY <2>1, <2>2
  <1>7. TypeOK'
    BY <1>1, <1>3, <1>6 DEF IInv, TypeOK
  <1>8. ReadInv'
    BY <1>1, <1>4, <1>5, <1>6 DEF ReadInv
  <1>9. QED
    BY <1>2, <1>7, <1>8 DEF IInv

-----------------------------------------------------------------------------
(* The invariant. *)

\* It holds before the loader attaches anything.
LEMMA InitIInv ==
    ASSUME Init
    PROVE  IInv
  <1>1. /\ DOMAIN inflight = {} /\ DOMAIN stats = {} /\ DOMAIN series = {} /\ DOMAIN atEnd = {}
        /\ inflight \in [DOMAIN inflight -> Elements] /\ stats \in [DOMAIN stats -> Stat]
        /\ series \in [DOMAIN series -> Stat] /\ atEnd \in [DOMAIN atEnd -> Stat]
    BY DEF Init, Empty
  <1>2. TypeOK
    <2>1. req \in [Reqs -> [state : {"new", "issued", "done"}, key : Keys \cup {None}]]
      BY DEF Init
    <2>2. /\ requeues \in 0 .. MaxRequeues
          /\ found \in [StatKeys -> Nat] /\ dropped \in [StatKeys -> Nat]
      BY BlockAssumption DEF Init
    <2>3. /\ elem \in [Elements -> Reqs \cup {None}]
          /\ cpu \in [CPUs -> Handler \cup {Idle}]
      BY DEF Init
    <2>4. QED
      BY <1>1, <2>1, <2>2, <2>3 DEF Init, TypeOK
  <1>3. \A c \in CPUs : ~Busy(c)
    BY DEF Init, Busy, Idle
  <1>4. \A r \in Reqs : req[r].state = "new" /\ ~Held(r)
    BY <1>3 DEF Init, Held, Busy
  <1>5. HostInv /\ ElementInv /\ MatchInv /\ EntriesAreOutstanding
    BY <1>1, <1>3, <1>4 DEF HostInv, ElementInv, MatchInv, EntriesAreOutstanding
  <1>6. HandlerInv
    BY <1>3 DEF HandlerInv, Busy
  <1>7. \A k \in StatKeys : InHand(k) = {}
    BY DEF Init, InHand, Idle
  <1>8. ExactWithoutCollision
    <2>1. Cardinality({}) = 0
      BY FS_EmptySet
    <2>2. \A k \in StatKeys : found[k] = 0 /\ dropped[k] = 0 /\ k \notin DOMAIN stats
      BY <1>1 DEF Init
    <2>3. QED
      BY <1>7, <2>1, <2>2 DEF Init, ExactWithoutCollision
  <1>9. ReadInv
    BY <1>1 DEF Init, ReadInv
  <1>10. QED
    BY <1>2, <1>5, <1>6, <1>8, <1>9 DEF IInv

\* Every step of the host, the programs and the loader preserves it.
LEMMA NextIInv ==
    ASSUME IInv, [Next]_vars
    PROVE  IInv'
  <1>1. CASE Next
    BY <1>1, IssueIInv, CompleteUnmatchedIInv, CompleteIInv, CompleteNextIInv, PhaseIInv,
       ReadIInv DEF Next
  <1>2. CASE UNCHANGED vars
    <2>1. /\ UNCHANGED <<req, requeues, onIssue, onComplete, inflight, elem, stats, cpu>>
          /\ UNCHANGED <<loader, left, series, found, dropped, atEnd, collided, strayed, wrong>>
      BY <1>2 DEF vars, hostVars, progVars, loaderVars, history
    <2>2. /\ HostInv' /\ HandlerInv' /\ ElementInv' /\ MatchInv'
          /\ ExactWithoutCollision' /\ EntriesAreOutstanding'
      BY <2>1, LoaderKeeps
    <2>3. TypeOK'
      BY <2>1 DEF IInv, TypeOK
    <2>4. ReadInv'
      BY <2>1 DEF IInv, ReadInv
    <2>5. QED
      BY <2>2, <2>3, <2>4 DEF IInv
  <1>3. QED
    BY <1>1, <1>2

\* The inductive invariant of the block gadget: requests, in-flight entries, elements
\* and handlers agree, and the readout is behind the statistics.
THEOREM Invariance == Spec => []IInv
  <1>1. Init => IInv
    BY InitIInv
  <1>2. IInv /\ [Next]_vars => IInv'
    BY NextIInv
  <1>3. QED
    BY <1>1, <1>2, PTL DEF Spec

\* Requests, maps, handlers and the fragment keep their types.
THEOREM TypeCorrect == Spec => []TypeOK
  <1>1. IInv => TypeOK
    BY DEF IInv
  <1>2. QED
    BY <1>1, Invariance, PTL

\* Unless two requests shared a device and sector in flight, every sample has its
\* own request's start and bytes; and the programs of all CPUs together lose none,
\* collision or not: what found an entry is counted, dropped for a full map, or in
\* a handler's hands (handle_issue, handle_complete).
THEOREM ExactUnlessCollided == Spec => []ExactWithoutCollision
  <1>1. IInv => ExactWithoutCollision
    BY DEF IInv
  <1>2. QED
    BY <1>1, Invariance, PTL

\* The in-flight map holds outstanding requests only, unless requests collided or
\* strayed: no path through handle_complete leaves its entry behind.
THEOREM EntriesStayOutstanding == Spec => []EntriesAreOutstanding
  <1>1. IInv => EntriesAreOutstanding
    BY DEF IInv
  <1>2. QED
    BY <1>1, Invariance, PTL

\* The fragment has every series the window ended with, at least as large, although
\* the programs go on counting while the loader reads (the loader's loop).
THEOREM FragmentIsComplete == Spec => []FragmentCovers
  <1>1. IInv => FragmentCovers
    BY DEF IInv, ReadInv, FragmentCovers
  <1>2. QED
    BY <1>1, Invariance, PTL
=============================================================================
