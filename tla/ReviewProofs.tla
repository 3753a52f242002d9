----------------------------- MODULE ReviewProofs -----------------------------
(***************************************************************************)
(* Theorems about the reviews of proposals: about every request in a row   *)
(* (ProposalWorkflow), and about overlapping ones (ProposalRaces).         *)
(***************************************************************************)
EXTENDS ProposalProofs

-----------------------------------------------------------------------------
(* One proposal's instances *)

\* The steps of an instance were decided in order, and none is skipped in a live one.
InOrder(w) ==
    /\ \A k \in Steps : k < w.current => w.steps[k] = "APPROVED"
    /\ \A k \in Steps : k > w.current => w.steps[k] \in {"PENDING", "SKIPPED"}
    /\ w.status = "IN_PROGRESS" => \A k \in Steps : k > w.current => w.steps[k] = "PENDING"

\* An instance that every reviewer has approved.
Done(w) == w.status = "COMPLETED" /\ \A k \in Steps : w.steps[k] = "APPROVED"

\* A request with its n snapshots, its instances and its event: the n-th submission is
\* the n-th instance, only the last one may be live, and the event is that of an
\* instance that is done.
FlowOK(req, n, flow, conf) ==
    /\ req.version = n /\ req.instance = n /\ Len(flow) = n
    /\ req.status = "NONE" => n = 0
    /\ \A i \in 1 .. n : flow[i].version = i /\ InOrder(flow[i])
    /\ \A i \in 1 .. n : flow[i].status = "IN_PROGRESS" => i = n
    /\ conf.status # "NONE" => conf.version \in 1 .. n /\ Done(flow[conf.version])

FlowInv ==
    /\ TypeOK
    /\ \A p \in Proposals : FlowOK(request[p], Len(versions[p]), workflow[p], confirmed[p])

\* The live instance is rewritten.
LEMMA FlowRewritten ==
  ASSUME NEW req, NEW req2, NEW n \in Nat, NEW flow \in Seq(Instance), NEW conf, NEW conf2,
         NEW w \in Instance, FlowOK(req, n, flow, conf), n > 0,
         flow[n].status = "IN_PROGRESS", w.version = n, InOrder(w),
         req2.version = req.version, req2.instance = req.instance, req2.status # "NONE",
         conf2 = conf \/ (conf2.version = n /\ Done(w))
  PROVE  FlowOK(req2, n, [flow EXCEPT ![n] = w], conf2)
<1> DEFINE next == [flow EXCEPT ![n] = w]
<1>1. Len(flow) = n /\ n \in 1 .. n
  BY DEF FlowOK
<1>2. /\ Len(next) = n /\ next[n] = w
      /\ \A i \in 1 .. n : i # n => next[i] = flow[i]
  BY <1>1, ExceptSeq
<1> HIDE DEF next
<1>3. ASSUME conf2.status # "NONE" PROVE conf2.version \in 1 .. n /\ Done(next[conf2.version])
  <2>1. CASE conf2 = conf
    <3>1. conf.version \in 1 .. n /\ Done(flow[conf.version])
      BY <1>3, <2>1 DEF FlowOK
    <3>2. conf.version # n
      BY <3>1 DEF Done
    <3> QED
      BY <1>2, <2>1, <3>1, <3>2
  <2>2. CASE conf2.version = n /\ Done(w)
    BY <1>1, <1>2, <2>2
  <2> QED
    BY <2>1, <2>2
<1>4. \A i \in 1 .. n : next[i].version = i /\ InOrder(next[i])
  BY <1>2 DEF FlowOK
<1>5. \A i \in 1 .. n : next[i].status = "IN_PROGRESS" => i = n
  BY <1>2 DEF FlowOK
<1> QED
  BY <1>2, <1>3, <1>3, <1>4, <1>5 DEF FlowOK, next

\* The live instance is ended.
LEMMA FlowEnded ==
  ASSUME NEW req, NEW n \in Nat, NEW flow \in Seq(Instance), NEW conf,
         NEW i \in 1 .. n, NEW w \in Instance,
         FlowOK(req, n, flow, conf), flow[i].status = "IN_PROGRESS",
         w.version = flow[i].version, InOrder(w)
  PROVE  FlowOK(req, n, [flow EXCEPT ![i] = w], conf)
<1>1. i = n /\ n > 0 /\ Len(flow) = n /\ w.version = n /\ req.status # "NONE"
  BY DEF FlowOK
<1> QED
  BY <1>1, FlowRewritten

\* A flow without a live instance takes another one.
LEMMA FlowAppended ==
  ASSUME NEW req, NEW req2, NEW n \in Nat, NEW flow \in Seq(Instance), NEW conf,
         FlowOK(req, n, flow, conf), \A j \in 1 .. n : flow[j].status # "IN_PROGRESS",
         NewInstance(n + 1) \in Instance,
         req2.version = n + 1, req2.instance = n + 1, req2.status # "NONE"
  PROVE  FlowOK(req2, n + 1, Append(flow, NewInstance(n + 1)), conf)
<1> DEFINE w == NewInstance(n + 1)
           next == Append(flow, w)
<1>1. Len(flow) = n
  BY DEF FlowOK
<1>2. /\ Len(next) = n + 1
      /\ \A i \in 1 .. n : next[i] = flow[i]
      /\ next[n + 1] = w
  BY <1>1, AppendProperties
<1>3. w.version = n + 1 /\ InOrder(w)
  BY ReviewAssumption DEF NewInstance, InOrder, Steps
<1> HIDE DEF next, w
<1>4. \A i \in 1 .. n + 1 : next[i].version = i /\ InOrder(next[i])
  <2> TAKE i \in 1 .. n + 1
  <2>1. i \in 1 .. n \/ i = n + 1
    OBVIOUS
  <2> QED
    BY <1>2, <1>3, <2>1 DEF FlowOK
<1>5. \A i \in 1 .. n + 1 : next[i].status = "IN_PROGRESS" => i = n + 1
  BY <1>2
<1>6. conf.status # "NONE" => conf.version \in 1 .. n + 1 /\ Done(next[conf.version])
  BY <1>2 DEF FlowOK
<1> QED
  BY <1>2, <1>4, <1>5, <1>6 DEF FlowOK, next, w

\* A row that a handler has read, now or earlier.
RowOK(row) == row \in Request /\ row.instance = row.version

LEMMA RowsCurrent == ASSUME FlowInv, NEW p \in Proposals PROVE RowOK(request[p])
BY DEF FlowInv, TypeOK, RowOK, FlowOK

\* The instances of p after a cancellation.
LEMMA FlowWithdrawn ==
  ASSUME FlowInv, NEW p \in Proposals, NEW row, RowOK(row), NEW req2,
         req2.version = request[p].version, req2.instance = request[p].instance,
         req2.status # "NONE"
  PROVE  FlowOK(req2, Len(versions[p]), WithdrawnWorkflow(p, row), confirmed[p])
<1> DEFINE flow == workflow[p]
           n == Len(versions[p])
           i == row.instance
           req == request[p]
           conf == confirmed[p]
           w == [flow[i] EXCEPT !.status = "CANCELLED",
                    !.steps = [k \in Steps |-> IF @[k] = "PENDING" THEN "SKIPPED" ELSE @[k]]]
<1>1. /\ flow \in Seq(Instance) /\ n \in Nat /\ i \in Nat /\ FlowOK(req, n, flow, conf)
      /\ \A j \in 1 .. Len(flow) : flow[j] \in Instance
  BY Rows DEF FlowInv, RowOK, Request
<1>2. Len(flow) = n
  BY <1>1 DEF FlowOK
<1>3. FlowOK(req2, n, flow, conf)
  BY <1>1 DEF FlowOK
<1>4. CASE i # 0 /\ flow[i].status = "IN_PROGRESS"
  <2>1. WithdrawnWorkflow(p, row) = [flow EXCEPT ![i] = w]
    BY <1>4 DEF WithdrawnWorkflow
  <2>2. CASE i \in 1 .. n
    <3>1. flow[i] \in Instance
      BY <1>1, <1>2, <2>2
    <3>2. /\ w \in Instance
          /\ w.status = "CANCELLED" /\ w.version = flow[i].version /\ w.current = flow[i].current
          /\ \A k \in Steps : w.steps[k] = IF flow[i].steps[k] = "PENDING" THEN "SKIPPED" ELSE flow[i].steps[k]
      BY <3>1 DEF Instance, InstanceStatuses, StepStatuses
    <3>3. InOrder(flow[i])
      BY <1>1, <2>2 DEF FlowOK
    <3> HIDE DEF w
    <3>4. InOrder(w)
      BY <3>2, <3>3 DEF InOrder
    <3>5. FlowOK(req, n, [flow EXCEPT ![i] = w], conf)
      <4> HIDE DEF flow, n, req, conf, i
      <4> QED
        BY <1>1, <1>4, <2>2, <3>2, <3>4, FlowEnded
    <3>6. FlowOK(req2, n, [flow EXCEPT ![i] = w], conf)
      BY <3>5 DEF FlowOK
    <3> QED
      BY <2>1, <3>6
  <2>3. CASE i \notin 1 .. n
    <3>1. [flow EXCEPT ![i] = w] = flow
      BY <1>1, <1>2, <2>3
    <3> QED
      BY <1>3, <2>1, <3>1
  <2> QED
    BY <2>2, <2>3
<1>5. CASE ~(i # 0 /\ flow[i].status = "IN_PROGRESS")
  BY <1>3, <1>5 DEF WithdrawnWorkflow
<1> QED
  BY <1>4, <1>5

\* The instances of p after a submission.
LEMMA FlowSubmitted ==
  ASSUME FlowInv, NEW p \in Proposals, NEW row, RowOK(row), NEW req2,
         row.version = Len(versions[p]),
         req2.version = row.version + 1, req2.instance = row.version + 1, req2.status # "NONE"
  PROVE  /\ FlowOK(req2, row.version + 1, InstantiateWorkflow(p, row, row.version + 1), confirmed[p])
         /\ InstantiateWorkflow(p, row, row.version + 1)[row.version + 1] = NewInstance(row.version + 1)
<1> DEFINE flow == workflow[p]
           n == Len(versions[p])
           req == request[p]
           conf == confirmed[p]
           w == [flow[n] EXCEPT !.status = "SUPERSEDED"]
           ended == Superseded(p, row)
<1>1. /\ flow \in Seq(Instance) /\ n \in Nat /\ FlowOK(req, n, flow, conf) /\ row.instance = n
      /\ \A j \in 1 .. Len(flow) : flow[j] \in Instance
  BY Rows DEF FlowInv, RowOK, Request
<1>2. Len(flow) = n
  BY <1>1 DEF FlowOK
<1>3. NewInstance(n + 1) \in Instance
  BY <1>1, ReviewAssumption DEF NewInstance, Instance, InstanceStatuses, StepStatuses, Steps
<1>4. /\ ended \in Seq(Instance) /\ FlowOK(req, n, ended, conf)
      /\ \A j \in 1 .. n : ended[j].status # "IN_PROGRESS"
  <2>1. CASE n # 0 /\ flow[n].status = "IN_PROGRESS"
    <3>1. ended = [flow EXCEPT ![n] = w] /\ n \in 1 .. n
      BY <1>1, <2>1 DEF Superseded
    <3>2. flow[n] \in Instance /\ InOrder(flow[n])
      BY <1>1, <1>2, <3>1 DEF FlowOK
    <3>3. /\ w \in Instance
          /\ w.status = "SUPERSEDED" /\ w.version = flow[n].version /\ w.current = flow[n].current
          /\ w.steps = flow[n].steps
      BY <3>2 DEF Instance, InstanceStatuses
    <3> HIDE DEF w
    <3>4. InOrder(w)
      BY <3>2, <3>3 DEF InOrder
    <3>5. [flow EXCEPT ![n] = w] \in Seq(Instance)
      BY <1>1, <3>3, RewrittenInstance
    <3> HIDE DEF flow, n, req, conf, ended
    <3>6. FlowOK(req, n, ended, conf) /\ \A j \in 1 .. n : ended[j].status # "IN_PROGRESS"
      <4>1. FlowOK(req, n, [flow EXCEPT ![n] = w], conf)
        BY <1>1, <2>1, <3>1, <3>3, <3>4, FlowEnded
      <4>2. ended[n] = w /\ \A j \in 1 .. n : j # n => ended[j] = flow[j]
        BY <1>1, <1>2, <3>1, ExceptSeq
      <4>3. \A j \in 1 .. n : j # n => flow[j].status # "IN_PROGRESS"
        BY <1>1 DEF FlowOK
      <4> QED
        BY <3>1, <3>3, <4>1, <4>2, <4>3
    <3> QED
      BY <3>1, <3>5, <3>6
  <2>2. CASE ~(n # 0 /\ flow[n].status = "IN_PROGRESS")
    <3>1. ended = flow
      BY <1>1, <2>2 DEF Superseded
    <3> QED
      BY <1>1, <2>2, <3>1 DEF FlowOK
  <2> QED
    BY <2>1, <2>2
<1>5. InstantiateWorkflow(p, row, row.version + 1) = Append(ended, NewInstance(n + 1))
  BY DEF InstantiateWorkflow
<1>6. Len(ended) = n
  BY <1>4 DEF FlowOK
<1>7. Append(ended, NewInstance(n + 1))[n + 1] = NewInstance(n + 1)
  BY <1>4, <1>6, AppendProperties
<1> HIDE DEF flow, n, req, conf, ended
<1>8. FlowOK(req2, n + 1, Append(ended, NewInstance(n + 1)), conf)
  BY <1>1, <1>3, <1>4, FlowAppended DEF n
<1> QED
  BY <1>5, <1>7, <1>8 DEF n, conf

\* The instance a reviewer may decide on is the last one.
LEMMA AwaitedIsLast ==
  ASSUME FlowInv, NEW p \in Proposals, NEW i \in 1 .. Len(workflow[p]), NEW k \in Steps,
         Awaiting(p, i, k)
  PROVE  /\ i = Len(versions[p]) /\ i = Len(workflow[p]) /\ i = request[p].instance /\ i > 0
         /\ workflow[p][i].version = i /\ InOrder(workflow[p][i])
         /\ workflow[p][i] \in Instance /\ workflow[p][i].current = k
         /\ request[p].status # "NONE"
BY Rows DEF FlowInv, FlowOK, Awaiting

\* A decision keeps the order of the steps.
LEMMA DecidedInOrder ==
  ASSUME NEW w \in Instance, InOrder(w), NEW k \in Steps, w.current = k,
         w.status = "IN_PROGRESS"
  PROVE  /\ k < LastStep => InOrder([w EXCEPT !.steps[k] = "APPROVED", !.current = k + 1])
         /\ k = LastStep => LET v == [w EXCEPT !.steps[k] = "APPROVED", !.status = "COMPLETED"]
                            IN  InOrder(v) /\ Done(v)
         /\ InOrder([w EXCEPT !.steps[k] = "REJECTED", !.status = "REJECTED"])
         /\ InOrder([w EXCEPT !.steps[k] = "REVISION_REQUESTED"])
<1>1. w.steps \in [Steps -> StepStatuses] /\ LastStep \in Nat
  BY ReviewAssumption DEF Instance
<1>2. ASSUME k < LastStep PROVE InOrder([w EXCEPT !.steps[k] = "APPROVED", !.current = k + 1])
  <2> DEFINE v == [w EXCEPT !.steps[k] = "APPROVED", !.current = k + 1]
  <2>1. /\ v.current = k + 1 /\ v.status = "IN_PROGRESS"
        /\ \A j \in Steps : v.steps[j] = IF j = k THEN "APPROVED" ELSE w.steps[j]
    BY <1>1 DEF Instance
  <2> HIDE DEF v
  <2> QED
    BY <2>1 DEF InOrder, Steps, v
<1>3. ASSUME k = LastStep
      PROVE  LET v == [w EXCEPT !.steps[k] = "APPROVED", !.status = "COMPLETED"]
             IN  InOrder(v) /\ Done(v)
  <2> DEFINE v == [w EXCEPT !.steps[k] = "APPROVED", !.status = "COMPLETED"]
  <2>1. /\ v.current = k /\ v.status = "COMPLETED"
        /\ \A j \in Steps : v.steps[j] = IF j = k THEN "APPROVED" ELSE w.steps[j]
    BY <1>1 DEF Instance
  <2> HIDE DEF v
  <2>2. InOrder(v) /\ Done(v)
    BY <1>1, <1>3, <2>1 DEF InOrder, Done, Steps
  <2> QED
    BY <2>2 DEF v
<1>4. InOrder([w EXCEPT !.steps[k] = "REJECTED", !.status = "REJECTED"])
  <2> DEFINE v == [w EXCEPT !.steps[k] = "REJECTED", !.status = "REJECTED"]
  <2>1. /\ v.current = k /\ v.status = "REJECTED"
        /\ \A j \in Steps : v.steps[j] = IF j = k THEN "REJECTED" ELSE w.steps[j]
    BY <1>1 DEF Instance
  <2> HIDE DEF v
  <2> QED
    BY <2>1 DEF InOrder, Steps, v
<1>5. InOrder([w EXCEPT !.steps[k] = "REVISION_REQUESTED"])
  <2> DEFINE v == [w EXCEPT !.steps[k] = "REVISION_REQUESTED"]
  <2>1. /\ v.current = k /\ v.status = "IN_PROGRESS"
        /\ \A j \in Steps : v.steps[j] = IF j = k THEN "REVISION_REQUESTED" ELSE w.steps[j]
    BY <1>1 DEF Instance
  <2> HIDE DEF v
  <2> QED
    BY <2>1 DEF InOrder, Steps, v
<1> QED
  BY <1>2, <1>3, <1>4, <1>5

\* A step that touches the review of one proposal only.
Elsewhere(p) ==
    \A q \in Proposals : q # p => /\ request'[q] = request[q] /\ versions'[q] = versions[q]
                                  /\ workflow'[q] = workflow[q] /\ confirmed'[q] = confirmed[q]

LEMMA FlowFrame ==
  ASSUME FlowInv, TypeOK', NEW p \in Proposals, Elsewhere(p),
         FlowOK(request'[p], Len(versions'[p]), workflow'[p], confirmed'[p])
  PROVE  FlowInv'
BY DEF FlowInv, Elsewhere

LEMMA FlowSubmit ==
  ASSUME FlowInv, TypeOK', NEW p \in Proposals, NEW row, RowOK(row), SubmitProposal(p, row)
  PROVE  FlowInv'
<1>1. /\ request[p] \in Request /\ DOMAIN request = Proposals /\ DOMAIN versions = Proposals
      /\ DOMAIN workflow = Proposals /\ Len(workflow[p]) = Len(versions[p])
      /\ versions[p] \in Seq(Snapshot) /\ Len(versions[p]) \in Nat
  BY Rows DEF FlowInv, TypeOK, FlowOK
<1>2. row.version = Len(versions[p])
  BY DEF SubmitProposal, VersionFree
<1>3. /\ request'[p].status = "SUBMITTED" /\ request'[p].version = row.version + 1
      /\ request'[p].instance = row.version + 1
      /\ workflow'[p] = InstantiateWorkflow(p, row, row.version + 1)
      /\ confirmed' = confirmed
  BY <1>1, <1>2 DEF SubmitProposal, Request
<1>4. Len(versions'[p]) = row.version + 1
  <2>1. versions'[p] = Append(versions[p], SnapshotOf(p, row))
    BY <1>1 DEF SubmitProposal
  <2>2. Len(Append(versions[p], SnapshotOf(p, row))) = Len(versions[p]) + 1
    BY <1>1
  <2> QED
    BY <1>2, <2>1, <2>2
<1>5. FlowOK(request'[p], row.version + 1, workflow'[p], confirmed[p])
  BY <1>2, <1>3, FlowSubmitted
<1>6. Elsewhere(p)
  BY <1>1 DEF SubmitProposal, Elsewhere
<1> QED
  BY <1>3, <1>4, <1>5, <1>6, FlowFrame

LEMMA FlowCancel ==
  ASSUME FlowInv, TypeOK', NEW p \in Proposals, NEW row, RowOK(row), CancelProposal(p, row)
  PROVE  FlowInv'
<1>1. /\ request[p] \in Request /\ DOMAIN request = Proposals /\ DOMAIN workflow = Proposals
  BY Rows DEF FlowInv, TypeOK
<1>2. /\ request'[p].status = "CANCELLED" /\ request'[p].version = request[p].version
      /\ request'[p].instance = request[p].instance
      /\ workflow'[p] = WithdrawnWorkflow(p, row)
      /\ UNCHANGED <<versions, confirmed>>
  BY <1>1 DEF CancelProposal, Request
<1>3. FlowOK(request'[p], Len(versions[p]), workflow'[p], confirmed[p])
  BY <1>2, FlowWithdrawn
<1>4. Elsewhere(p)
  BY <1>1 DEF CancelProposal, Elsewhere
<1> QED
  BY <1>2, <1>3, <1>4, FlowFrame

\* A decision of a reviewer.
LEMMA FlowDecide ==
  ASSUME FlowInv, TypeOK', NEW p \in Proposals, NEW i \in 1 .. Len(workflow[p]), NEW k \in Steps,
         ApproveStep(p, i, k) \/ RejectStep(p, i, k) \/ RequestRevision(p, i, k)
  PROVE  FlowInv'
<1> DEFINE w == workflow[p][i]
           n == Len(versions[p])
<1>1. Awaiting(p, i, k)
  BY DEF ApproveStep, RejectStep, RequestRevision
<1>2. /\ i = n /\ n > 0 /\ n \in Nat /\ w.version = n /\ InOrder(w) /\ w \in Instance /\ w.current = k
      /\ w.status = "IN_PROGRESS" /\ request[p].status # "NONE"
  BY <1>1, AwaitedIsLast, Rows DEF Awaiting, FlowInv
<1>3. /\ request \in [Proposals -> Request] /\ workflow \in [Proposals -> Seq(Instance)]
      /\ confirmed \in [Proposals -> Event] /\ workflow[p] \in Seq(Instance)
      /\ FlowOK(request[p], n, workflow[p], confirmed[p])
  BY Rows DEF FlowInv, TypeOK
\* The instance becomes v, the request keeps its numbers.
<1>4. ASSUME NEW v \in Instance, v.version = n, InOrder(v),
             workflow' = [workflow EXCEPT ![p] = [workflow[p] EXCEPT ![n] = v]],
             request'[p].version = request[p].version, request'[p].instance = request[p].instance,
             request'[p].status # "NONE", versions' = versions,
             \A q \in Proposals : q # p => request'[q] = request[q] /\ confirmed'[q] = confirmed[q],
             confirmed'[p] = confirmed[p] \/ (confirmed'[p].version = n /\ Done(v))
      PROVE  FlowInv'
  <2>1. workflow'[p] = [workflow[p] EXCEPT ![n] = v]
    BY <1>3, <1>4
  <2>2. FlowOK(request'[p], n, [workflow[p] EXCEPT ![n] = v], confirmed'[p])
    BY <1>2, <1>3, <1>4, FlowRewritten
  <2>3. Elsewhere(p)
    BY <1>3, <1>4 DEF Elsewhere
  <2> QED
    BY <1>4, <2>1, <2>2, <2>3, FlowFrame
<1>5. CASE ApproveStep(p, i, k)
  <2>1. versions' = versions
    BY <1>5 DEF ApproveStep
  <2>2. CASE Advance(p, i, k)
    <3> DEFINE v == [w EXCEPT !.steps[k] = "APPROVED", !.current = k + 1]
    <3>0. v.version = n
      BY <1>2 DEF Instance
    <3>1. v \in Instance
      BY <1>2, <2>2, DecidedInstance DEF Advance, StepStatuses, InstanceStatuses
    <3>2. InOrder(v)
      BY <1>2, <2>2, DecidedInOrder DEF Advance
    <3>3. workflow' = [workflow EXCEPT ![p] = [workflow[p] EXCEPT ![n] = v]]
      BY <1>2, <2>2 DEF Advance
    <3>4. /\ request'[p].version = request[p].version /\ request'[p].instance = request[p].instance
          /\ request'[p].status # "NONE" /\ confirmed' = confirmed
          /\ \A q \in Proposals : q # p => request'[q] = request[q]
      BY <1>2, <1>3, <2>2 DEF Advance, Request
    <3> HIDE DEF v, n, w
    <3> QED
      BY <1>4, <2>1, <3>0, <3>1, <3>2, <3>3, <3>4
  <2>3. CASE Complete(p, i, k)
    <3> DEFINE v == [w EXCEPT !.steps[k] = "APPROVED", !.status = "COMPLETED"]
    <3>0. v.version = n
      BY <1>2 DEF Instance
    <3>1. v \in Instance
      BY <1>2, DecidedInstance DEF StepStatuses, InstanceStatuses
    <3>2. InOrder(v) /\ Done(v)
      BY <1>2, <2>3, DecidedInOrder DEF Complete
    <3>3. workflow' = [workflow EXCEPT ![p] = [workflow[p] EXCEPT ![n] = v]]
      BY <1>2, <2>3 DEF Complete
    <3>4. /\ request'[p].version = request[p].version /\ request'[p].instance = request[p].instance
          /\ request'[p].status # "NONE"
          /\ \A q \in Proposals : q # p => request'[q] = request[q] /\ confirmed'[q] = confirmed[q]
      BY <1>2, <1>3, <2>3 DEF Complete, Request
    <3>5. confirmed'[p] = confirmed[p] \/ confirmed'[p].version = n
      BY <1>3, <2>3 DEF Complete, ConfirmedEvent
    <3> HIDE DEF v, n, w
    <3> QED
      BY <1>4, <2>1, <3>0, <3>1, <3>2, <3>3, <3>4, <3>5
  <2> QED
    BY <1>5, <2>2, <2>3 DEF ApproveStep
<1>6. CASE RejectStep(p, i, k)
  <2> DEFINE v == [w EXCEPT !.steps[k] = "REJECTED", !.status = "REJECTED"]
  <2>0. v.version = n
    BY <1>2 DEF Instance
  <2>1. v \in Instance
    BY <1>2, DecidedInstance DEF StepStatuses, InstanceStatuses
  <2>2. InOrder(v)
    BY <1>2, DecidedInOrder
  <2>3. workflow' = [workflow EXCEPT ![p] = [workflow[p] EXCEPT ![n] = v]]
    BY <1>2, <1>6 DEF RejectStep
  <2>4. /\ request'[p].version = request[p].version /\ request'[p].instance = request[p].instance
        /\ request'[p].status # "NONE" /\ confirmed' = confirmed /\ versions' = versions
        /\ \A q \in Proposals : q # p => request'[q] = request[q]
    BY <1>2, <1>3, <1>6 DEF RejectStep, Request
  <2> HIDE DEF v, n, w
  <2> QED
    BY <1>4, <2>0, <2>1, <2>2, <2>3, <2>4
<1>7. CASE RequestRevision(p, i, k)
  <2> DEFINE v == [w EXCEPT !.steps[k] = "REVISION_REQUESTED"]
  <2>0. v.version = n
    BY <1>2 DEF Instance
  <2>1. v \in Instance
    BY <1>2, DecidedInstance DEF StepStatuses, InstanceStatuses
  <2>2. InOrder(v)
    BY <1>2, DecidedInOrder
  <2>3. workflow' = [workflow EXCEPT ![p] = [workflow[p] EXCEPT ![n] = v]]
    BY <1>2, <1>7 DEF RequestRevision
  <2>4. /\ request'[p].version = request[p].version /\ request'[p].instance = request[p].instance
        /\ request'[p].status # "NONE" /\ confirmed' = confirmed /\ versions' = versions
        /\ \A q \in Proposals : q # p => request'[q] = request[q]
    BY <1>2, <1>3, <1>7 DEF RequestRevision, Request
  <2> HIDE DEF v, n, w
  <2> QED
    BY <1>4, <2>0, <2>1, <2>2, <2>3, <2>4
<1> QED
  BY <1>5, <1>6, <1>7

\* The steps that do not submit, cancel or decide.
LEMMA FlowKept ==
  ASSUME FlowInv, TypeOK', UNCHANGED <<request, versions, workflow, confirmed>> PROVE FlowInv'
BY DEF FlowInv

LEMMA FlowEvent ==
  ASSUME FlowInv, TypeOK', NEW p \in Proposals,
         \/ \E content \in Contents : CreateDraft(p, content) \/ UpdateDraft(p, content)
         \/ CancelConfirmedEvent(p)
  PROVE  FlowInv'
<1>1. /\ request \in [Proposals -> Request] /\ confirmed \in [Proposals -> Event]
      /\ FlowOK(request[p], Len(versions[p]), workflow[p], confirmed[p])
  BY DEF FlowInv, TypeOK
<1>2. ASSUME NEW content \in Contents, CreateDraft(p, content) PROVE FlowInv'
  <2>1. FlowOK(request'[p], Len(versions[p]), workflow[p], confirmed[p])
    BY <1>1, <1>2 DEF CreateDraft, FlowOK
  <2> QED
    BY <1>1, <1>2, <2>1, FlowFrame DEF CreateDraft, Elsewhere
<1>3. ASSUME NEW content \in Contents, UpdateDraft(p, content) PROVE FlowInv'
  <2>1. /\ request'[p].status = request[p].status /\ request'[p].version = request[p].version
        /\ request'[p].instance = request[p].instance
    BY <1>1, <1>3 DEF UpdateDraft, Request
  <2>2. FlowOK(request'[p], Len(versions[p]), workflow[p], confirmed[p])
    BY <1>1, <2>1 DEF FlowOK
  <2> QED
    BY <1>1, <1>3, <2>2, FlowFrame DEF UpdateDraft, Elsewhere
<1>4. CASE CancelConfirmedEvent(p)
  <2>1. confirmed[p].status # "NONE" /\ confirmed'[p].version = confirmed[p].version
    BY <1>1, <1>4 DEF CancelConfirmedEvent, Event
  <2>2. FlowOK(request[p], Len(versions[p]), workflow[p], confirmed'[p])
    BY <1>1, <2>1 DEF FlowOK
  <2> QED
    BY <1>1, <1>4, <2>2, FlowFrame DEF CancelConfirmedEvent, Elsewhere
<1> QED
  BY <1>2, <1>3, <1>4

\* A request that acts on a row it has read at some time.
LateRow == \E p \in Proposals, row \in Request : RowOK(row) /\ Decide(p, row)

LEMMA FlowStep == FlowInv /\ (Next \/ UNCHANGED vars \/ LateRow) => FlowInv'
<1> SUFFICES ASSUME FlowInv, Next \/ UNCHANGED vars \/ LateRow PROVE FlowInv'
  OBVIOUS
<1>1. TypeOK'
  BY TypeStep DEF AnyStep, LateRow, LateStep, RowOK, FlowInv
<1>2. CASE UNCHANGED vars
  BY <1>1, <1>2, FlowKept DEF vars
<1>3. ASSUME NEW p \in Proposals, NEW row, VenueStep(p, row) PROVE FlowInv'
  BY <1>1, <1>3, FlowKept
     DEF VenueStep, CreateVenueRequest, UpdateVenueRequest, DeleteVenueRequest, SetVenue
<1>4. CASE LateRow
  <2> PICK p \in Proposals, row \in Request : RowOK(row) /\ Decide(p, row)
    BY <1>4 DEF LateRow
  <2> QED
    BY <1>1, <1>3, FlowSubmit, FlowCancel DEF Decide, VenueStep
<1>5. CASE VenueNext
  BY <1>3, <1>5 DEF VenueNext, VenueStep
<1>6. CASE BudgetNext
  BY <1>1, <1>6, FlowKept
     DEF BudgetNext, CreateBudgetProposal, UpdateBudgetProposal, DeleteBudgetProposal,
         AddLineItem, UpdateLineItem, DeleteLineItem, SetItem, VerifyBudget, SetBudget
<1>7. CASE WorkflowNext
  BY <1>1, <1>7, FlowDecide DEF WorkflowNext, DecideStep
<1>8. CASE EventNext
  BY <1>1, <1>8, FlowEvent, FlowSubmit, FlowCancel, RowsCurrent DEF EventNext
<1> QED
  BY <1>2, <1>4, <1>5, <1>6, <1>7, <1>8 DEF Next

LEMMA FlowInit == Init => FlowInv
<1> SUFFICES ASSUME Init PROVE FlowInv
  OBVIOUS
<1>1. ASSUME NEW p \in Proposals
      PROVE  FlowOK(request[p], Len(versions[p]), workflow[p], confirmed[p])
  <2>1. /\ request[p].version = 0 /\ request[p].instance = 0
        /\ versions[p] = <<>> /\ workflow[p] = <<>> /\ confirmed[p].status = "NONE"
    BY DEF Init, NoEvent
  <2> QED
    BY <2>1 DEF FlowOK
<1> QED
  BY <1>1, InitType DEF FlowInv

-----------------------------------------------------------------------------
(* Overlapping requests *)

\* The rows that sessions have read, however long ago.
ReadRows ==
    read \in [Sessions -> SUBSET {r \in [proposal : Proposals, row : Request] : RowOK(r.row)}]

RaceFlowInv == FlowInv /\ ReadRows

LEMMA RaceFlowStep == RaceFlowInv /\ [RaceNext]_raceVars => RaceFlowInv'
<1> SUFFICES ASSUME FlowInv, ReadRows, [RaceNext]_raceVars PROVE FlowInv' /\ ReadRows'
  BY DEF RaceFlowInv
<1>1. ASSUME EventNext \/ VenueNext \/ WorkflowNext PROVE FlowInv'
  BY <1>1, FlowStep DEF Next
<1>2. ASSUME NEW s \in Sessions, Answer(s) PROVE FlowInv'
  <2> PICK r \in read[s] : Decide(r.proposal, r.row)
    BY <1>2 DEF Answer
  <2>1. r.proposal \in Proposals /\ RowOK(r.row)
    BY DEF ReadRows
  <2> QED
    BY <2>1, FlowStep DEF LateRow, RowOK
<1>3. ASSUME UNCHANGED vars PROVE FlowInv'
  BY <1>3, FlowStep
<1>4. ASSUME NEW s \in Sessions, NEW p \in Proposals, ReadProposal(s, p) PROVE ReadRows'
  <2>1. [proposal |-> p, row |-> request[p]]
           \in {r \in [proposal : Proposals, row : Request] : RowOK(r.row)}
    BY RowsCurrent DEF RowOK
  <2> QED
    BY <1>4, <2>1 DEF ReadProposal, ReadRows
<1>5. ASSUME NEW s \in Sessions, read' = [read EXCEPT ![s] = {}] PROVE ReadRows'
  BY <1>5 DEF ReadRows
<1>6. UNCHANGED read => ReadRows'
  BY DEF ReadRows
<1> QED
  BY <1>1, <1>2, <1>3, <1>4, <1>5, <1>6
     DEF RaceNext, SessionNext, Answer, Refuse, ReadProposal, raceVars

LEMMA RaceFlows == RaceSpec => []RaceFlowInv
<1>1. RaceInit => RaceFlowInv
  BY FlowInit DEF RaceInit, RaceFlowInv, ReadRows
<1> QED
  BY <1>1, RaceFlowStep, PTL DEF RaceSpec

\* However many submissions overlap, each one that is accepted has a number, a snapshot
\* and an instance of its own.
THEOREM SubmissionsNumbered == RaceSpec => []SubmissionsAreNumbered
<1>1. RaceFlowInv => SubmissionsAreNumbered
  BY DEF RaceFlowInv, FlowInv, FlowOK, SubmissionsAreNumbered
<1> QED
  BY <1>1, RaceFlows, PTL

\* Nor are two instances of a proposal ever live.
THEOREM NeverTwoLive == RaceSpec => []AtMostOneLive
<1>1. RaceFlowInv => AtMostOneLive
  <2> SUFFICES ASSUME RaceFlowInv, NEW p \in Proposals PROVE Cardinality(LiveInstances(p)) <= 1
    BY DEF AtMostOneLive
  <2> DEFINE n == Len(workflow[p])
  <2>1. LiveInstances(p) \subseteq {n}
    BY DEF LiveInstances, RaceFlowInv, FlowInv, FlowOK
  <2>2. IsFiniteSet({n}) /\ Cardinality({n}) = 1
    BY FS_Singleton
  <2> QED
    BY <2>1, <2>2, FS_Subset
<1> QED
  BY <1>1, RaceFlows, PTL

\* And every event is behind an instance that all reviewers approved, whatever
\* overlapped the approval.
THEOREM EventsAreReviewed == RaceSpec => []EventIsReviewed
<1>1. RaceFlowInv => EventIsReviewed
  BY DEF RaceFlowInv, FlowInv, FlowOK, Done, EventIsReviewed
<1> QED
  BY <1>1, RaceFlows, PTL

-----------------------------------------------------------------------------
(* What the reviewers are asked *)

\* Somebody is asked for a decision on a proposal under review.
AskOK(req, flow) ==
    req.status \in {"SUBMITTED", "IN_REVIEW"} =>
        flow[req.instance].steps[flow[req.instance].current] = "PENDING"

Asked == \A p \in Proposals : AskOK(request[p], workflow[p])

\* A step on p after which somebody is asked about it, or that takes it out of review.
LEMMA AskedFrame ==
  ASSUME Asked, NEW p \in Proposals, Elsewhere(p), AskOK(request'[p], workflow'[p])
  PROVE  Asked'
BY DEF Asked, Elsewhere

LEMMA AskedSubmit ==
  ASSUME FlowInv, Asked, NEW p \in Proposals, NEW row, RowOK(row), SubmitProposal(p, row)
  PROVE  Asked'
<1> DEFINE n == row.version
<1>1. /\ request[p] \in Request /\ DOMAIN request = Proposals /\ DOMAIN versions = Proposals
      /\ DOMAIN workflow = Proposals /\ Len(workflow[p]) = n /\ n = Len(versions[p])
  BY Rows DEF FlowInv, TypeOK, FlowOK, SubmitProposal, VersionFree
<1>2. /\ request'[p].status = "SUBMITTED" /\ request'[p].version = n + 1
      /\ request'[p].instance = n + 1
      /\ workflow'[p] = InstantiateWorkflow(p, row, n + 1)
  BY <1>1 DEF SubmitProposal, Request
<1>3. workflow'[p][n + 1] = NewInstance(n + 1)
  BY <1>1, <1>2, FlowSubmitted
<1>4. NewInstance(n + 1).steps[NewInstance(n + 1).current] = "PENDING"
  BY ReviewAssumption DEF NewInstance, Steps
<1>5. Elsewhere(p)
  BY <1>1 DEF SubmitProposal, Elsewhere
<1> QED
  BY <1>2, <1>3, <1>4, <1>5, AskedFrame DEF AskOK

LEMMA AskedDecide ==
  ASSUME FlowInv, Asked, NEW p \in Proposals, NEW i \in 1 .. Len(workflow[p]), NEW k \in Steps,
         ApproveStep(p, i, k) \/ RejectStep(p, i, k) \/ RequestRevision(p, i, k)
  PROVE  Asked'
<1> DEFINE w == workflow[p][i]
<1>1. /\ Awaiting(p, i, k)
      /\ request \in [Proposals -> Request] /\ workflow \in [Proposals -> Seq(Instance)]
      /\ workflow[p] \in Seq(Instance) /\ confirmed \in [Proposals -> Event]
  BY Rows DEF ApproveStep, RejectStep, RequestRevision, FlowInv, TypeOK
<1>2. /\ i = request[p].instance /\ InOrder(w) /\ w \in Instance /\ w.current = k
      /\ w.status = "IN_PROGRESS"
  BY <1>1, AwaitedIsLast DEF Awaiting
<1>3. Elsewhere(p)
  <2>1. CASE Advance(p, i, k) /\ versions' = versions
    BY <1>1, <2>1 DEF Advance, Elsewhere
  <2>2. CASE Complete(p, i, k) /\ versions' = versions
    BY <1>1, <2>2 DEF Complete, Elsewhere
  <2>3. CASE RejectStep(p, i, k) \/ RequestRevision(p, i, k)
    BY <1>1, <2>3 DEF RejectStep, RequestRevision, Elsewhere
  <2> QED
    BY <2>1, <2>2, <2>3 DEF ApproveStep
<1>4. CASE Advance(p, i, k)
  <2> DEFINE v == [w EXCEPT !.steps[k] = "APPROVED", !.current = k + 1]
  <2>1. k + 1 \in Steps /\ k + 1 > k
    BY <1>4, ReviewAssumption DEF Advance, Steps
  <2>2. v.current = k + 1 /\ v.steps[k + 1] = "PENDING"
    BY <1>2, <2>1 DEF InOrder, Instance
  <2>3. workflow'[p][i] = v
    <3>1. workflow'[p] = [workflow[p] EXCEPT ![i] = v]
      BY <1>1, <1>4 DEF Advance
    <3> HIDE DEF v
    <3> QED
      BY <1>1, <3>1, ExceptSeq
  <2>4. request'[p].instance = i
    BY <1>1, <1>2, <1>4 DEF Advance, Request
  <2> HIDE DEF v
  <2> QED
    BY <1>3, <2>2, <2>3, <2>4, AskedFrame DEF AskOK
<1>5. CASE Complete(p, i, k) \/ RejectStep(p, i, k) \/ RequestRevision(p, i, k)
  <2>1. request'[p].status \in {"APPROVED", "REJECTED", "REVISION_REQUIRED"}
    BY <1>1, <1>5 DEF Complete, RejectStep, RequestRevision, Request
  <2> QED
    BY <1>3, <2>1, AskedFrame DEF AskOK
<1> QED
  BY <1>4, <1>5 DEF ApproveStep

LEMMA AskedEvent ==
  ASSUME FlowInv, Asked, NEW p \in Proposals,
         \/ \E content \in Contents : CreateDraft(p, content) \/ UpdateDraft(p, content)
         \/ \E row \in Request : CancelProposal(p, row)
  PROVE  Asked'
<1>1. request \in [Proposals -> Request] /\ DOMAIN workflow = Proposals
  BY DEF FlowInv, TypeOK
<1>2. request'[p].status \in {"DRAFT", "REVISION_REQUIRED", "CANCELLED"}
  BY <1>1 DEF CreateDraft, UpdateDraft, Editable, CancelProposal, Request
<1>3. Elsewhere(p)
  BY <1>1 DEF CreateDraft, UpdateDraft, CancelProposal, Elsewhere
<1> QED
  BY <1>2, <1>3, AskedFrame DEF AskOK

LEMMA AskedStep ==
  ASSUME FlowInv, Asked, EventNext \/ VenueNext \/ WorkflowNext \/ LateRow \/ UNCHANGED vars
  PROVE  Asked'
<1>0. ASSUME UNCHANGED <<request, workflow>> PROVE Asked'
  BY <1>0 DEF Asked
<1>1. ASSUME NEW p \in Proposals, NEW row, VenueStep(p, row) PROVE Asked'
  BY <1>0, <1>1
     DEF VenueStep, CreateVenueRequest, UpdateVenueRequest, DeleteVenueRequest, SetVenue
<1>2. CASE LateRow
  <2> PICK p \in Proposals, row \in Request : RowOK(row) /\ Decide(p, row)
    BY <1>2 DEF LateRow
  <2> QED
    BY <1>1, AskedSubmit, AskedEvent DEF Decide, VenueStep
<1>3. CASE VenueNext
  BY <1>1, <1>3 DEF VenueNext, VenueStep
<1>4. CASE WorkflowNext
  BY <1>4, AskedDecide DEF WorkflowNext, DecideStep
<1>5. CASE EventNext
  <2>1. \A p \in Proposals : RowOK(request[p]) /\ request[p] \in Request
    BY RowsCurrent DEF RowOK
  <2>2. \A p \in Proposals : CancelConfirmedEvent(p) => Asked'
    BY <1>0 DEF CancelConfirmedEvent
  <2> QED
    BY <1>5, <2>1, <2>2, AskedSubmit, AskedEvent DEF EventNext
<1> QED
  BY <1>0, <1>2, <1>3, <1>4, <1>5 DEF vars

\* A session that submits or cancels on a row it read earlier does not put the reviews
\* out of order: the steps before the current one are approved, and as long as the
\* proposal is under review its last instance has a step to decide.
THEOREM StepsInOrderInRaces == RaceSpec => []ReviewsInOrder
<1>1. RaceInit => Asked
  BY DEF RaceInit, Init, Asked, AskOK
<1>2. RaceFlowInv /\ Asked /\ [RaceNext]_raceVars => Asked'
  <2> SUFFICES ASSUME FlowInv, ReadRows, Asked, [RaceNext]_raceVars PROVE Asked'
    BY DEF RaceFlowInv
  <2>1. ASSUME NEW s \in Sessions, Answer(s) PROVE Asked'
    <3> PICK r \in read[s] : Decide(r.proposal, r.row)
      BY <2>1 DEF Answer
    <3>1. r.proposal \in Proposals /\ RowOK(r.row)
      BY DEF ReadRows
    <3> QED
      BY <3>1, AskedStep DEF LateRow, RowOK
  <2> QED
    BY <2>1, AskedStep DEF RaceNext, SessionNext, ReadProposal, Refuse, raceVars
<1>3. RaceFlowInv /\ Asked => ReviewsInOrder
  <2> SUFFICES ASSUME RaceFlowInv, Asked, NEW p \in Proposals, NEW i \in 1 .. Len(workflow[p])
               PROVE  LET w == workflow[p][i]
                      IN  /\ \A k \in Steps : k < w.current => w.steps[k] = "APPROVED"
                          /\ \A k \in Steps : k > w.current => w.steps[k] \in {"PENDING", "SKIPPED"}
                          /\ (i = request[p].instance /\ request[p].status \in {"SUBMITTED", "IN_REVIEW"})
                                => w.steps[w.current] = "PENDING"
    BY DEF ReviewsInOrder
  <2>1. InOrder(workflow[p][i]) /\ AskOK(request[p], workflow[p])
    BY DEF RaceFlowInv, FlowInv, FlowOK, Asked
  <2> QED
    BY <2>1 DEF InOrder, AskOK
<1> QED
  BY <1>1, <1>2, <1>3, RaceFlows, PTL DEF RaceSpec

-----------------------------------------------------------------------------
(* One request after the other *)

UnderReview == {"SUBMITTED", "IN_REVIEW", "REVISION_REQUIRED"}

\* A request under review has a live instance whose current step is undecided, unless it
\* was sent back; an approved one has its event, and no other has one.
ReviewOK(req, n, flow, conf) ==
    /\ req.status \in UnderReview \cup {"APPROVED"} => n > 0
    /\ n > 0 => (flow[n].status = "IN_PROGRESS" <=> req.status \in UnderReview)
    /\ req.status \in {"SUBMITTED", "IN_REVIEW"} => flow[n].steps[flow[n].current] = "PENDING"
    /\ req.status = "REVISION_REQUIRED" => flow[n].steps[flow[n].current] # "PENDING"
    /\ req.status = "APPROVED" => Done(flow[n]) /\ conf.status # "NONE" /\ conf.version = n
    /\ req.status # "APPROVED" => conf.status = "NONE"

\* The hall is held from its review on, until the request or its event ends.
HallOK(req, n, flow, conf, ven, book) ==
    /\ book.active => \/ req.status \in UnderReview
                      \/ req.status = "APPROVED" /\ conf.status = "SCHEDULED"
    /\ (conf.status = "SCHEDULED" /\ conf.slot # NoSlot) =>
          book = [slot |-> conf.slot, active |-> TRUE]
    /\ ven.status = "NONE" => ven.slot = NoSlot
    /\ (req.status \in {"SUBMITTED", "IN_REVIEW"} /\ flow[n].current > HallStep
          /\ ven.status # "NONE") => book.active

\* The last snapshot is of the rows that are under review.
SnapOK(req, vers, ven, bud) ==
    req.status \in {"SUBMITTED", "IN_REVIEW", "APPROVED"} =>
        vers[Len(vers)] = [content |-> req.content, slot |-> ven.slot, budget |-> FiguresOf(bud)]

MoneyOK(bud) == bud.total = TotalOf(bud.items) /\ bud.contribution <= Cap

SerialOK(req, vers, ven, book, bud, flow, conf) ==
    /\ ReviewOK(req, Len(vers), flow, conf)
    /\ HallOK(req, Len(vers), flow, conf, ven, book)
    /\ SnapOK(req, vers, ven, bud)
    /\ MoneyOK(bud)

SerialInv ==
    /\ FlowInv
    /\ \A p \in Proposals : SerialOK(request[p], versions[p], venue[p], booking[p], budget[p],
                                     workflow[p], confirmed[p])

\* A step that touches the rows of one proposal only.
Beside(p) ==
    \A q \in Proposals : q # p =>
        /\ request'[q] = request[q] /\ versions'[q] = versions[q] /\ venue'[q] = venue[q]
        /\ booking'[q] = booking[q] /\ budget'[q] = budget[q] /\ workflow'[q] = workflow[q]
        /\ confirmed'[q] = confirmed[q]

LEMMA SerialFrame ==
  ASSUME SerialInv, FlowInv', NEW p \in Proposals, Beside(p),
         SerialOK(request'[p], versions'[p], venue'[p], booking'[p], budget'[p],
                  workflow'[p], confirmed'[p])
  PROVE  SerialInv'
BY DEF SerialInv, Beside

\* The rows of a proposal, and what is known of them.
LEMMA SerialRows ==
  ASSUME SerialInv, NEW p \in Proposals
  PROVE  /\ FlowOK(request[p], Len(versions[p]), workflow[p], confirmed[p])
         /\ ReviewOK(request[p], Len(versions[p]), workflow[p], confirmed[p])
         /\ HallOK(request[p], Len(versions[p]), workflow[p], confirmed[p], venue[p], booking[p])
         /\ SnapOK(request[p], versions[p], venue[p], budget[p])
         /\ MoneyOK(budget[p])
         /\ request[p] \in Request /\ booking[p] \in Booking /\ venue[p] \in Venue
         /\ confirmed[p] \in Event /\ budget[p] \in Budget /\ versions[p] \in Seq(Snapshot)
         /\ workflow[p] \in Seq(Instance) /\ Len(versions[p]) \in Nat
         /\ DOMAIN request = Proposals /\ DOMAIN versions = Proposals /\ DOMAIN venue = Proposals
         /\ DOMAIN booking = Proposals /\ DOMAIN budget = Proposals
         /\ DOMAIN workflow = Proposals /\ DOMAIN confirmed = Proposals
BY Rows DEF SerialInv, SerialOK, FlowInv, TypeOK

LEMMA SerialSubmit ==
  ASSUME SerialInv, FlowInv', NEW p \in Proposals, SubmitProposal(p, request[p])
  PROVE  SerialInv'
<1> DEFINE n == Len(versions[p])
           snapshot == SnapshotOf(p, request[p])
<1>1. /\ request[p].version = n /\ n \in Nat /\ versions[p] \in Seq(Snapshot)
      /\ Len(workflow[p]) = n /\ RowOK(request[p])
  BY SerialRows, RowsCurrent DEF FlowOK, SerialInv
<1>2. /\ request'[p].status = "SUBMITTED" /\ request'[p].content = request[p].content
      /\ request'[p].version = n + 1 /\ request'[p].instance = n + 1
      /\ workflow'[p] = InstantiateWorkflow(p, request[p], n + 1)
      /\ versions'[p] = Append(versions[p], snapshot)
      /\ UNCHANGED <<venue, booking, budget, confirmed>>
  BY <1>1, SerialRows DEF SubmitProposal, Request
<1>3. workflow'[p][n + 1] = NewInstance(n + 1)
  BY <1>1, <1>2, FlowSubmitted DEF SerialInv
<1>4. Len(versions'[p]) = n + 1 /\ versions'[p][n + 1] = snapshot
  <2>1. Len(Append(versions[p], snapshot)) = n + 1 /\ Append(versions[p], snapshot)[n + 1] = snapshot
    BY <1>1
  <2> QED
    BY <1>2, <2>1
<1>5. confirmed[p].status = "NONE"
  BY SerialRows DEF SubmitProposal, Editable, ReviewOK
<1> DEFINE w == NewInstance(n + 1)
<1>6. w.status = "IN_PROGRESS" /\ w.current = 1 /\ w.steps[1] = "PENDING"
  BY ReviewAssumption DEF NewInstance, Steps
<1> HIDE DEF w
<1>7. ReviewOK(request'[p], n + 1, workflow'[p], confirmed[p])
  BY <1>1, <1>2, <1>3, <1>5, <1>6 DEF ReviewOK, UnderReview, w
<1>8. HallOK(request'[p], n + 1, workflow'[p], confirmed[p], venue[p], booking[p])
  <2>1. workflow'[p][n + 1].current = 1
    BY <1>3, <1>6 DEF w
  <2>2. venue[p].status = "NONE" => venue[p].slot = NoSlot
    BY SerialRows DEF HallOK
  <2> QED
    BY <1>2, <1>5, <2>1, <2>2 DEF HallOK, UnderReview, HallStep
<1>9. SnapOK(request'[p], versions'[p], venue[p], budget[p])
  BY <1>2, <1>4 DEF SnapOK, SnapshotOf
<1>10. Beside(p)
  BY SerialRows DEF SubmitProposal, Beside
<1> QED
  BY <1>2, <1>4, <1>7, <1>8, <1>9, <1>10, SerialFrame, SerialRows DEF SerialOK

LEMMA SerialCancel ==
  ASSUME SerialInv, FlowInv', NEW p \in Proposals, CancelProposal(p, request[p])
  PROVE  SerialInv'
<1> DEFINE n == Len(versions[p])
<1>1. /\ request[p].instance = n /\ n \in Nat /\ Len(workflow[p]) = n
  BY SerialRows DEF FlowOK
<1>2. /\ request'[p].status = "CANCELLED"
      /\ workflow'[p] = WithdrawnWorkflow(p, request[p])
      /\ booking'[p].active = FALSE
      /\ venue'[p].status = "NONE" => venue'[p] = venue[p]
      /\ UNCHANGED <<versions, budget, confirmed>>
  BY SerialRows DEF CancelProposal, Request, Booking, Venue
<1>3. n > 0 => workflow'[p][n].status # "IN_PROGRESS"
  <2>1. CASE n # 0 /\ workflow[p][n].status = "IN_PROGRESS"
    <3>1. n \in 1 .. Len(workflow[p]) /\ workflow[p] \in Seq(Instance) /\ workflow[p][n] \in Instance
      BY <1>1, <2>1, SerialRows
    <3> DEFINE w == [workflow[p][n] EXCEPT !.status = "CANCELLED",
                        !.steps = [k \in Steps |-> IF @[k] = "PENDING" THEN "SKIPPED" ELSE @[k]]]
    <3>2. w.status = "CANCELLED"
      BY <3>1 DEF Instance
    <3>3. WithdrawnWorkflow(p, request[p]) = [workflow[p] EXCEPT ![n] = w]
      BY <1>1, <2>1 DEF WithdrawnWorkflow
    <3> HIDE DEF w
    <3>4. workflow'[p][n] = w
      BY <1>2, <3>1, <3>3
    <3> QED
      BY <3>2, <3>4
  <2>2. CASE ~(n # 0 /\ workflow[p][n].status = "IN_PROGRESS")
    BY <1>1, <1>2, <2>2 DEF WithdrawnWorkflow
  <2> QED
    BY <2>1, <2>2
<1>4. confirmed[p].status = "NONE"
  BY SerialRows DEF CancelProposal, Cancellable, ReviewOK
<1>5. ReviewOK(request'[p], n, workflow'[p], confirmed[p])
  BY <1>1, <1>2, <1>3, <1>4 DEF ReviewOK, UnderReview
<1>6. HallOK(request'[p], n, workflow'[p], confirmed[p], venue'[p], booking'[p])
  BY <1>2, <1>4, SerialRows DEF HallOK, UnderReview
<1>7. SnapOK(request'[p], versions[p], venue'[p], budget[p])
  BY <1>2 DEF SnapOK
<1>8. Beside(p)
  BY SerialRows DEF CancelProposal, Beside
<1> QED
  BY <1>2, <1>5, <1>6, <1>7, <1>8, SerialFrame, SerialRows DEF SerialOK

LEMMA SerialEvent ==
  ASSUME SerialInv, FlowInv', NEW p \in Proposals,
         \/ \E content \in Contents : CreateDraft(p, content) \/ UpdateDraft(p, content)
         \/ CancelConfirmedEvent(p)
  PROVE  SerialInv'
<1> DEFINE n == Len(versions[p])
<1>1. ASSUME NEW content \in Contents, CreateDraft(p, content) PROVE SerialInv'
  <2>1. /\ request'[p].status = "DRAFT" /\ request[p].status = "NONE"
        /\ UNCHANGED <<versions, venue, booking, budget, workflow, confirmed>> /\ Beside(p)
    BY <1>1, SerialRows DEF CreateDraft, Beside
  <2>2. ReviewOK(request'[p], n, workflow[p], confirmed[p])
    BY <2>1, SerialRows DEF ReviewOK, UnderReview
  <2>3. HallOK(request'[p], n, workflow[p], confirmed[p], venue[p], booking[p])
    BY <2>1, SerialRows DEF HallOK, UnderReview
  <2>4. SnapOK(request'[p], versions[p], venue[p], budget[p])
    BY <2>1 DEF SnapOK
  <2> QED
    BY <2>1, <2>2, <2>3, <2>4, SerialFrame, SerialRows DEF SerialOK
<1>2. ASSUME NEW content \in Contents, UpdateDraft(p, content) PROVE SerialInv'
  <2>1. /\ request'[p].status = request[p].status /\ request[p].status \in {"DRAFT", "REVISION_REQUIRED"}
        /\ UNCHANGED <<versions, venue, booking, budget, workflow, confirmed>> /\ Beside(p)
    BY <1>2, SerialRows DEF UpdateDraft, Beside, Editable, Request
  <2>2. ReviewOK(request'[p], n, workflow[p], confirmed[p])
    BY <2>1, SerialRows DEF ReviewOK, UnderReview
  <2>3. HallOK(request'[p], n, workflow[p], confirmed[p], venue[p], booking[p])
    BY <2>1, SerialRows DEF HallOK, UnderReview
  <2>4. SnapOK(request'[p], versions[p], venue[p], budget[p])
    BY <2>1 DEF SnapOK
  <2> QED
    BY <2>1, <2>2, <2>3, <2>4, SerialFrame, SerialRows DEF SerialOK
<1>3. CASE CancelConfirmedEvent(p)
  <2>1. /\ confirmed[p].status = "SCHEDULED" /\ confirmed'[p].status = "CANCELLED"
        /\ confirmed'[p].version = confirmed[p].version /\ booking'[p].active = FALSE
        /\ UNCHANGED <<request, versions, venue, budget, workflow>> /\ Beside(p)
    BY <1>3, SerialRows DEF CancelConfirmedEvent, Beside, Event, Booking
  <2>2. request[p].status = "APPROVED"
    BY <2>1, SerialRows DEF ReviewOK
  <2>3. ReviewOK(request[p], n, workflow[p], confirmed'[p])
    BY <2>1, <2>2, SerialRows DEF ReviewOK
  <2>4. HallOK(request[p], n, workflow[p], confirmed'[p], venue[p], booking'[p])
    BY <2>1, <2>2, SerialRows DEF HallOK
  <2> QED
    BY <2>1, <2>3, <2>4, SerialFrame, SerialRows DEF SerialOK
<1> QED
  BY <1>1, <1>2, <1>3

LEMMA SerialVenue ==
  ASSUME SerialInv, FlowInv', NEW p \in Proposals, VenueStep(p, request[p])
  PROVE  SerialInv'
<1> DEFINE n == Len(versions[p])
<1>1. /\ request[p].status \in {"DRAFT", "REVISION_REQUIRED"}
      /\ UNCHANGED <<request, versions, booking, budget, workflow, confirmed>>
  BY DEF VenueStep, CreateVenueRequest, UpdateVenueRequest, DeleteVenueRequest, SetVenue, Editable
<1>2. Beside(p) /\ (venue'[p].status = "NONE" => venue'[p].slot = NoSlot)
  <2>1. ASSUME NEW v, SetVenue(p, v) PROVE Beside(p) /\ venue'[p] = v
    BY <2>1, SerialRows DEF SetVenue, Beside
  <2>2. ASSUME NEW slot \in Slots, CreateVenueRequest(p, request[p], slot)
        PROVE  Beside(p) /\ venue'[p].status # "NONE"
    BY <2>1, <2>2 DEF CreateVenueRequest
  <2>3. ASSUME NEW slot \in Slots, UpdateVenueRequest(p, request[p], slot)
        PROVE  Beside(p) /\ venue'[p].status # "NONE"
    <3>1. [venue[p] EXCEPT !.slot = slot].status = venue[p].status
      BY SerialRows DEF Venue
    <3> QED
      BY <2>1, <2>3, <3>1 DEF UpdateVenueRequest
  <2>4. ASSUME DeleteVenueRequest(p, request[p]) PROVE Beside(p) /\ venue'[p].slot = NoSlot
    BY <2>1, <2>4 DEF DeleteVenueRequest, NoVenue
  <2> QED
    BY <2>2, <2>3, <2>4 DEF VenueStep
<1>3. HallOK(request[p], n, workflow[p], confirmed[p], venue'[p], booking[p])
  BY <1>1, <1>2, SerialRows DEF HallOK
<1>4. SnapOK(request[p], versions[p], venue'[p], budget[p])
  BY <1>1 DEF SnapOK
<1> QED
  BY <1>1, <1>2, <1>3, <1>4, SerialFrame, SerialRows DEF SerialOK

\* An empty budget adds up.
LEMMA NothingTotal == TotalOf(NoItems) = 0
<1>1. {u \in Items \X Amounts : u[2] <= NoItems[u[1]]} = {}
  BY BudgetAssumption DEF NoItems, Amounts
<1> QED
  BY <1>1, FS_EmptySet DEF TotalOf

LEMMA SerialBudget == SerialInv /\ FlowInv' /\ BudgetNext => SerialInv'
<1> SUFFICES ASSUME SerialInv, FlowInv', BudgetNext PROVE SerialInv'
  OBVIOUS
<1>1. ASSUME NEW p \in Proposals, NEW b, SetBudget(p, b), MoneyOK(b),
             Editable(request[p]) \/ FiguresOf(b) = FiguresOf(budget[p])
      PROVE  SerialInv'
  <2>1. /\ UNCHANGED <<request, versions, venue, booking, workflow, confirmed>>
        /\ budget'[p] = b /\ Beside(p)
    BY <1>1, SerialRows DEF SetBudget, Beside
  <2>2. SnapOK(request[p], versions[p], venue[p], b)
    BY <1>1, SerialRows DEF SnapOK, Editable
  <2> QED
    BY <1>1, <2>1, <2>2, SerialFrame, SerialRows DEF SerialOK
<1>2. ASSUME NEW p \in Proposals, NEW income, NEW contribution, NEW items,
             CreateBudgetProposal(p, request[p], income, contribution, items)
      PROVE  SerialInv'
  BY <1>1, <1>2 DEF CreateBudgetProposal, MoneyOK
<1>3. ASSUME NEW p \in Proposals, NEW income, NEW contribution,
             UpdateBudgetProposal(p, request[p], income, contribution)
      PROVE  SerialInv'
  <2> DEFINE b == [budget[p] EXCEPT !.income = income, !.contribution = contribution]
  <2>1. b.contribution = contribution /\ b.total = budget[p].total /\ b.items = budget[p].items
    BY SerialRows DEF Budget
  <2>2. SetBudget(p, b) /\ Editable(request[p]) /\ contribution <= Cap
    BY <1>3 DEF UpdateBudgetProposal
  <2> HIDE DEF b
  <2>3. MoneyOK(b)
    BY <2>1, <2>2, SerialRows DEF MoneyOK
  <2> QED
    BY <1>1, <2>2, <2>3
<1>4. ASSUME NEW p \in Proposals, DeleteBudgetProposal(p, request[p]) PROVE SerialInv'
  <2>1. MoneyOK(NoBudget)
    BY NothingTotal, BudgetAssumption DEF MoneyOK, NoBudget
  <2> QED
    BY <1>1, <1>4, <2>1 DEF DeleteBudgetProposal
<1>5. ASSUME NEW p \in Proposals, NEW x, NEW amount, SetItem(p, x, amount), Editable(request[p])
      PROVE  SerialInv'
  <2> DEFINE items == [budget[p].items EXCEPT ![x] = amount]
             b == [budget[p] EXCEPT !.items = items, !.total = TotalOf(items)]
  <2>1. SetBudget(p, b)
    BY <1>5 DEF SetItem
  <2> HIDE DEF items
  <2>2. b.contribution = budget[p].contribution /\ b.total = TotalOf(items) /\ b.items = items
    BY SerialRows DEF Budget
  <2> HIDE DEF b
  <2>3. MoneyOK(b)
    BY <2>2, SerialRows DEF MoneyOK
  <2> QED
    BY <1>1, <1>5, <2>1, <2>3
<1>6. ASSUME NEW p \in Proposals, NEW mark \in {"VERIFIED", "QUERIED"}, VerifyBudget(p, mark)
      PROVE  SerialInv'
  <2> DEFINE b == [budget[p] EXCEPT !.finance = mark]
  <2>1. /\ SetBudget(p, b) /\ budget[p].finance # "NONE"
    BY <1>6 DEF VerifyBudget
  <2>2. /\ b.finance # "NONE" /\ b.income = budget[p].income
        /\ b.contribution = budget[p].contribution /\ b.total = budget[p].total
        /\ b.items = budget[p].items
    BY SerialRows DEF Budget
  <2> HIDE DEF b
  <2>3. MoneyOK(b) /\ FiguresOf(b) = FiguresOf(budget[p])
    BY <2>1, <2>2, SerialRows DEF MoneyOK, FiguresOf
  <2> QED
    BY <1>1, <2>1, <2>3
<1> QED
  BY <1>2, <1>3, <1>4, <1>5, <1>6 DEF BudgetNext, AddLineItem, UpdateLineItem, DeleteLineItem

\* What an approval does to the hall and the budget of the proposal.
LEMMA ApprovedRows ==
  ASSUME SerialInv, NEW p \in Proposals, NEW i, NEW k \in Steps, ApproveStep(p, i, k)
  PROVE  /\ venue'[p].slot = venue[p].slot
         /\ venue'[p].status = "NONE" <=> venue[p].status = "NONE"
         /\ booking[p].active => booking'[p].active
         /\ (k = HallStep /\ venue[p].status # "NONE") => booking'[p].active
         /\ k # HallStep => UNCHANGED <<venue, booking>>
         /\ FiguresOf(budget'[p]) = FiguresOf(budget[p]) /\ MoneyOK(budget'[p])
         /\ \A q \in Proposals : q # p => /\ venue'[q] = venue[q] /\ booking'[q] = booking[q]
                                          /\ budget'[q] = budget[q]
<1>1. /\ venue'[p].slot = venue[p].slot
      /\ venue'[p].status = "NONE" <=> venue[p].status = "NONE"
      /\ booking[p].active => booking'[p].active
      /\ (k = HallStep /\ venue[p].status # "NONE") => booking'[p].active
      /\ \A q \in Proposals : q # p => venue'[q] = venue[q] /\ booking'[q] = booking[q]
  <2>1. CASE k = HallStep /\ venue[p].status # "NONE"
    <3>1. /\ venue' = [venue EXCEPT ![p].status = "APPROVED"]
          /\ booking' = [booking EXCEPT ![p] = [slot |-> BookedSlot(p), active |-> TRUE]]
      BY <2>1 DEF ApproveStep, ConfirmHall
    <3> QED
      BY <2>1, <3>1, SerialRows DEF Venue
  <2>2. CASE ~(k = HallStep /\ venue[p].status # "NONE")
    <3>1. UNCHANGED <<venue, booking>>
      BY <2>2 DEF ApproveStep, ConfirmHall
    <3> QED
      BY <2>2, <3>1
  <2> QED
    BY <2>1, <2>2
<1>2. k # HallStep => UNCHANGED <<venue, booking>>
  BY DEF ApproveStep
<1>3. /\ FiguresOf(budget'[p]) = FiguresOf(budget[p]) /\ MoneyOK(budget'[p])
      /\ \A q \in Proposals : q # p => budget'[q] = budget[q]
  <2>1. CASE UNCHANGED budget
    BY <2>1, SerialRows
  <2>2. CASE budget[p].finance # "NONE" /\ budget' = [budget EXCEPT ![p].finance = "VERIFIED"]
    <3> DEFINE b == [budget[p] EXCEPT !.finance = "VERIFIED"]
    <3>1. /\ budget'[p] = b
          /\ \A q \in Proposals : q # p => budget'[q] = budget[q]
      BY <2>2, SerialRows
    <3>2. /\ b.finance # "NONE" /\ b.income = budget[p].income
          /\ b.contribution = budget[p].contribution /\ b.total = budget[p].total
          /\ b.items = budget[p].items
      BY SerialRows DEF Budget
    <3> HIDE DEF b
    <3> QED
      BY <2>2, <3>1, <3>2, SerialRows DEF FiguresOf, MoneyOK
  <2> QED
    BY <2>1, <2>2 DEF ApproveStep, VerifyBudgetOf
<1> QED
  BY <1>1, <1>2, <1>3

LEMMA SerialDecide ==
  ASSUME SerialInv, FlowInv', NEW p \in Proposals, NEW i \in 1 .. Len(workflow[p]), NEW k \in Steps,
         ApproveStep(p, i, k) \/ RejectStep(p, i, k) \/ RequestRevision(p, i, k)
  PROVE  SerialInv'
<1> DEFINE w == workflow[p][i]
           n == Len(versions[p])
<1>1. Awaiting(p, i, k)
  BY DEF ApproveStep, RejectStep, RequestRevision
<1>2. /\ i = n /\ n > 0 /\ n \in Nat /\ InOrder(w) /\ w \in Instance /\ w.current = k
      /\ w.status = "IN_PROGRESS" /\ w.steps[k] = "PENDING" /\ n \in 1 .. Len(workflow[p])
  BY <1>1, AwaitedIsLast, SerialRows DEF Awaiting, SerialInv
<1>3. request[p].status \in {"SUBMITTED", "IN_REVIEW"} /\ confirmed[p].status = "NONE"
  BY <1>2, SerialRows DEF ReviewOK, UnderReview
<1>4. k \in Nat /\ LastStep \in Nat /\ LastStep >= 3 /\ w.steps \in [Steps -> StepStatuses]
  BY <1>2, ReviewAssumption DEF Steps, Instance
\* The instance becomes v, and the rows of the others stay.
<1>5. ASSUME NEW v, workflow' = [workflow EXCEPT ![p] = [workflow[p] EXCEPT ![n] = v]]
      PROVE  workflow'[p][n] = v /\ \A q \in Proposals : q # p => workflow'[q] = workflow[q]
  <2>1. [workflow[p] EXCEPT ![n] = v][n] = v
    BY <1>2, SerialRows, ExceptSeq
  <2> QED
    BY <1>5, <2>1, SerialRows
<1>6. CASE ApproveStep(p, i, k)
  <2>1. UNCHANGED versions
    BY <1>6 DEF ApproveStep
  <2>2. /\ venue'[p].slot = venue[p].slot
        /\ venue'[p].status = "NONE" <=> venue[p].status = "NONE"
        /\ booking[p].active => booking'[p].active
        /\ (k = HallStep /\ venue[p].status # "NONE") => booking'[p].active
        /\ k # HallStep => UNCHANGED <<venue, booking>>
        /\ FiguresOf(budget'[p]) = FiguresOf(budget[p]) /\ MoneyOK(budget'[p])
        /\ \A q \in Proposals : q # p => /\ venue'[q] = venue[q] /\ booking'[q] = booking[q]
                                         /\ budget'[q] = budget[q]
    BY <1>6, ApprovedRows
  <2>3. /\ k > HallStep /\ venue[p].status # "NONE" => booking[p].active
        /\ venue[p].status = "NONE" => venue[p].slot = NoSlot
    BY <1>2, <1>3, SerialRows DEF HallOK
  <2>4. ASSUME request'[p].content = request[p].content
        PROVE  SnapOK(request'[p], versions[p], venue'[p], budget'[p])
    BY <1>3, <2>2, <2>4, SerialRows DEF SnapOK
  <2>5. CASE Advance(p, i, k)
    <3> DEFINE v == [w EXCEPT !.steps[k] = "APPROVED", !.current = k + 1]
    <3>1. v.status = "IN_PROGRESS" /\ v.current = k + 1 /\ v.steps[k + 1] = "PENDING"
      <4>1. k + 1 \in Steps /\ k + 1 > k /\ k # k + 1
        BY <1>4, <2>5 DEF Advance, Steps
      <4>2. w.steps[k + 1] = "PENDING"
        BY <1>2, <4>1 DEF InOrder
      <4>3. v.steps[k + 1] = w.steps[k + 1]
        BY <1>2, <1>4, <4>1 DEF Instance
      <4> QED
        BY <1>2, <4>2, <4>3 DEF Instance
    <3>2. workflow' = [workflow EXCEPT ![p] = [workflow[p] EXCEPT ![n] = v]]
      BY <1>2, <2>5 DEF Advance
    <3> HIDE DEF v
    <3>3. workflow'[p][n] = v /\ \A q \in Proposals : q # p => workflow'[q] = workflow[q]
      BY <1>5, <3>2
    <3>4. /\ request'[p].status = "IN_REVIEW" /\ request'[p].content = request[p].content
          /\ \A q \in Proposals : q # p => request'[q] = request[q]
          /\ UNCHANGED confirmed
      BY <1>3, <2>5, SerialRows DEF Advance, Request
    <3>5. ReviewOK(request'[p], n, workflow'[p], confirmed[p])
      BY <1>2, <1>3, <3>1, <3>3, <3>4 DEF ReviewOK, UnderReview
    <3>6. HallOK(request'[p], n, workflow'[p], confirmed[p], venue'[p], booking'[p])
      <4>1. k >= HallStep /\ venue'[p].status # "NONE" => booking'[p].active
        BY <1>4, <2>2, <2>3 DEF HallStep
      <4>2. workflow'[p][n].current > HallStep => k >= HallStep
        BY <1>4, <3>1, <3>3 DEF HallStep
      <4> QED
        BY <1>3, <2>2, <2>3, <3>4, <4>1, <4>2 DEF HallOK, UnderReview
    <3>7. Beside(p)
      BY <2>1, <2>2, <3>3, <3>4 DEF Beside
    <3> QED
      BY <2>1, <2>2, <2>4, <3>4, <3>5, <3>6, <3>7, SerialFrame DEF SerialOK
  <2>6. CASE Complete(p, i, k)
    <3> DEFINE v == [w EXCEPT !.steps[k] = "APPROVED", !.status = "COMPLETED"]
    <3>1. Done(v)
      BY <1>2, <2>6, DecidedInOrder DEF Complete
    <3>2. workflow' = [workflow EXCEPT ![p] = [workflow[p] EXCEPT ![n] = v]]
      BY <1>2, <2>6 DEF Complete
    <3> HIDE DEF v
    <3>3. workflow'[p][n] = v /\ \A q \in Proposals : q # p => workflow'[q] = workflow[q]
      BY <1>5, <3>2
    <3>4. /\ request'[p].status = "APPROVED" /\ request'[p].content = request[p].content
          /\ \A q \in Proposals : q # p => request'[q] = request[q] /\ confirmed'[q] = confirmed[q]
          /\ confirmed'[p] = [status |-> "SCHEDULED", version |-> n,
                slot |-> IF booking[p].active THEN booking[p].slot ELSE venue[p].slot]
      BY <1>3, <2>6, SerialRows DEF Complete, ConfirmedEvent, Request
    <3>5. k > HallStep /\ UNCHANGED <<venue, booking>>
      BY <1>4, <2>2, <2>6 DEF Complete, HallStep
    <3>6. ReviewOK(request'[p], n, workflow'[p], confirmed'[p])
      BY <1>2, <3>1, <3>3, <3>4 DEF ReviewOK, UnderReview, Done
    <3>7. HallOK(request'[p], n, workflow'[p], confirmed'[p], venue[p], booking[p])
      <4>1. confirmed'[p].status = "SCHEDULED"
        BY <3>4
      <4>2. booking[p].active => booking[p] = [slot |-> confirmed'[p].slot, active |-> TRUE]
        <5>1. ASSUME NEW b \in Booking, b.active PROVE b = [slot |-> b.slot, active |-> TRUE]
          BY <5>1 DEF Booking
        <5>2. booking[p].active => confirmed'[p].slot = booking[p].slot
          BY <3>4
        <5> QED
          BY <5>1, <5>2, SerialRows
      <4>3. ~booking[p].active => confirmed'[p].slot = NoSlot
        BY <2>3, <3>4, <3>5
      <4> QED
        BY <2>3, <3>4, <4>1, <4>2, <4>3 DEF HallOK
    <3>8. Beside(p)
      BY <2>1, <2>2, <3>3, <3>4 DEF Beside
    <3> QED
      BY <2>1, <2>2, <2>4, <3>4, <3>5, <3>6, <3>7, <3>8, SerialFrame DEF SerialOK
  <2> QED
    BY <1>6, <2>5, <2>6 DEF ApproveStep
<1>7. CASE RejectStep(p, i, k)
  <2> DEFINE v == [w EXCEPT !.steps[k] = "REJECTED", !.status = "REJECTED"]
  <2>1. v.status = "REJECTED"
    BY <1>2 DEF Instance
  <2>2. workflow' = [workflow EXCEPT ![p] = [workflow[p] EXCEPT ![n] = v]]
    BY <1>2, <1>7 DEF RejectStep
  <2> HIDE DEF v
  <2>3. workflow'[p][n] = v /\ \A q \in Proposals : q # p => workflow'[q] = workflow[q]
    BY <1>5, <2>2
  <2>4. /\ request'[p].status = "REJECTED" /\ booking'[p].active = FALSE
        /\ venue'[p].status = "NONE" => venue'[p] = venue[p]
        /\ UNCHANGED <<versions, budget, confirmed>>
        /\ \A q \in Proposals : q # p => /\ request'[q] = request[q] /\ venue'[q] = venue[q]
                                         /\ booking'[q] = booking[q]
    BY <1>7, SerialRows DEF RejectStep, Request, Booking, Venue
  <2>5. ReviewOK(request'[p], n, workflow'[p], confirmed[p])
    BY <1>2, <1>3, <2>1, <2>3, <2>4 DEF ReviewOK, UnderReview
  <2>6. HallOK(request'[p], n, workflow'[p], confirmed[p], venue'[p], booking'[p])
    BY <1>3, <2>4, SerialRows DEF HallOK
  <2>7. SnapOK(request'[p], versions[p], venue'[p], budget[p])
    BY <2>4 DEF SnapOK
  <2>8. Beside(p)
    BY <2>3, <2>4 DEF Beside
  <2> QED
    BY <2>4, <2>5, <2>6, <2>7, <2>8, SerialFrame, SerialRows DEF SerialOK
<1>8. CASE RequestRevision(p, i, k)
  <2> DEFINE v == [w EXCEPT !.steps[k] = "REVISION_REQUESTED"]
  <2>1. v.status = "IN_PROGRESS" /\ v.current = k /\ v.steps[k] = "REVISION_REQUESTED"
    BY <1>2, <1>4 DEF Instance
  <2>2. workflow' = [workflow EXCEPT ![p] = [workflow[p] EXCEPT ![n] = v]]
    BY <1>2, <1>8 DEF RequestRevision
  <2> HIDE DEF v
  <2>3. workflow'[p][n] = v /\ \A q \in Proposals : q # p => workflow'[q] = workflow[q]
    BY <1>5, <2>2
  <2>4. /\ request'[p].status = "REVISION_REQUIRED"
        /\ UNCHANGED <<versions, venue, booking, budget, confirmed>>
        /\ \A q \in Proposals : q # p => request'[q] = request[q]
    BY <1>8, SerialRows DEF RequestRevision, Request
  <2>5. ReviewOK(request'[p], n, workflow'[p], confirmed[p])
    BY <1>2, <1>3, <2>1, <2>3, <2>4 DEF ReviewOK, UnderReview
  <2>6. HallOK(request'[p], n, workflow'[p], confirmed[p], venue[p], booking[p])
    BY <1>3, <2>4, SerialRows DEF HallOK, UnderReview
  <2>7. SnapOK(request'[p], versions[p], venue[p], budget[p])
    BY <2>4 DEF SnapOK
  <2>8. Beside(p)
    BY <2>3, <2>4 DEF Beside
  <2> QED
    BY <2>4, <2>5, <2>6, <2>7, <2>8, SerialFrame, SerialRows DEF SerialOK
<1> QED
  BY <1>6, <1>7, <1>8

LEMMA SerialStep == SerialInv /\ [Next]_vars => SerialInv'
<1> SUFFICES ASSUME SerialInv, [Next]_vars PROVE SerialInv'
  OBVIOUS
<1>1. FlowInv'
  BY FlowStep DEF SerialInv
<1>2. CASE UNCHANGED vars
  BY <1>1, <1>2 DEF vars, SerialInv
<1>3. CASE EventNext
  BY <1>1, <1>3, SerialEvent, SerialSubmit, SerialCancel DEF EventNext
<1>4. CASE VenueNext
  BY <1>1, <1>4, SerialVenue DEF VenueNext, VenueStep
<1>5. CASE BudgetNext
  BY <1>1, <1>5, SerialBudget
<1>6. CASE WorkflowNext
  BY <1>1, <1>6, SerialDecide DEF WorkflowNext, DecideStep
<1> QED
  BY <1>2, <1>3, <1>4, <1>5, <1>6 DEF Next

LEMMA SerialInit == Init => SerialInv
<1> SUFFICES ASSUME Init, NEW p \in Proposals
             PROVE  SerialOK(request[p], versions[p], venue[p], booking[p], budget[p],
                             workflow[p], confirmed[p])
  BY FlowInit DEF SerialInv
<1>1. /\ request[p].status = "NONE" /\ versions[p] = <<>> /\ Len(versions[p]) = 0
      /\ confirmed[p].status = "NONE" /\ booking[p].active = FALSE
      /\ venue[p].slot = NoSlot /\ budget[p] = NoBudget
  BY DEF Init, NoVenue, NoBooking, NoEvent
<1>2. MoneyOK(budget[p])
  BY <1>1, NothingTotal, BudgetAssumption DEF MoneyOK, NoBudget
<1> QED
  BY <1>1, <1>2 DEF SerialOK, ReviewOK, HallOK, SnapOK, UnderReview

LEMMA SerialInvariant == Spec => []SerialInv
BY SerialInit, SerialStep, PTL DEF Spec

\* A hall is held only for a request under review or an event that is still on.
THEOREM HallsAreReleased == Spec => []HallReleased
<1>1. SerialInv => HallReleased
  BY SerialRows DEF HallReleased, HallOK, UnderReview
<1> QED
  BY <1>1, SerialInvariant, PTL

\* A scheduled event that is announced in a hall has that hall.
THEOREM EventsHaveTheirHalls == Spec => []EventHasItsHall
<1>1. SerialInv => EventHasItsHall
  BY SerialRows DEF EventHasItsHall, HallOK
<1> QED
  BY <1>1, SerialInvariant, PTL

\* The one instance in progress is that of the last submission.
THEOREM InstancesAreLive == Spec => []OneLiveInstance
<1>1. SerialInv => OneLiveInstance
  <2> SUFFICES ASSUME SerialInv, NEW p \in Proposals
               PROVE  LiveInstances(p) = IF request[p].instance # 0 /\ request[p].status \in UnderReview
                                         THEN {request[p].instance} ELSE {}
    BY DEF OneLiveInstance, UnderReview
  <2> DEFINE n == Len(versions[p])
  <2>1. /\ n \in Nat /\ request[p].instance = n /\ Len(workflow[p]) = n
        /\ \A i \in 1 .. n : workflow[p][i].status = "IN_PROGRESS" => i = n
        /\ n > 0 => (workflow[p][n].status = "IN_PROGRESS" <=> request[p].status \in UnderReview)
    BY SerialRows DEF FlowOK, ReviewOK
  <2> QED
    BY <2>1 DEF LiveInstances
<1> QED
  BY <1>1, SerialInvariant, PTL

\* Steps are decided in order, and a proposal under review waits for its current one.
THEOREM StepsInOrder == Spec => []ReviewsInOrder
<1>1. SerialInv => ReviewsInOrder
  <2> SUFFICES ASSUME SerialInv, NEW p \in Proposals, NEW i \in 1 .. Len(workflow[p])
               PROVE  LET w == workflow[p][i] IN
                      /\ \A k \in Steps : k < w.current => w.steps[k] = "APPROVED"
                      /\ \A k \in Steps : k > w.current => w.steps[k] \in {"PENDING", "SKIPPED"}
                      /\ (i = request[p].instance /\ request[p].status \in {"SUBMITTED", "IN_REVIEW"})
                            => w.steps[w.current] = "PENDING"
    BY DEF ReviewsInOrder
  <2>1. InOrder(workflow[p][i]) /\ request[p].instance = Len(versions[p])
    BY SerialRows DEF FlowOK
  <2> QED
    BY <2>1, SerialRows DEF InOrder, ReviewOK
<1> QED
  BY <1>1, SerialInvariant, PTL

\* An approval is every reviewer's, on the latest snapshot, and brings the event.
THEOREM ApprovalsAreReviewed == Spec => []ApprovedIsReviewed
<1>1. SerialInv => ApprovedIsReviewed
  <2> SUFFICES ASSUME SerialInv, NEW p \in Proposals, request[p].status = "APPROVED"
               PROVE  LET w == workflow[p][request[p].instance] IN
                      /\ w.status = "COMPLETED"
                      /\ \A k \in Steps : w.steps[k] = "APPROVED"
                      /\ w.version = Len(versions[p])
                      /\ confirmed[p].status # "NONE"
                      /\ confirmed[p].version = w.version
    BY DEF ApprovedIsReviewed
  <2> DEFINE n == Len(versions[p])
  <2>1. n > 0 /\ n \in 1 .. n /\ request[p].instance = n /\ workflow[p][n].version = n
    BY SerialRows DEF FlowOK, ReviewOK
  <2>2. Done(workflow[p][n]) /\ confirmed[p].status # "NONE" /\ confirmed[p].version = n
    BY SerialRows DEF ReviewOK
  <2> QED
    BY <2>1, <2>2 DEF Done
<1> QED
  BY <1>1, SerialInvariant, PTL

\* Nothing under review or approved has been edited since it was submitted.
THEOREM SnapshotsAreReviewed == Spec => []ReviewedIsSnapshot
<1>1. SerialInv => ReviewedIsSnapshot
  BY SerialRows DEF ReviewedIsSnapshot, SnapOK, SnapshotOf
<1> QED
  BY <1>1, SerialInvariant, PTL

\* A budget's total is that of its lines, whatever edits led to it.
THEOREM BudgetsAddUp == Spec => []BudgetAddsUp
<1>1. SerialInv => BudgetAddsUp
  BY SerialRows DEF BudgetAddsUp, MoneyOK
<1> QED
  BY <1>1, SerialInvariant, PTL

\* An approved, rejected or cancelled proposal is never edited, resubmitted or decided again.
THEOREM FinalDecisions == Spec => DecisionsAreFinal
<1>1. SerialInv /\ [Next]_vars =>
         [\A p \in Proposals :
            request[p].status \in {"APPROVED", "REJECTED", "CANCELLED"} =>
                request'[p] = request[p] /\ versions'[p] = versions[p]]_vars
  <2> SUFFICES ASSUME SerialInv, Next, NEW q \in Proposals,
                      request[q].status \in {"APPROVED", "REJECTED", "CANCELLED"}
               PROVE  request'[q] = request[q] /\ versions'[q] = versions[q]
    OBVIOUS
  <2>1. CASE EventNext
    BY <2>1, SerialRows DEF EventNext, CreateDraft, UpdateDraft, SubmitProposal, CancelProposal,
                            CancelConfirmedEvent, Editable, Cancellable
  <2>2. CASE VenueNext
    BY <2>2 DEF VenueNext, CreateVenueRequest, UpdateVenueRequest, DeleteVenueRequest, SetVenue
  <2>3. CASE BudgetNext
    BY <2>3 DEF BudgetNext, CreateBudgetProposal, UpdateBudgetProposal, DeleteBudgetProposal,
                AddLineItem, UpdateLineItem, DeleteLineItem, SetItem, VerifyBudget, SetBudget
  <2>4. CASE WorkflowNext
    <3>0. PICK p \in Proposals : DecideStep(p)
      BY <2>4 DEF WorkflowNext
    <3>1. PICK i \in 1 .. Len(workflow[p]), k \in Steps :
             ApproveStep(p, i, k) \/ RejectStep(p, i, k) \/ RequestRevision(p, i, k)
      BY <3>0 DEF DecideStep
    <3>2. Awaiting(p, i, k) /\ UNCHANGED versions
      BY <3>1 DEF ApproveStep, RejectStep, RequestRevision
    <3>3. i = Len(versions[p]) /\ i > 0
      BY <3>2, AwaitedIsLast DEF SerialInv
    <3>4. request[p].status \in UnderReview
      BY <3>2, <3>3, SerialRows DEF ReviewOK, Awaiting
    <3>5. p # q
      BY <3>4 DEF UnderReview
    <3>6. request'[q] = request[q]
      BY <3>1, <3>5, SerialRows DEF ApproveStep, Advance, Complete, RejectStep, RequestRevision
    <3> QED
      BY <3>2, <3>6
  <2> QED
    BY <2>1, <2>2, <2>3, <2>4 DEF Next
<1> QED
  BY <1>1, SerialInvariant, PTL DEF Spec, DecisionsAreFinal
===============================================================================
