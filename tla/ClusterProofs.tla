---------------------------- MODULE ClusterProofs ----------------------------
(***************************************************************************)
(* For any number of calls, faults and instances: what create and delete   *)
(* calls report is so, and a fresh start returns with a ready instance.    *)
(***************************************************************************)
EXTENDS Cluster, TLAPS, SequenceTheorems

\* The call goes on with the step it is at or with the next one.
SameCall ==
  /\ call'.kind = call.kind /\ call'.op = call.op /\ call'.fresh = call.fresh
  /\ call'.todo = call.todo \/ (call.todo # <<>> /\ call'.todo = Tail(call.todo))

Moves ==
  /\ call' \in Calls /\ last' \in Results
  /\ call'.elapsed < conf.timeout + conf.interval
  /\ call' = NoCall \/ SameCall

LEMMA NoCallIsCall ==
  /\ NoCall \in Calls /\ NoCall.elapsed = 0 /\ NoCall.todo = <<>>
  /\ NoCall.kind = "none" /\ NoCall.kind \notin Kinds /\ NoCall.op = "idle"
BY DEF NoCall, Calls, Kinds

LEMMA ReturnMoves ==
  ASSUME TypeOK, NEW r \in Results, Return(r)
  PROVE  Moves
<1>1. 0 < conf.timeout + conf.interval
  BY DEF TypeOK
<1> QED
  BY <1>1, NoCallIsCall DEF Return, Moves

LEMMA AdvanceMoves ==
  ASSUME TypeOK, call.todo # <<>>, Advance
  PROVE  Moves
<1>1. CASE Return("done")
  BY <1>1, ReturnMoves DEF Results
<1>2. CASE call' = [call EXCEPT !.todo = Tail(@)] /\ UNCHANGED last
  <2>1. call.todo \in Seq(Steps)
    BY DEF TypeOK, Calls
  <2>2. Tail(call.todo) \in Seq(Steps)
    BY <2>1
  <2>3. call' \in Calls /\ call'.todo = Tail(call.todo) /\ call'.elapsed = call.elapsed
    BY <1>2, <2>2 DEF TypeOK, Calls
  <2>4. call'.kind = call.kind /\ call'.op = call.op /\ call'.fresh = call.fresh
    BY <1>2 DEF TypeOK, Calls
  <2> QED
    BY <1>2, <2>2, <2>3, <2>4 DEF Moves, SameCall, TypeOK
<1> QED
  BY <1>1, <1>2 DEF Advance

LEMMA PauseMoves ==
  ASSUME TypeOK, NEW e \in BOOLEAN, call.elapsed < conf.timeout, Pause(e)
  PROVE  Moves
<1> DEFINE t == call.elapsed + conf.interval
<1>1. t \in Nat /\ t < conf.timeout + conf.interval
  BY DEF TypeOK, Calls
<1>2. call' = [call EXCEPT !.elapsed = t]
  BY DEF Pause
<1> HIDE DEF t
<1>3. call' \in Calls /\ call'.elapsed = t /\ call'.todo = call.todo
  BY <1>1, <1>2 DEF TypeOK, Calls
<1>4. call'.kind = call.kind /\ call'.op = call.op /\ call'.fresh = call.fresh
  BY <1>2 DEF TypeOK, Calls
<1> QED
  BY <1>1, <1>3, <1>4 DEF Moves, SameCall, TypeOK, Pause

-----------------------------------------------------------------------------
(* The steps of the calls.                                                 *)

LEMMA ShortSeqs ==
  ASSUME NEW S, NEW x \in S, NEW y \in S, NEW z \in S
  PROVE  /\ <<x>> \in Seq(S) /\ <<x>> # <<>>
         /\ <<x, y>> \in Seq(S) /\ <<x, y>> # <<>>
         /\ <<x, y, z>> \in Seq(S) /\ <<x, y, z>> # <<>>
OBVIOUS

LEMMA Concatenated ==
  ASSUME NEW S, NEW s \in Seq(S), NEW t \in Seq(S)
  PROVE  s \o t \in Seq(S)
OBVIOUS

LEMMA WiderSeq ==
  ASSUME NEW S, NEW T, S \subseteq T, NEW s \in Seq(S)
  PROVE  s \in Seq(T)
OBVIOUS

LEMMA ObjectTodos ==
  /\ create_namespace \in Seq(ObjectSteps)
  /\ create_object \in Seq(ObjectSteps \ {"look"})
  /\ delete_object \in Seq(ObjectSteps \ {"look"})
<1>1. {"look", "post", "poll created"} \subseteq ObjectSteps
  BY DEF ObjectSteps
<1>2. {"post", "delete", "poll created", "poll deleted"} \subseteq ObjectSteps \ {"look"}
  BY DEF ObjectSteps
<1>3. create_namespace \in Seq(ObjectSteps)
  BY <1>1, ShortSeqs DEF create_namespace
<1> QED
  BY <1>2, <1>3, ShortSeqs DEF create_object, delete_object

LEMMA VmTodos ==
  ASSUME NEW c \in VmCalls
  PROVE  /\ c[1] \in {"create", "start", "reboot", "shutdown", "destroy", "state", "get_ip"}
         /\ c[2] \in Seq(VmSteps)
         /\ c[1] \in {"start", "create"} => c[2] \in Seq(VmSteps \ {"off", "vm delete"})
<1> DEFINE W == VmSteps \ {"off", "vm delete"}
           a == <<"off">>  b == <<"vm delete">>  d == <<"vm state">>  e == <<"poll ip">>
           f == VMMKubeVirt_create(TRUE)  g == VMMKubeVirt_create(FALSE)
<1>1. W \subseteq VmSteps /\ {"vm post", "on", "poll ready"} \subseteq W
  BY DEF VmSteps
<1>2. {"off", "vm delete", "vm state", "poll ip"} \subseteq VmSteps
  BY DEF VmSteps
<1> HIDE DEF W
<1>3. a \in Seq(VmSteps) /\ b \in Seq(VmSteps) /\ d \in Seq(VmSteps) /\ e \in Seq(VmSteps)
  BY <1>2, ShortSeqs
<1>4. <<"vm post">> \in Seq(W)
  BY <1>1, ShortSeqs
<1>5. launch_tdvm \in Seq(W)
  BY <1>1, ShortSeqs DEF launch_tdvm
<1>6. f \in Seq(W)
  <2>1. <<"vm post">> \o <<>> = <<"vm post">>
    BY <1>4, ConcatEmptySeq
  <2> QED
    BY <1>4, <2>1, Zenon DEF VMMKubeVirt_create
<1>7. g \in Seq(W)
  BY <1>4, <1>5, Concatenated DEF VMMKubeVirt_create
<1>8. launch_tdvm \in Seq(VmSteps) /\ f \in Seq(VmSteps) /\ g \in Seq(VmSteps)
  BY <1>1, <1>5, <1>6, <1>7, WiderSeq
<1>9. VMMKubeVirt_reboot \in Seq(VmSteps)
  BY <1>3, <1>8, Concatenated DEF VMMKubeVirt_reboot
<1>10. c \in {<<"create", f>>, <<"create", g>>, <<"start", launch_tdvm>>,
              <<"reboot", VMMKubeVirt_reboot>>, <<"shutdown", a>>, <<"destroy", b>>,
              <<"state", d>>, <<"get_ip", e>>}
  BY DEF VmCalls
<1> HIDE DEF a, b, d, e, f, g
<1>11. /\ c[1] \in {"create", "start", "reboot", "shutdown", "destroy", "state", "get_ip"}
       /\ c[2] \in Seq(VmSteps) /\ (c[1] \in {"start", "create"} => c[2] \in Seq(W))
  BY <1>3, <1>5, <1>6, <1>7, <1>8, <1>9, <1>10
<1> QED
  BY <1>11 DEF W

-----------------------------------------------------------------------------
LEMMA StepKnown ==
  ASSUME TypeOK, CallInv, NEW step, Doing(step)
  PROVE  /\ step \in ObjectSteps =>
              call.kind \in Kinds /\ standing[call.kind] = "unknown"
         /\ step = "look" => call.kind = "namespace"
         /\ call.op \in {"start", "create"} => step \notin {"off", "vm delete"}
<1>1. ASSUME NEW S, call.todo \in Seq(S) PROVE step \in S
  BY <1>1 DEF Doing
<1>2. ObjectSteps \cap VmSteps = {}
  BY DEF ObjectSteps, VmSteps
<1>3. step \in VmSteps => step \notin ObjectSteps
  BY <1>2
<1>4. step \in ObjectSteps => call.kind \in Kinds /\ standing[call.kind] = "unknown"
  BY <1>1, <1>3 DEF CallInv
<1>5. step = "look" => call.kind = "namespace"
  <2>1. call.kind # "namespace" => step \in Steps \ {"look"}
    BY <1>1 DEF CallInv
  <2> QED
    BY <2>1
<1>6. call.op \in {"start", "create"} => step \in Steps \ {"off", "vm delete"}
  BY <1>1 DEF CallInv
<1> QED
  BY <1>4, <1>5, <1>6

\* Every step of a call goes on or ends it, and says something of an object only
\* when it ends.
LEMMA StepMoves ==
  ASSUME TypeOK, Step
  PROVE  Moves /\ call # NoCall /\ (UNCHANGED standing \/ call' = NoCall)
<1> USE DEF Results
<1>0. \A step : Doing(step) => call.todo # <<>> /\ call # NoCall
  BY NoCallIsCall DEF Doing
<1>1. CASE LookNamespace
  BY <1>0, <1>1, ReturnMoves, AdvanceMoves DEF LookNamespace, Return
<1>2. CASE PostObject
  BY <1>0, <1>2, ReturnMoves, AdvanceMoves DEF PostObject
<1>3. CASE DeleteObject
  BY <1>0, <1>3, ReturnMoves, AdvanceMoves DEF DeleteObject
<1>4. CASE PollCreated
  BY <1>0, <1>4, ReturnMoves, PauseMoves DEF PollCreated, Polling, Return
<1>5. CASE PollDeleted
  BY <1>0, <1>5, ReturnMoves, PauseMoves DEF PollDeleted, Polling, Return
<1>6. CASE PollTimeout
  BY <1>0, <1>6, ReturnMoves DEF PollTimeout, TimedOut
<1>7. CASE create_tdvm
  BY <1>0, <1>7, AdvanceMoves DEF create_tdvm
<1>8. CASE delete_tdvm
  BY <1>0, <1>8, AdvanceMoves DEF delete_tdvm
<1>9. CASE patch_tdvm("on", TRUE) \/ patch_tdvm("off", FALSE)
  BY <1>0, <1>9, ReturnMoves, AdvanceMoves DEF patch_tdvm
<1>10. CASE wait_for_tdvm_ready
  BY <1>0, <1>10, ReturnMoves, PauseMoves DEF wait_for_tdvm_ready, Polling
<1>11. CASE get_tdvm_ip
  BY <1>0, <1>11, ReturnMoves, PauseMoves DEF get_tdvm_ip, Polling
<1>12. CASE state
  BY <1>0, <1>12, ReturnMoves DEF state
<1>13. CASE RequestLost
  BY <1>13, ReturnMoves DEF RequestLost, NoAnswer, Return
<1> QED
  BY <1>1, <1>2, <1>3, <1>4, <1>5, <1>6, <1>7, <1>8, <1>9, <1>10, <1>11, <1>12, <1>13
  DEF Step

-----------------------------------------------------------------------------
VmObjects == [obj : {"absent", "up", "deleting"}, running : BOOLEAN, status : Reports]

\* The part of TypeOK that is not about the call.
DataOK ==
  /\ obj \in [Kinds -> ObjStates]
  /\ vm \in [obj : {"absent", "up", "deleting"}, running : BOOLEAN, status : Reports]
  /\ vmi \in [phase : Phases, boots : 0..MaxBoots]
  /\ conf \in [interval : Nat \ {0}, timeout : Nat \ {0}]
  /\ ncalls \in 0..MaxCalls /\ faults \in 0..MaxFaults
  /\ standing \in [Kinds -> {"unknown", "created", "deleted"}]
  /\ want \in {"none", "off", "on", "gone"}

LEMMA StepData ==
  ASSUME TypeOK, Step
  PROVE  DataOK' /\ UNCHANGED conf
<1>1. DataOK
  BY DEF TypeOK, DataOK
<1>2. Error => faults' \in 0..MaxFaults
  BY <1>1, ClusterAssumption DEF DataOK, Error
<1> USE <1>1, <1>2 DEF DataOK, ObjStates, Reports, VmSideUnchanged
<1>3. CASE LookNamespace
  BY <1>3 DEF LookNamespace, Concluded, Refused
<1>4. CASE PostObject
  BY <1>4 DEF PostObject, Created, Refused
<1>5. CASE DeleteObject
  BY <1>5 DEF DeleteObject, Refused
<1>6. CASE PollCreated
  BY <1>6 DEF PollCreated, Concluded
<1>7. CASE PollDeleted
  BY <1>7 DEF PollDeleted, Concluded
<1>8. CASE PollTimeout
  BY <1>8 DEF PollTimeout
<1>9. CASE create_tdvm
  <2>1. vm' \in VmObjects
    <3>1. CASE \E r \in BOOLEAN : vm' = [obj |-> "up", running |-> r, status |-> "none"]
      BY <3>1 DEF VmObjects
    <3>2. CASE UNCHANGED vm
      BY <3>2 DEF VmObjects
    <3> QED
      BY <1>9, <3>1, <3>2 DEF create_tdvm
  <2>2. want' \in {"none", "off", "on", "gone"}
    BY <1>9 DEF create_tdvm
  <2>3. faults' \in 0..MaxFaults
    BY <1>9 DEF create_tdvm
  <2> QED
    BY <1>9, <2>1, <2>2, <2>3 DEF create_tdvm, VmObjects
<1>10. CASE delete_tdvm
  BY <1>10 DEF delete_tdvm
<1>11. CASE patch_tdvm("on", TRUE) \/ patch_tdvm("off", FALSE)
  BY <1>11 DEF patch_tdvm, Refused
<1>12. CASE wait_for_tdvm_ready
  BY <1>12 DEF wait_for_tdvm_ready, Refused
<1>13. CASE get_tdvm_ip
  BY <1>13 DEF get_tdvm_ip, Refused
<1>14. CASE state
  BY <1>14 DEF state
<1>15. CASE RequestLost
  <2>1. obj' \in [Kinds -> ObjStates]
    BY <1>15 DEF RequestLost, Created
  <2>2. vm' \in VmObjects
    <3>1. \/ vm' = vm \/ vm' = [vm EXCEPT !.obj = "deleting"]
          \/ \E r \in BOOLEAN : vm' = [obj |-> "up", running |-> r, status |-> "none"]
          \/ vm' = [vm EXCEPT !.running = TRUE] \/ vm' = [vm EXCEPT !.running = FALSE]
      BY <1>15 DEF RequestLost, Doing
    <3>2. CASE \E r \in BOOLEAN : vm' = [obj |-> "up", running |-> r, status |-> "none"]
      BY <3>2 DEF VmObjects
    <3> QED
      BY <3>1, <3>2 DEF VmObjects
  <2> QED
    BY <1>15, <2>1, <2>2 DEF RequestLost, NoAnswer, VmObjects
<1> QED
  BY <1>3, <1>4, <1>5, <1>6, <1>7, <1>8, <1>9, <1>10, <1>11, <1>12, <1>13, <1>14, <1>15 DEF Step

LEMMA BeginCalls ==
  ASSUME TypeOK, NEW op \in {"create", "delete", "start", "reboot", "shutdown", "destroy",
                             "state", "get_ip"},
         NEW k \in Kinds \cup {"vm"}, NEW todo \in Seq(Steps), Begin(op, k, todo)
  PROVE  /\ call' \in Calls /\ call'.elapsed < conf.timeout + conf.interval
         /\ call'.op = op /\ call'.kind = k /\ call'.todo = todo /\ call'.fresh = Fresh
         /\ last' \in Results /\ ncalls' \in 0..MaxCalls
<1>1. Fresh \in BOOLEAN
  BY DEF Fresh
<1>2. 0 < conf.timeout + conf.interval
  BY DEF TypeOK
<1>3. call' = [NoCall EXCEPT !.op = op, !.kind = k, !.todo = todo, !.fresh = Fresh]
  BY DEF Begin
<1>4. /\ call' \in Calls /\ call'.elapsed = 0
      /\ call'.op = op /\ call'.kind = k /\ call'.todo = todo /\ call'.fresh = Fresh
  BY <1>1, <1>3, NoCallIsCall DEF Calls, NoCall
<1>5. last' \in Results /\ ncalls' \in 0..MaxCalls
  BY ClusterAssumption DEF Begin, TypeOK, Results
<1> QED
  BY <1>2, <1>4, <1>5

\* The object calls and their steps.
ObjectCall(k, op, todo) ==
  /\ op \in {"create", "delete"} /\ Begin(op, k, todo)
  /\ todo \in Seq(ObjectSteps) /\ (k # "namespace" => todo \in Seq(ObjectSteps \ {"look"}))
  /\ standing' = [standing EXCEPT ![k] = "unknown"]
  /\ UNCHANGED want

LEMMA CallObjectIs ==
  ASSUME CallObject
  PROVE  \E k \in Kinds : \E op, todo : ObjectCall(k, op, todo)
<1>1. PICK k \in Kinds :
        /\ \/ Begin("create", k, IF k = "namespace" THEN create_namespace ELSE create_object)
           \/ Begin("delete", k, delete_object)
        /\ standing' = [standing EXCEPT ![k] = "unknown"]
        /\ UNCHANGED want
  BY DEF CallObject
<1>2. /\ create_object \in Seq(ObjectSteps) /\ delete_object \in Seq(ObjectSteps)
  BY ObjectTodos, WiderSeq
<1>3. CASE Begin("delete", k, delete_object)
  BY <1>1, <1>2, <1>3, ObjectTodos DEF ObjectCall
<1>4. CASE k = "namespace" /\ Begin("create", k, create_namespace)
  BY <1>1, <1>4, ObjectTodos DEF ObjectCall
<1>5. CASE k # "namespace" /\ Begin("create", k, create_object)
  BY <1>1, <1>2, <1>5, ObjectTodos DEF ObjectCall
<1> QED
  BY <1>1, <1>3, <1>4, <1>5

LEMMA TypeOKStep == TypeOK /\ [Next]_vars => TypeOK'
<1> SUFFICES ASSUME TypeOK, [Next]_vars PROVE TypeOK'
  OBVIOUS
<1>0. DataOK /\ ObjectSteps \subseteq Steps /\ VmSteps \subseteq Steps
  BY DEF TypeOK, DataOK, Steps
<1>1. CASE Configure
  <2>1. conf' \in [interval : Nat \ {0}, timeout : Nat \ {0}]
    BY <1>1, ClusterAssumption DEF Configure, set_interval, set_timeout, TypeOK
  <2>2. call' = NoCall /\ ncalls' \in 0..MaxCalls
    BY <1>1, ClusterAssumption DEF Configure, TypeOK
  <2>3. call'.elapsed < conf'.timeout + conf'.interval
    BY <2>1, <2>2, NoCallIsCall
  <2> QED
    BY <1>1, <2>1, <2>2, <2>3, NoCallIsCall DEF Configure, TypeOK
<1>2. CASE CallObject
  <2>1. PICK k \in Kinds : \E op, todo : ObjectCall(k, op, todo)
    BY <1>2, CallObjectIs
  <2>2. PICK op, todo : ObjectCall(k, op, todo)
    BY <2>1
  <2>3. todo \in Seq(Steps)
    BY <1>0, <2>2, WiderSeq DEF ObjectCall
  <2>4. /\ call' \in Calls /\ call'.elapsed < conf.timeout + conf.interval
        /\ last' \in Results /\ ncalls' \in 0..MaxCalls
    BY <2>2, <2>3, BeginCalls DEF ObjectCall
  <2>5. standing' \in [Kinds -> {"unknown", "created", "deleted"}]
    BY <2>2 DEF ObjectCall, TypeOK
  <2> QED
    BY <2>2, <2>4, <2>5 DEF ObjectCall, Begin, TypeOK
<1>3. CASE CallVm
  <2>1. PICK c \in VmCalls : Begin(c[1], "vm", c[2])
    BY <1>3 DEF CallVm
  <2>2. c[2] \in Seq(Steps)
    BY <1>0, VmTodos, WiderSeq
  <2>3. /\ call' \in Calls /\ call'.elapsed < conf.timeout + conf.interval
        /\ last' \in Results /\ ncalls' \in 0..MaxCalls
    BY <2>1, <2>2, BeginCalls, VmTodos
  <2>4. want' \in {"none", "off", "on", "gone"} /\ UNCHANGED standing
    BY <1>3 DEF CallVm, TypeOK
  <2> QED
    BY <2>1, <2>3, <2>4 DEF Begin, TypeOK
<1>4. CASE Step
  BY <1>4, StepMoves, StepData DEF Moves, DataOK, TypeOK
<1>5. CASE ControllerObject
  BY <1>5 DEF ControllerObject, ObjStates, TypeOK
<1>6. CASE ControllerVm
  <2>1. /\ vm' \in [obj : {"absent", "up", "deleting"}, running : BOOLEAN, status : Reports]
        /\ vmi' \in [phase : Phases, boots : 0..MaxBoots]
    <3>1. CASE UNCHANGED vm /\ Wanted
      BY <1>6, <3>1, ClusterAssumption DEF ControllerVm, Phases, TypeOK
    <3>2. CASE UNCHANGED vm /\ ~Wanted
      BY <1>6, <3>2 DEF ControllerVm, Phases, TypeOK
    <3>3. CASE /\ vm' = [obj |-> "absent", running |-> FALSE, status |-> "none"]
               /\ UNCHANGED vmi
      BY <3>3 DEF Reports, TypeOK
    <3> QED
      BY <1>6, <3>1, <3>2, <3>3 DEF ControllerVm
  <2> QED
    BY <1>6, <2>1 DEF ControllerVm, TypeOK
<1>7. CASE ControllerReport
  BY <1>7 DEF ControllerReport, Reports, TypeOK
<1>8. CASE Quiet \/ UNCHANGED vars
  BY <1>8 DEF Quiet, vars, TypeOK
<1> QED
  BY <1>1, <1>2, <1>3, <1>4, <1>5, <1>6, <1>7, <1>8 DEF Next, Controllers

-----------------------------------------------------------------------------
LEMMA CallInvStep == TypeOK /\ CallInv /\ [Next]_vars => CallInv'
<1> SUFFICES ASSUME TypeOK, CallInv, [Next]_vars PROVE CallInv'
  OBVIOUS
<1>1. ASSUME call' = NoCall PROVE CallInv'
  <2>1. <<>> \in Seq(VmSteps) /\ <<>> \in Seq(Steps \ {"look"})
    OBVIOUS
  <2>2. call'.kind \notin Kinds /\ call'.todo = <<>> /\ call'.op = "idle"
    BY <1>1, NoCallIsCall
  <2>3. call'.op \notin {"start", "create"}
    BY <2>2
  <2> QED
    BY <2>1, <2>2, <2>3 DEF CallInv
<1>2. CASE CallObject
  <2>1. PICK k \in Kinds : \E op, todo : ObjectCall(k, op, todo)
    BY <1>2, CallObjectIs
  <2>2. PICK op, todo : ObjectCall(k, op, todo)
    BY <2>1
  <2>3. /\ ObjectSteps \subseteq Steps
        /\ ObjectSteps \subseteq Steps \ {"off", "vm delete"}
        /\ ObjectSteps \ {"look"} \subseteq Steps \ {"look"}
    BY DEF ObjectSteps, Steps
  <2>4. /\ todo \in Seq(Steps) /\ todo \in Seq(Steps \ {"off", "vm delete"})
        /\ k # "namespace" => todo \in Seq(Steps \ {"look"})
    BY <2>2, <2>3, WiderSeq DEF ObjectCall
  <2>5. call'.kind = k /\ call'.todo = todo
    BY <2>2, <2>4, BeginCalls DEF ObjectCall
  <2>6. standing'[k] = "unknown"
    BY <2>2 DEF ObjectCall, TypeOK
  <2> QED
    BY <2>4, <2>5, <2>6 DEF CallInv
<1>3. CASE CallVm
  <2>1. PICK c \in VmCalls : Begin(c[1], "vm", c[2])
    BY <1>3 DEF CallVm
  <2>2. /\ VmSteps \subseteq Steps /\ VmSteps \subseteq Steps \ {"look"}
        /\ VmSteps \ {"off", "vm delete"} \subseteq Steps \ {"off", "vm delete"}
    BY DEF VmSteps, Steps
  <2>3. /\ c[2] \in Seq(Steps) /\ c[2] \in Seq(Steps \ {"look"}) /\ c[2] \in Seq(VmSteps)
        /\ c[1] \in {"start", "create"} => c[2] \in Seq(Steps \ {"off", "vm delete"})
    <3>1. /\ c[2] \in Seq(VmSteps)
          /\ c[1] \in {"start", "create"} => c[2] \in Seq(VmSteps \ {"off", "vm delete"})
      BY VmTodos
    <3>2. c[2] \in Seq(Steps) /\ c[2] \in Seq(Steps \ {"look"})
      BY <2>2, <3>1, WiderSeq, ZenonT(30)
    <3>3. ASSUME c[1] \in {"start", "create"} PROVE c[2] \in Seq(Steps \ {"off", "vm delete"})
      <4> DEFINE V == VmSteps \ {"off", "vm delete"}
                 W == Steps \ {"off", "vm delete"}
      <4>1. c[2] \in Seq(V) /\ V \subseteq W
        BY <2>2, <3>1, <3>3
      <4> HIDE DEF V, W
      <4>2. c[2] \in Seq(W)
        BY <4>1, WiderSeq
      <4> QED
        BY <4>2 DEF W
    <3> QED
      BY <3>1, <3>2, <3>3
  <2>4. call'.kind = "vm" /\ call'.todo = c[2] /\ call'.op = c[1]
    <3>1. c[1] \in {"create", "delete", "start", "reboot", "shutdown", "destroy", "state", "get_ip"}
      BY VmTodos
    <3> QED
      BY <2>1, <2>3, <3>1, BeginCalls
  <2> QED
    BY <2>3, <2>4 DEF CallInv, Kinds
<1>4. CASE Step
  <2>1. Moves /\ (UNCHANGED standing \/ call' = NoCall)
    BY <1>4, StepMoves
  <2>2. CASE SameCall /\ UNCHANGED standing
    <3>1. ASSUME NEW S, call.todo \in Seq(S) PROVE call'.todo \in Seq(S)
      <4>1. CASE call'.todo = call.todo
        BY <3>1, <4>1
      <4>2. CASE call.todo # <<>> /\ call'.todo = Tail(call.todo)
        BY <3>1, <4>2
      <4> QED
        BY <2>2, <4>1, <4>2 DEF SameCall
    <3> QED
      BY <2>2, <3>1 DEF SameCall, CallInv
  <2> QED
    BY <1>1, <2>1, <2>2 DEF Moves
<1>5. CASE UNCHANGED <<call, standing>>
  BY <1>5 DEF CallInv
<1>6. CASE Configure
  BY <1>1, <1>6 DEF Configure
<1> QED
  BY <1>2, <1>3, <1>4, <1>5, <1>6
  DEF Next, Controllers, ControllerObject, ControllerVm, ControllerReport, Quiet, vars

\* What was reported stays so: only a call about an object makes or deletes it.
LEMMA ReportStep ==
  TypeOK /\ CallInv /\ CreatedStays /\ DeletedIsGone /\ [Next]_vars
    => CreatedStays' /\ DeletedIsGone'
<1> SUFFICES ASSUME TypeOK, CallInv, CreatedStays, DeletedIsGone, [Next]_vars
             PROVE  CreatedStays' /\ DeletedIsGone'
  OBVIOUS
<1>0. /\ obj \in [Kinds -> ObjStates]
      /\ standing \in [Kinds -> {"unknown", "created", "deleted"}]
  BY DEF TypeOK
<1> USE <1>0 DEF CreatedStays, DeletedIsGone
<1>1. CASE UNCHANGED <<obj, standing>>
  BY <1>1
<1>2. CASE CallObject
  BY <1>2 DEF CallObject, Begin
<1>3. CASE LookNamespace
  <2>1. call.kind = "namespace"
    BY <1>3, StepKnown DEF LookNamespace
  <2> QED
    BY <1>3, <2>1 DEF LookNamespace, Concluded
<1>4. CASE PostObject
  <2>1. standing[call.kind] = "unknown"
    BY <1>4, StepKnown DEF PostObject, ObjectSteps
  <2> QED
    BY <1>4, <2>1 DEF PostObject
<1>5. CASE DeleteObject
  <2>1. standing[call.kind] = "unknown"
    BY <1>5, StepKnown DEF DeleteObject, ObjectSteps
  <2> QED
    BY <1>5, <2>1 DEF DeleteObject
<1>6. CASE PollCreated
  BY <1>6 DEF PollCreated, Concluded
<1>7. CASE PollDeleted
  BY <1>7 DEF PollDeleted, Concluded
<1>8. CASE RequestLost
  <2>1. CASE UNCHANGED obj
    BY <1>1, <1>8, <2>1 DEF RequestLost, NoAnswer
  <2>2. CASE Doing("post") \/ Doing("delete")
    <3>1. standing[call.kind] = "unknown"
      BY <2>2, StepKnown DEF ObjectSteps
    <3>2. \A k \in Kinds : k # call.kind => obj'[k] = obj[k]
      BY <1>8 DEF RequestLost
    <3> QED
      BY <1>8, <3>1, <3>2 DEF RequestLost, NoAnswer
  <2> QED
    BY <1>8, <2>1, <2>2 DEF RequestLost
<1>9. CASE ControllerObject
  BY <1>9 DEF ControllerObject
<1>10. CASE Step
  BY <1>1, <1>3, <1>4, <1>5, <1>6, <1>7, <1>8, <1>10
  DEF Step, PollTimeout, create_tdvm, delete_tdvm, patch_tdvm, wait_for_tdvm_ready,
      get_tdvm_ip, state
<1> QED
  BY <1>1, <1>2, <1>9, <1>10
  DEF Next, Configure, CallVm, Begin, Controllers, ControllerVm, ControllerReport, Quiet, vars

-----------------------------------------------------------------------------
LEMMA InstanceInvStep == TypeOK /\ CallInv /\ InstanceInv /\ [Next]_vars => InstanceInv'
<1> SUFFICES ASSUME TypeOK, CallInv, InstanceInv, [Next]_vars PROVE InstanceInv'
  OBVIOUS
<1>0. /\ vm \in VmObjects
      /\ vmi \in [phase : Phases, boots : 0..MaxBoots]
  BY DEF TypeOK, VmObjects
<1> USE <1>0 DEF VmObjects, Phases, Reports, InstanceInv, Wanted
<1>1. CASE UNCHANGED <<vm, vmi>> /\ call' = NoCall
  BY <1>1, NoCallIsCall
<1>2. CASE UNCHANGED <<vm, vmi>> /\ call'.op = call.op /\ call'.fresh = call.fresh
  BY <1>2
<1>3. ASSUME UNCHANGED <<vm, vmi>>, call'.fresh = Fresh PROVE InstanceInv'
  BY <1>3 DEF Fresh
<1>4. CASE CallObject
  <2>1. PICK k \in Kinds : \E op, todo : ObjectCall(k, op, todo)
    BY <1>4, CallObjectIs
  <2>2. PICK op, todo : ObjectCall(k, op, todo)
    BY <2>1
  <2>3. ObjectSteps \subseteq Steps
    BY DEF Steps
  <2>4. todo \in Seq(Steps)
    BY <2>2, <2>3, WiderSeq DEF ObjectCall
  <2>5. call'.fresh = Fresh
    BY <2>2, <2>4, BeginCalls DEF ObjectCall
  <2> QED
    BY <1>3, <2>2, <2>5 DEF ObjectCall, Begin
<1>5. CASE CallVm
  <2>1. PICK c \in VmCalls : Begin(c[1], "vm", c[2])
    BY <1>5 DEF CallVm
  <2>2. VmSteps \subseteq Steps
    BY DEF Steps
  <2>3. c[2] \in Seq(Steps)
    BY <2>2, VmTodos, WiderSeq
  <2>4. call'.fresh = Fresh
    <3>1. c[1] \in {"create", "delete", "start", "reboot", "shutdown", "destroy", "state", "get_ip"}
      BY VmTodos
    <3> QED
      BY <2>1, <2>3, <3>1, BeginCalls
  <2> QED
    BY <1>3, <2>1, <2>4 DEF Begin
<1>6. CASE Step
  <2>1. call' = NoCall \/ (call'.op = call.op /\ call'.fresh = call.fresh)
    BY <1>6, StepMoves DEF Moves, SameCall
  <2>2. CASE UNCHANGED <<vm, vmi>>
    BY <1>1, <1>2, <2>1, <2>2
  <2>3. CASE create_tdvm
    <3>1. CASE /\ vm.obj = "absent" /\ UNCHANGED vmi
               /\ \E r \in BOOLEAN : vm' = [obj |-> "up", running |-> r, status |-> "none"]
      BY <2>1, <3>1, NoCallIsCall
    <3> QED
      BY <2>2, <2>3, <3>1 DEF create_tdvm
  <2>4. CASE delete_tdvm
    <3>1. call.op \notin {"start", "create"}
      BY <2>4, StepKnown DEF delete_tdvm
    <3> QED
      BY <2>1, <2>4, <3>1, NoCallIsCall DEF delete_tdvm
  <2>5. CASE patch_tdvm("on", TRUE)
    BY <2>1, <2>5, NoCallIsCall DEF patch_tdvm
  <2>6. CASE patch_tdvm("off", FALSE)
    <3>1. call.op \notin {"start", "create"}
      BY <2>6, StepKnown DEF patch_tdvm
    <3> QED
      BY <2>1, <2>6, <3>1, NoCallIsCall DEF patch_tdvm
  <2>7. CASE RequestLost
    <3>1. call' = NoCall /\ UNCHANGED vmi
      BY <2>7 DEF RequestLost, NoAnswer, Return
    <3>2. vm'.obj = "absent" => vm.obj = "absent"
      BY <2>7 DEF RequestLost
    <3> QED
      BY <3>1, <3>2, NoCallIsCall
  <2> QED
    BY <1>6, <2>5, <2>2, <2>3, <2>4, <2>6, <2>7
    DEF Step, LookNamespace, PostObject, DeleteObject, PollCreated, PollDeleted, PollTimeout,
        wait_for_tdvm_ready, get_tdvm_ip, state, VmSideUnchanged
<1>7. CASE ControllerVm
  BY <1>7 DEF ControllerVm
<1>8. CASE ControllerReport
  BY <1>8 DEF ControllerReport
<1> QED
  BY <1>1, <1>2, <1>4, <1>5, <1>6, <1>7, <1>8
  DEF Next, Configure, Controllers, ControllerObject, Quiet, vars

-----------------------------------------------------------------------------
LEMMA Initially == Init => IInv
<1> SUFFICES ASSUME Init PROVE IInv
  OBVIOUS
<1>1. vm \in [obj : {"absent", "up", "deleting"}, running : BOOLEAN, status : Reports]
  BY DEF Init, Reports
<1>2. vmi \in [phase : Phases, boots : 0..MaxBoots]
  BY ClusterAssumption DEF Init, Phases
<1>3. /\ conf \in [interval : Nat \ {0}, timeout : Nat \ {0}]
      /\ call \in Calls /\ call.elapsed < conf.timeout + conf.interval
  BY NoCallIsCall DEF Init
<1>4. TypeOK
  BY <1>1, <1>2, <1>3, ClusterAssumption DEF Init, TypeOK, ObjStates, Results
<1>5. CallInv
  <2>1. <<>> \in Seq(VmSteps) /\ <<>> \in Seq(Steps \ {"look"})
    OBVIOUS
  <2> QED
    BY <2>1, NoCallIsCall DEF Init, CallInv
<1>6. InstanceInv
  BY NoCallIsCall DEF Init, InstanceInv
<1> QED
  BY <1>4, <1>5, <1>6 DEF Init, IInv, CreatedStays, DeletedIsGone

LEMMA Invariance == Spec => []IInv
<1>1. IInv /\ [Next]_vars => IInv'
  BY TypeOKStep, CallInvStep, InstanceInvStep, ReportStep DEF IInv
<1> QED
  BY Initially, <1>1, PTL DEF Spec

\* Type correctness of the API server's objects and of the call, the bound on the
\* time a poll loop counts included.
THEOREM TypeCorrect == Spec => []TypeOK
<1>1. IInv => TypeOK
  BY DEF IInv
<1> QED
  BY <1>1, Invariance, PTL

\* For any number of calls and faults: an object whose creation was reported is up
\* until the client deletes it.
THEOREM CreationIsReal == Spec => []CreatedStays
<1>1. IInv => CreatedStays
  BY DEF IInv
<1> QED
  BY <1>1, Invariance, PTL

\* For any number of calls and faults: an object whose deletion was reported,
\* and not by an error that was taken for it, is gone.
THEOREM DeletionIsReal == Spec => []DeletedIsGone
<1>1. IInv => DeletedIsGone
  BY DEF IInv
<1> QED
  BY <1>1, Invariance, PTL

\* start() and create() on a TDVM without an instance return from their wait,
\* before the timeout and without an error, only with a ready instance.
THEOREM StartIsReal == Spec => StartedIsUp
<1>1. ASSUME IInv, [Next]_vars, Returning({"start", "create"}), call.fresh,
             Doing("poll ready"), last' = "done"
      PROVE  vmi.phase = "ready"
  <2>1. call # NoCall /\ call' = NoCall /\ call.op \in {"start", "create"}
    BY <1>1, NoCallIsCall DEF Returning, Doing
  <2>2. Step
    BY <1>1, <2>1
    DEF Next, Configure, CallObject, CallVm, Begin, Controllers, ControllerObject,
        ControllerVm, ControllerReport, Quiet, vars
  <2>3. wait_for_tdvm_ready
    BY <1>1, <2>2
    DEF Step, Doing, Polling, TimedOut, LookNamespace, PostObject, DeleteObject, PollCreated,
        PollDeleted, PollTimeout, create_tdvm, delete_tdvm, patch_tdvm, get_tdvm_ip, state,
        RequestLost, NoAnswer, Return
  <2>4. vm.status = "ready"
    <3>1. ASSUME NEW e \in BOOLEAN, Pause(e) PROVE FALSE
      <4>1. call'.todo = call.todo
        BY <3>1, <1>1 DEF Pause, IInv, TypeOK, Calls
      <4> QED
        BY <1>1, <2>1, <4>1, NoCallIsCall DEF Doing
    <3> QED
      BY <1>1, <2>3, <3>1 DEF wait_for_tdvm_ready, Return
  <2> QED
    BY <1>1, <2>1, <2>4 DEF IInv, InstanceInv
<1>2. IInv /\ [Next]_vars =>
        [Returning({"start", "create"}) /\ call.fresh /\ Doing("poll ready") /\ last' = "done"
           => vmi.phase = "ready"]_vars
  BY <1>1
<1> QED
  BY <1>2, Invariance, PTL DEF Spec, StartedIsUp

-----------------------------------------------------------------------------
(* How long a call can take: the safety half of CallsEnd.                  *)

\* What a step does to a call in progress: end it, go on to the next request,
\* repeat a poll with more time counted and the timeout not reached before, or,
\* when a controller takes it, nothing.  interval and timeout stay meanwhile.
Nearer ==
  call # NoCall =>
    /\ UNCHANGED conf
    /\ \/ call' = NoCall
       \/ Len(call'.todo) < Len(call.todo) /\ call'.elapsed = call.elapsed
       \/ /\ call'.todo = call.todo
          /\ call.elapsed < conf.timeout /\ call'.elapsed > call.elapsed
       \/ Controllers /\ UNCHANGED call

\* The ways a call goes on.
LEMMA MovesNearer ==
  ASSUME TypeOK, UNCHANGED conf, call.todo # <<>>,
         \/ \E r : Return(r)
         \/ Advance
         \/ call.elapsed < conf.timeout /\ \E e \in BOOLEAN : Pause(e)
  PROVE  Nearer
<1>1. CASE \E r : Return(r)
  BY <1>1 DEF Nearer, Return
<1>2. CASE call' = [call EXCEPT !.todo = Tail(@)]
  <2>1. call.todo \in Seq(Steps)
    BY DEF TypeOK, Calls
  <2>2. Len(Tail(call.todo)) < Len(call.todo)
    BY <2>1, LenProperties, EmptySeq
  <2>3. call'.todo = Tail(call.todo) /\ call'.elapsed = call.elapsed
    BY <1>2 DEF TypeOK, Calls
  <2> QED
    BY <2>2, <2>3 DEF Nearer
<1>3. CASE call.elapsed < conf.timeout /\ \E e \in BOOLEAN : Pause(e)
  <2>1. call' = [call EXCEPT !.elapsed = @ + conf.interval]
    BY <1>3 DEF Pause
  <2>2. call.elapsed + conf.interval > call.elapsed
    BY DEF TypeOK, Calls
  <2>3. call'.todo = call.todo /\ call'.elapsed = call.elapsed + conf.interval
    BY <2>1 DEF TypeOK, Calls
  <2> QED
    BY <1>3, <2>2, <2>3 DEF Nearer
<1> QED
  BY <1>1, <1>2, <1>3 DEF Advance

\* Each request and each poll brings the end of its call nearer, whatever the
\* answer.
LEMMA NearerStep == TypeOK /\ [Next]_vars => [Nearer]_vars
<1> SUFFICES ASSUME TypeOK, Next PROVE Nearer
  OBVIOUS
<1>0. \A step : Doing(step) => call.todo # <<>>
  BY DEF Doing
<1>1. Step => UNCHANGED conf
  BY StepData
<1>2. CASE LookNamespace \/ PostObject \/ DeleteObject
  BY <1>0, <1>1, <1>2, MovesNearer DEF LookNamespace, PostObject, DeleteObject, Step
<1>3. CASE PollCreated
  BY <1>0, <1>1, <1>3, MovesNearer DEF PollCreated, Polling, Step
<1>4. CASE PollDeleted
  BY <1>0, <1>1, <1>4, MovesNearer DEF PollDeleted, Polling, Step
<1>5. CASE PollTimeout
  BY <1>0, <1>1, <1>5, MovesNearer DEF PollTimeout, TimedOut, Step
<1>6. CASE create_tdvm \/ delete_tdvm
  BY <1>0, <1>1, <1>6, MovesNearer DEF create_tdvm, delete_tdvm, Step
<1>7. CASE patch_tdvm("on", TRUE) \/ patch_tdvm("off", FALSE)
  BY <1>0, <1>1, <1>7, MovesNearer DEF patch_tdvm, Step
<1>8. CASE wait_for_tdvm_ready
  BY <1>0, <1>1, <1>8, MovesNearer DEF wait_for_tdvm_ready, Polling, Step
<1>9. CASE get_tdvm_ip
  BY <1>0, <1>1, <1>9, MovesNearer DEF get_tdvm_ip, Polling, Step
<1>10. CASE state
  BY <1>0, <1>1, <1>10, MovesNearer DEF state, Step
<1>11. CASE RequestLost
  BY <1>1, <1>11 DEF RequestLost, NoAnswer, Return, Nearer, Step
<1>12. CASE Controllers
  <2>1. UNCHANGED <<call, conf>>
    BY <1>12 DEF Controllers, ControllerObject, ControllerVm, ControllerReport
  <2> QED
    BY <1>12, <2>1 DEF Nearer
<1>13. CASE Configure \/ CallObject \/ CallVm \/ Quiet
  <2>1. call = NoCall
    BY <1>13 DEF Configure, CallObject, CallVm, Quiet, Begin
  <2> QED
    BY <2>1 DEF Nearer
<1> QED
  BY <1>2, <1>3, <1>4, <1>5, <1>6, <1>7, <1>8, <1>9, <1>10, <1>11, <1>12, <1>13 DEF Next, Step

\* Calls of ClusterBase, KubeVirtCluster and VMMKubeVirt: for any interval and
\* timeout the setters accept, even an interval above the timeout, every step
\* leads towards the end of the call, and no poll loop counts more than one
\* interval beyond its timeout.
THEOREM CallsAreBounded ==
  Spec => [][Nearer]_vars /\ [](call.elapsed < conf.timeout + conf.interval)
<1>1. IInv /\ [Next]_vars => [Nearer]_vars
  BY NearerStep DEF IInv
<1>2. IInv => call.elapsed < conf.timeout + conf.interval
  BY DEF IInv, TypeOK
<1> QED
  BY <1>1, <1>2, Invariance, PTL DEF Spec

=============================================================================
