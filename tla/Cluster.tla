------------------------------ MODULE Cluster ------------------------------
(***************************************************************************)
(* The Kubernetes side of pycloudstack: ClusterBase and KubeVirtCluster    *)
(* (cluster.py) and the back end VMMKubeVirt (vmm.py) that a guest uses    *)
(* instead of libvirt.                                                     *)
(*                                                                         *)
(* One thread makes the calls.  Every call is a fixed series of requests   *)
(* to the API server, most of them followed by a loop that polls until a   *)
(* timeout.  Between two requests the controllers of the cluster move: they *)
(* bring objects up, let jobs fail, finish deletions, and start and stop   *)
(* virtual machine instances.  A request may be answered by an error       *)
(* (ApiException) or get no answer at all (an exception of the transport,  *)
(* with the request carried out or not).                                   *)
(*                                                                         *)
(* The objects are one namespace and one deployment, service and job of    *)
(* the namespace "default", and one TDVM.  Time is counted in units of the *)
(* poll loops' own counter.                                                *)
(***************************************************************************)
EXTENDS Integers, Sequences

CONSTANTS
    MaxCalls,       \* bound: calls of the client
    MaxFaults,      \* bound: requests answered by an error or not at all
    MaxBoots,       \* bound: instances the controller starts
    Times           \* the integers given to the two setters

ASSUME ClusterAssumption ==
    /\ MaxCalls \in Nat /\ MaxFaults \in Nat /\ MaxBoots \in Nat
    /\ Times \subseteq Int

VARIABLES
    obj,        \* kind -> state of that object in the API server
    vm,         \* the TDVM: its object, spec.running, reported status
    vmi,        \* its instance: phase, and how many were started so far
    conf,       \* ClusterBase's _interval and _timeout
    call,       \* the call under way: what is left to do, time waited
    last,       \* the result of the call that returned last
    ncalls, faults,
    \* what the properties compare with (no code reads these)
    standing,   \* kind -> "created" or "deleted" once a call said so
    want        \* what the VM calls asked for, "none" after one that failed

vars == <<obj, vm, vmi, conf, call, last, ncalls, faults, standing, want>>

Kinds == {"namespace", "deployment", "service", "job"}

\* An object that is being deleted can still be read, until its finalizers ran.
\* A job that failed keeps saying so (status.failed), also once it has succeeded.
ObjStates == {"absent", "pending", "up", "failed", "recovered", "deleting"}

\* Controllers report a status after a while; until then the key is missing.
Reports == {"none", "notready", "ready"}

Phases == {"none", "starting", "ready", "stopping"}

\* What is left to do of a call, the time its loop has waited, and whether at its
\* beginning there was no instance of the TDVM and no report that could be
\* mistaken for a new one (fresh).
NoCall == [op |-> "idle", kind |-> "none", todo |-> <<>>, elapsed |-> 0,
           fresh |-> FALSE]

Results == {"none", "True", "False", "done", "timeout", "refused", "raised"}

\* The requests that calls are made of.
ObjectSteps == {"look", "post", "delete", "poll created", "poll deleted"}
VmSteps == {"vm post", "vm delete", "on", "off", "poll ready", "poll ip", "vm state"}
Steps == ObjectSteps \cup VmSteps

Calls ==
    [op : {"idle", "create", "delete", "start", "reboot", "shutdown", "destroy",
           "state", "get_ip"},
     kind : Kinds \cup {"vm", "none"}, todo : Seq(Steps),
     elapsed : Nat, fresh : BOOLEAN]

TypeOK ==
    /\ obj \in [Kinds -> ObjStates]
    /\ vm \in [obj : {"absent", "up", "deleting"}, running : BOOLEAN,
               status : Reports]
    /\ vmi \in [phase : Phases, boots : 0..MaxBoots]
    /\ conf \in [interval : Nat \ {0}, timeout : Nat \ {0}]
    /\ call \in Calls
    /\ call.elapsed < conf.timeout + conf.interval
    /\ last \in Results
    /\ ncalls \in 0..MaxCalls /\ faults \in 0..MaxFaults
    /\ standing \in [Kinds -> {"unknown", "created", "deleted"}]
    /\ want \in {"none", "off", "on", "gone"}

Init ==
    /\ obj = [k \in Kinds |-> "absent"]
    /\ vm = [obj |-> "absent", running |-> FALSE, status |-> "none"]
    /\ vmi = [phase |-> "none", boots |-> 0]
    /\ conf = [interval |-> 1, timeout |-> 2]
    /\ call = NoCall
    /\ last = "none"
    /\ ncalls = 0 /\ faults = 0
    /\ standing = [k \in Kinds |-> "unknown"]
    /\ want = "none"

-----------------------------------------------------------------------------
(* The properties interval and timeout: what a setter's condition refuses is *)
(* ignored.  A timeout must exceed the interval, an interval may exceed the  *)
(* timeout.                                                                  *)

set_interval(new) ==
    conf' = IF new > 0 THEN [conf EXCEPT !.interval = new] ELSE conf

set_timeout(new) ==
    conf' = IF new > conf.interval THEN [conf EXCEPT !.timeout = new] ELSE conf

Configure ==
    /\ call = NoCall /\ ncalls < MaxCalls
    /\ ncalls' = ncalls + 1
    /\ \E new \in Times : set_interval(new) \/ set_timeout(new)
    /\ UNCHANGED <<obj, vm, vmi, call, last, faults, standing, want>>

-----------------------------------------------------------------------------
(* The requests each call makes, in order. *)

create_namespace == <<"look", "post", "poll created">>
create_object == <<"post", "poll created">>
delete_object == <<"delete", "poll deleted">>

launch_tdvm == <<"on", "poll ready">>
VMMKubeVirt_create(stop) == <<"vm post">> \o (IF stop THEN <<>> ELSE launch_tdvm)
\* Mutant: the two halves are swapped.
RebootSwapped == launch_tdvm \o <<"off">>

VMMKubeVirt_reboot == <<"off">> \o launch_tdvm

VmCalls ==
    {<<"create", VMMKubeVirt_create(TRUE)>>, <<"create", VMMKubeVirt_create(FALSE)>>,
     <<"start", launch_tdvm>>, <<"reboot", VMMKubeVirt_reboot>>,
     <<"shutdown", <<"off">> >>, <<"destroy", <<"vm delete">> >>,
     <<"state", <<"vm state">> >>, <<"get_ip", <<"poll ip">> >>}

\* Nothing of an earlier instance is left that could be taken for a new one.
Fresh == vmi.phase = "none" /\ vm.status # "ready" /\ vm.obj # "deleting"

Begin(op, k, todo) ==
    /\ call = NoCall /\ ncalls < MaxCalls
    /\ ncalls' = ncalls + 1
    /\ call' = [NoCall EXCEPT !.op = op, !.kind = k, !.todo = todo,
                              !.fresh = Fresh]
    /\ last' = "none"
    /\ UNCHANGED <<obj, vm, vmi, conf, faults>>

CallObject ==
    \E k \in Kinds :
        /\ \/ Begin("create", k, IF k = "namespace" THEN create_namespace
                                                    ELSE create_object)
           \/ Begin("delete", k, delete_object)
        /\ standing' = [standing EXCEPT ![k] = "unknown"]
        /\ UNCHANGED want

CallVm ==
    \E c \in VmCalls :
        /\ Begin(c[1], "vm", c[2])
        /\ want' = CASE c[2][Len(c[2])] = "poll ready" -> "on"
                     [] c[1] = "shutdown" -> "off"
                     [] c[1] = "destroy" -> "gone"
                     [] OTHER -> want
        /\ UNCHANGED standing

-----------------------------------------------------------------------------
(* One request of the call under way and what the client does on its answer. *)

Doing(step) == call.todo # <<>> /\ Head(call.todo) = step

Return(r) ==
    /\ call' = NoCall
    /\ last' = r

\* The next step of the call; after the last one the call has returned.
Advance ==
    IF Len(call.todo) = 1 THEN Return("done")
    ELSE /\ call' = [call EXCEPT !.todo = Tail(@)]
         /\ UNCHANGED last

\* The request is answered by an error and has no effect.
Error == faults < MaxFaults /\ faults' = faults + 1

\* The answer is an error, because of the state or for another reason.
Refused(cond) == (cond /\ UNCHANGED faults) \/ Error

\* No answer comes: the transport's exception is caught nowhere.
NoAnswer ==
    /\ Error
    /\ Return("raised")
    /\ want' = IF call.kind = "vm" THEN "none" ELSE want
    /\ UNCHANGED standing

VmSideUnchanged == UNCHANGED <<vm, vmi, conf, ncalls, want>>

\* A namespace and a service are there at once, the others need controllers.
Created(k) == IF k \in {"namespace", "service"} THEN "up" ELSE "pending"

Concluded(as) == standing' = [standing EXCEPT ![call.kind] = as]

\* Mutant: the phase of a namespace that exists is not looked at.
LookNamespacePresent ==
    /\ Doing("look")
    /\ \/ /\ obj["namespace"] # "absent"
          /\ Return("True") /\ Concluded("created")
          /\ UNCHANGED faults
       \/ /\ Refused(obj["namespace"] = "absent")
          /\ Advance
          /\ UNCHANGED standing
    /\ UNCHANGED obj /\ VmSideUnchanged

\* create_namespace reads first: one that is there is only accepted when active,
\* any error sends the call on to create it.
LookNamespace ==
    /\ Doing("look")
    /\ \/ /\ obj["namespace"] = "up"
          /\ Return("True") /\ Concluded("created")
          /\ UNCHANGED faults
       \/ /\ obj["namespace"] = "deleting"
          /\ Return("False")
          /\ UNCHANGED <<faults, standing>>
       \/ /\ Refused(obj["namespace"] = "absent")
          /\ Advance
          /\ UNCHANGED standing
    /\ UNCHANGED obj /\ VmSideUnchanged

\* create_namespaced_*: an object of that name, one in deletion too, is an error,
\* and errors are not caught.
PostObject ==
    LET k == call.kind
    IN  /\ Doing("post")
        /\ \/ /\ obj[k] = "absent"
              /\ obj' = [obj EXCEPT ![k] = Created(k)]
              /\ Advance
              /\ UNCHANGED faults
           \/ /\ Refused(obj[k] # "absent")
              /\ Return("raised")
              /\ UNCHANGED obj
        /\ UNCHANGED standing /\ VmSideUnchanged

\* delete_namespaced_*: errors, "not found" too, are not caught.
DeleteObject ==
    LET k == call.kind
    IN  /\ Doing("delete")
        /\ \/ /\ obj[k] # "absent"
              /\ obj' = [obj EXCEPT ![k] = "deleting"]
              /\ Advance
              /\ UNCHANGED faults
           \/ /\ Refused(obj[k] = "absent")
              /\ Return("raised")
              /\ UNCHANGED obj
        /\ UNCHANGED standing /\ VmSideUnchanged

\* Mutant: the time is only counted after a poll that was answered.
PauseAnswered(err) ==
    /\ call' = [call EXCEPT !.elapsed = IF err THEN @ ELSE @ + conf.interval]
    /\ UNCHANGED last

\* One more round of a poll loop: time.sleep(interval); interval += ...  An
\* ApiException (err) is logged and makes no difference.
Pause(err) ==
    /\ call' = [call EXCEPT !.elapsed = @ + conf.interval]
    /\ UNCHANGED last

Polling(step) == Doing(step) /\ call.elapsed < conf.timeout
TimedOut(step) == Doing(step) /\ call.elapsed >= conf.timeout

\* wait_for_namespace, _deployement, _service, _job with expect=CREATED.
PollCreated ==
    LET k == call.kind
    IN  /\ Polling("poll created")
        /\ \/ /\ obj[k] = "up"
              /\ Return("True") /\ Concluded("created")
              /\ UNCHANGED faults
           \/ /\ obj[k] \in {"failed", "recovered"}
              /\ Return("False")
              /\ UNCHANGED <<faults, standing>>
           \/ /\ obj[k] = "pending"
              /\ Pause(FALSE)
              /\ UNCHANGED <<faults, standing>>
           \/ /\ Error
              /\ Pause(TRUE)
              /\ UNCHANGED standing
        /\ UNCHANGED obj /\ VmSideUnchanged

\* Mutant: an object marked for deletion counts as deleted.
PollDeletedMarked ==
    /\ Polling("poll deleted")
    /\ Return("True") /\ Concluded("deleted")
    /\ UNCHANGED <<obj, faults>> /\ VmSideUnchanged

\* The same with expect=DELETED: every ApiException is taken for "not found".
PollDeleted ==
    LET k == call.kind
    IN  /\ Polling("poll deleted")
        /\ \/ /\ obj[k] = "absent"
              /\ Return("True") /\ Concluded("deleted")
              /\ UNCHANGED faults
           \/ /\ Error
              /\ Return("True")
              /\ UNCHANGED standing
           \/ /\ obj[k] # "absent"
              /\ Pause(FALSE)
              /\ UNCHANGED <<faults, standing>>
        /\ UNCHANGED obj /\ VmSideUnchanged

PollTimeout ==
    /\ \/ /\ TimedOut("poll created") \/ TimedOut("poll deleted")
          /\ Return("False")
       \/ /\ TimedOut("poll ready") \/ TimedOut("poll ip")
          /\ Return("timeout")
    /\ UNCHANGED <<obj, faults, standing>> /\ VmSideUnchanged

-----------------------------------------------------------------------------
(* KubeVirtCluster: errors are logged and the caller is told nothing.        *)

\* A conflict counts as created, also when the TDVM there is being deleted; the
\* result, False on another error included, is dropped by VMMKubeVirt.create.
create_tdvm ==
    /\ Doing("vm post")
    /\ \/ /\ vm.obj = "absent"
          /\ \E running \in BOOLEAN :     \* spec.running of the template
                /\ vm' = [obj |-> "up", running |-> running, status |-> "none"]
                /\ want' = CASE Len(call.todo) > 1 -> want
                             [] running -> "on"
                             [] OTHER -> "off"
          /\ UNCHANGED faults
       \/ /\ vm.obj # "absent"
          /\ want' = IF vm.obj = "deleting" THEN "gone" ELSE want
          /\ UNCHANGED <<vm, faults>>
       \/ /\ Error
          /\ want' = "none"
          /\ UNCHANGED vm
    /\ Advance
    /\ UNCHANGED <<obj, vmi, conf, ncalls, standing>>

delete_tdvm ==
    /\ Doing("vm delete")
    /\ \/ /\ vm.obj # "absent"
          /\ vm' = [vm EXCEPT !.obj = "deleting"]
          /\ UNCHANGED <<faults, want>>
       \/ /\ vm.obj = "absent"
          /\ UNCHANGED <<vm, faults, want>>
       \/ /\ Error
          /\ want' = "none"
          /\ UNCHANGED vm
    /\ Advance
    /\ UNCHANGED <<obj, vmi, conf, ncalls, standing>>

\* The patch of spec.running.  After an error launch_tdvm does not wait; reboot
\* goes on from shutdown_tdvm to launch_tdvm whatever came back.
patch_tdvm(step, running) ==
    /\ Doing(step)
    /\ \/ /\ vm.obj # "absent"
          /\ vm' = [vm EXCEPT !.running = running]
          /\ want' = IF vm.obj = "deleting" THEN "gone" ELSE want
          /\ Advance
          /\ UNCHANGED faults
       \/ /\ Refused(vm.obj = "absent")
          /\ want' = "none"
          /\ IF running THEN Return("refused") ELSE Advance
          /\ UNCHANGED vm
    /\ UNCHANGED <<obj, vmi, conf, ncalls, standing>>

\* Mutant: the key "ready" is looked for and its value is not.
ReadyKeyOnly ==
    /\ Polling("poll ready")
    /\ \/ vm.obj # "absent" /\ vm.status # "none" /\ Return("done")
       \/ vm.obj = "absent" /\ Pause(TRUE)
    /\ UNCHANGED <<obj, faults, standing>> /\ VmSideUnchanged

\* wait_for_tdvm_ready: a status that is not there yet is a KeyError.
wait_for_tdvm_ready ==
    /\ Polling("poll ready")
    /\ \/ /\ vm.obj # "absent"
          /\ \/ vm.status = "ready" /\ Return("done")
             \/ vm.status = "none" /\ Return("raised")
             \/ vm.status = "notready" /\ Pause(FALSE)
          /\ UNCHANGED faults
       \/ /\ Refused(vm.obj = "absent")
          /\ Pause(TRUE)
    /\ UNCHANGED <<obj, standing>> /\ VmSideUnchanged

\* get_tdvm_ip: polls the instance; a new one may have no status (KeyError) or no
\* interfaces yet.
get_tdvm_ip ==
    /\ Polling("poll ip")
    /\ \/ /\ vmi.phase \in {"ready", "stopping"}
          /\ Return("done")
          /\ UNCHANGED faults
       \/ /\ vmi.phase = "starting"
          /\ Return("raised") \/ Pause(FALSE)
          /\ UNCHANGED faults
       \/ /\ Refused(vmi.phase = "none")
          /\ Pause(TRUE)
    /\ UNCHANGED <<obj, standing>> /\ VmSideUnchanged

\* state(): neither an ApiException nor a missing status is caught.
state ==
    /\ Doing("vm state")
    /\ \/ /\ vm.obj # "absent" /\ vm.status # "none"
          /\ Return("done")
          /\ UNCHANGED faults
       \/ /\ vm.obj = "absent" \/ vm.status = "none"
          /\ Return("raised")
          /\ UNCHANGED faults
       \/ Error /\ Return("raised")
    /\ UNCHANGED <<obj, standing>> /\ VmSideUnchanged

\* A request without an answer, carried out or not.
RequestLost ==
    /\ call # NoCall
    /\ NoAnswer
    /\ \/ UNCHANGED <<obj, vm>>
       \/ /\ Doing("post") /\ obj[call.kind] = "absent"
          /\ obj' = [obj EXCEPT ![call.kind] = Created(call.kind)]
          /\ UNCHANGED vm
       \/ /\ Doing("delete") /\ obj[call.kind] # "absent"
          /\ obj' = [obj EXCEPT ![call.kind] = "deleting"]
          /\ UNCHANGED vm
       \/ /\ Doing("vm post") /\ vm.obj = "absent"
          /\ \E running \in BOOLEAN :
                vm' = [obj |-> "up", running |-> running, status |-> "none"]
          /\ UNCHANGED obj
       \/ /\ Doing("vm delete") /\ vm.obj = "up"
          /\ vm' = [vm EXCEPT !.obj = "deleting"]
          /\ UNCHANGED obj
       \/ /\ Doing("on") \/ Doing("off")
          /\ vm.obj # "absent"
          /\ vm' = [vm EXCEPT !.running = Doing("on")]
          /\ UNCHANGED obj
    /\ UNCHANGED <<vmi, conf, ncalls>>

-----------------------------------------------------------------------------
(* The controllers of the cluster (outside this repository).                 *)

\* Objects come up, a pod of a job fails and is tried again, deletions finish.
ControllerObject ==
    /\ \E k \in Kinds :
        \/ /\ obj[k] = "pending"
           /\ obj' = [obj EXCEPT ![k] = "up"]
        \/ /\ k = "job" /\ obj[k] = "pending"
           /\ obj' = [obj EXCEPT ![k] = "failed"]
        \/ /\ obj[k] = "failed"
           /\ obj' = [obj EXCEPT ![k] = "recovered"]
        \/ /\ obj[k] = "deleting"
           /\ obj' = [obj EXCEPT ![k] = "absent"]
    /\ UNCHANGED <<vm, vmi, conf, call, last, ncalls, faults, standing, want>>

Wanted == vm.obj = "up" /\ vm.running

\* It compares the specification it sees now with the instance: two patches
\* between two looks are one.
ControllerVm ==
    /\ \/ /\ Wanted /\ vmi.phase = "none" /\ vmi.boots < MaxBoots
          /\ vmi' = [phase |-> "starting", boots |-> vmi.boots + 1]
          /\ UNCHANGED vm
       \/ /\ vmi.phase = "starting"
          /\ vmi' = [vmi EXCEPT !.phase = "ready"]
          /\ UNCHANGED vm
       \/ /\ ~Wanted /\ vmi.phase \in {"starting", "ready"}
          /\ vmi' = [vmi EXCEPT !.phase = "stopping"]
          /\ UNCHANGED vm
       \/ /\ vmi.phase = "stopping"
          /\ vmi' = [vmi EXCEPT !.phase = "none"]
          /\ UNCHANGED vm
       \/ /\ vm.obj = "deleting" /\ vmi.phase = "none"
          /\ vm' = [obj |-> "absent", running |-> FALSE, status |-> "none"]
          /\ UNCHANGED vmi
    /\ UNCHANGED <<obj, conf, call, last, ncalls, faults, standing, want>>

\* The status of the TDVM follows its instance with a delay.
ControllerReport ==
    LET now == IF vmi.phase = "ready" THEN "ready" ELSE "notready"
    IN  /\ vm.obj # "absent" /\ vm.status # now
        /\ vm' = [vm EXCEPT !.status = now]
        /\ UNCHANGED <<obj, vmi, conf, call, last, ncalls, faults, standing, want>>

-----------------------------------------------------------------------------

Step ==
    \/ LookNamespace \/ PostObject \/ DeleteObject
    \/ PollCreated \/ PollDeleted \/ PollTimeout
    \/ create_tdvm \/ delete_tdvm
    \/ patch_tdvm("on", TRUE) \/ patch_tdvm("off", FALSE)
    \/ wait_for_tdvm_ready \/ get_tdvm_ip \/ state
    \/ RequestLost

Controllers == ControllerObject \/ ControllerVm \/ ControllerReport

\* The client has made its calls; the controllers have nothing left to do.
Quiet == ncalls = MaxCalls /\ call = NoCall /\ UNCHANGED vars

Next == Configure \/ CallObject \/ CallVm \/ Step \/ Controllers \/ Quiet

\* A call that has begun goes on (its thread runs); the controllers keep acting.
Spec ==
    /\ Init /\ [][Next]_vars
    /\ WF_vars(Step)
    /\ WF_vars(ControllerObject) /\ WF_vars(ControllerVm)
    /\ WF_vars(ControllerReport)

-----------------------------------------------------------------------------
(* Properties *)

(***************************************************************************)
(* An object that create_namespace, create_deployment, create_service or   *)
(* create_job reported as created (True) is there, up, and not on its way  *)
(* out, until the client deletes it: in particular a namespace that an     *)
(* earlier delete_namespace, timed out or cut off, still removes is never  *)
(* taken for one that can be used.                                         *)
(***************************************************************************)
CreatedStays == \A k \in Kinds : standing[k] = "created" => obj[k] = "up"

(***************************************************************************)
(* delete_namespace, delete_deployment, delete_service and delete_job only *)
(* report True, when no poll of theirs was answered by an error other than *)
(* "not found", once the object is gone: its name is free for the next     *)
(* create, however long the finalizers took.                               *)
(***************************************************************************)
DeletedIsGone == \A k \in Kinds : standing[k] = "deleted" => obj[k] = "absent"

(***************************************************************************)
(* start(), and create(stop_at_begining=False), on a TDVM that had neither *)
(* an instance nor a ready report, return before their timeout and without *)
(* an error only when an instance is ready: wait_for_tdvm_ready is not      *)
(* satisfied by a status that is still about nothing.  (The wait of        *)
(* reboot() may be, by the report of the instance that is to stop.)         *)
(***************************************************************************)
Returning(ops) == call.op \in ops /\ call' = NoCall

StartedIsUp ==
    [][Returning({"start", "create"}) /\ call.fresh
         /\ Doing("poll ready") /\ last' = "done"
       => vmi.phase = "ready"]_vars

\* A call about an object is about the one it names, of which nothing is known
\* until it returns; start() and create() neither stop nor delete a TDVM.
CallInv ==
    /\ call.kind \in Kinds => standing[call.kind] = "unknown"
    /\ call.kind \notin Kinds => call.todo \in Seq(VmSteps)
    /\ call.kind # "namespace" => call.todo \in Seq(Steps \ {"look"})
    /\ call.op \in {"start", "create"} => call.todo \in Seq(Steps \ {"off", "vm delete"})

\* An instance belongs to a TDVM.  Since a fresh call began, an instance is one
\* that is wanted, and a report of readiness is about it.
InstanceInv ==
    /\ vm.obj = "absent" => vmi.phase = "none"
    /\ call.op \in {"start", "create"} /\ call.fresh =>
         /\ vm.obj # "deleting"
         /\ vm.status = "ready" => vmi.phase = "ready"
         /\ vmi.phase # "none" => vmi.phase \in {"starting", "ready"} /\ Wanted

\* The inductive invariant.
IInv == TypeOK /\ CallInv /\ InstanceInv /\ CreatedStays /\ DeletedIsGone

(***************************************************************************)
(* Every call of ClusterBase, KubeVirtCluster and VMMKubeVirt returns or   *)
(* raises: whatever values the setters were given, and whether or not the  *)
(* object ever comes up or goes away, the poll loops end.                  *)
(***************************************************************************)
CallsEnd == (call # NoCall) ~> (call = NoCall)

(***************************************************************************)
(* Once the client stops calling, and if its last VM call met no error, the *)
(* TDVM ends up where that call wanted it: running and reported ready after *)
(* start() and reboot(), without an instance after shutdown(), gone after  *)
(* destroy().  A TDVM in deletion counts as gone: create() and start() on  *)
(* it cannot bring it back.                                                *)
(***************************************************************************)
AtRest(w) == ncalls = MaxCalls /\ call = NoCall /\ want = w

Converges ==
    /\ AtRest("on") ~> (vmi.phase = "ready" /\ vm.status = "ready")
    /\ AtRest("off") ~> (vmi.phase = "none" /\ vm.status = "notready")
    /\ AtRest("gone") ~> (vmi.phase = "none" /\ vm.obj = "absent")

=============================================================================
