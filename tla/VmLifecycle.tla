---------------------------- MODULE VmLifecycle ----------------------------
(***************************************************************************)
(* The life of the guests of one VMGuestFactory: VMGuestFactory and        *)
(* VMGuest (vmguest.py), their libvirt back end VMMLibvirt (vmm.py) and    *)
(* the disk images of vmimg.py.                                            *)
(*                                                                         *)
(* One Python thread (a test) calls the factory.  Every call to libvirt    *)
(* and every deletion of a file is a step of its own, because the guest    *)
(* may power off, and libvirt or the OS may refuse, between any two.       *)
(***************************************************************************)
EXTENDS Naturals, FiniteSets

CONSTANTS
  VMs,        \* the guests new_vm may create; names carry a time stamp, so
              \* each is created at most once
  Disks,      \* disk images a caller may pass as new_vm's disk_img
  NoVM,       \* no guest is being operated on
  NoDisk,     \* the guest does not exist yet
  Calls,      \* the calls on a guest the tests make, by their first step
  WaitLimit,  \* polls of wait_for_state before it gives up
  MaxFaults   \* bound: failures of libvirt, the OS or a constructor

ASSUME VmAssumption ==
  /\ VMs \cap Disks = {}
  /\ NoVM \notin VMs
  /\ NoDisk \notin VMs \cup Disks
  /\ WaitLimit \in Nat \ {0} /\ MaxFaults \in Nat

VARIABLES
  vms,        \* VMGuestFactory.vms: the guests the factory will remove
  keepIssue,  \* VMGuestFactory._keep_issue_vm
  keep,       \* VMGuest.keep of every guest
  disk,       \* VMGuest.image: its own clone (the guest's name) or a caller's
  images,     \* image files that exist
  xmls,       \* guests whose libvirt XML file exists
  logs,       \* guests whose console log exists
  dom,        \* the libvirt domain of every guest
  persistent, \* guests whose domain is defined, not only running
  refused,    \* history: what failed underneath: the constructor, or what
              \* libvirt or the OS refused to delete
  cmd,        \* the guest's last SSH command
  beside,     \* guests of which earlier commands run beside the last one
  failed,     \* history: guests one of whose SSH commands failed
  pc, cur,    \* the call in progress: next step, and guest
  opts,       \* its options
  todo,       \* the guests removeall() still has to visit
  goal, count \* wait_for_state: state waited for, polls done

factoryVars == <<vms, keepIssue, keep, disk>>
fileVars    == <<images, xmls, logs>>
domVars     == <<dom, persistent>>
histVars    == <<refused, failed>>
callVars    == <<pc, cur, opts, todo, goal, count>>
cmdVars     == <<cmd, beside>>
vars        == <<factoryVars, fileVars, domVars, histVars, cmdVars, callVars>>

DomStates == {"none", "shutoff", "running", "paused", "shutdown"}
PCs == {"idle", "ctor", "define", "create", "start", "resume", "doResume",
        "suspend", "doSuspend", "ask", "ssh", "sshNoWait",
        "waitCheck", "waitCompare", "lookup", "isActive", "kill", "undefine",
        "delXml", "delImage", "delLog", "unregister", "removeall"}
DestroyOpts == {"undefine", "image", "log"}
Options     == DestroyOpts \cup {"unregister", "auto", "start"}
Refusals    == {"ctor", "lookup", "destroy", "undefine", "xml", "image", "log"}

CallTypeOK ==
  /\ pc \in PCs /\ cur \in VMs \cup {NoVM} /\ opts \in SUBSET Options
  /\ todo \in SUBSET VMs
  /\ goal \in DomStates /\ count \in 0..WaitLimit

TypeOK ==
  /\ CallTypeOK
  /\ vms \in SUBSET VMs /\ keepIssue \in BOOLEAN /\ keep \in SUBSET VMs
  /\ disk \in [VMs -> VMs \cup Disks \cup {NoDisk}]
  /\ images \in SUBSET (VMs \cup Disks)
  /\ xmls \in SUBSET VMs /\ logs \in SUBSET VMs
  /\ dom \in [VMs -> DomStates] /\ persistent \in SUBSET VMs
  /\ refused \in SUBSET (VMs \X Refusals)
  /\ cmd \in [VMs -> {"none", "running", "ok", "fail"}]
  /\ failed \in SUBSET VMs /\ beside \in SUBSET VMs

Init ==
  /\ vms = {} /\ keepIssue = FALSE /\ keep = {}
  /\ disk = [v \in VMs |-> NoDisk] /\ images = Disks
  /\ xmls = {} /\ logs = {}
  /\ dom = [v \in VMs |-> "none"] /\ persistent = {}
  /\ refused = {}
  /\ cmd = [v \in VMs |-> "none"] /\ beside = {} /\ failed = {}
  /\ pc = "idle" /\ cur = NoVM /\ opts = {} /\ todo = {}
  /\ goal = "none" /\ count = 0

Active(v) == dom[v] \in {"running", "paused", "shutdown"}

-----------------------------------------------------------------------------
(* Control flow of the calling thread.                                     *)

\* Begin a call on guest v at step p.  Tests operate on the guests of their
\* factory only.
Call(v, p, o) ==
  /\ pc = "idle" /\ v \in vms /\ p \in Calls
  /\ pc' = p /\ cur' = v /\ opts' = o
  /\ UNCHANGED <<todo, goal, count>>

Goto(p) == pc' = p /\ UNCHANGED <<cur, opts, todo, goal, count>>

\* A call returns; inside removeall() the loop goes on.
Return ==
  /\ pc' = IF todo = {} THEN "idle" ELSE "removeall"
  /\ cur' = NoVM /\ opts' = {} /\ goal' = "none" /\ count' = 0
  /\ UNCHANGED todo

\* An exception leaves the call, and removeall() with it.
Raise ==
  /\ pc' = "idle" /\ cur' = NoVM /\ opts' = {} /\ todo' = {}
  /\ goal' = "none" /\ count' = 0

Refuse(r) ==
  /\ Cardinality(refused) < MaxFaults
  /\ refused' = refused \cup {<<cur, r>>}

Refused(v, R) == \E r \in R : <<v, r>> \in refused

-----------------------------------------------------------------------------
(* VMGuestFactory.new_vm and VMGuest.__init__                              *)

\* The clone is made before the VMGuest object exists.
NewVm(v, d, auto) ==
  /\ pc = "idle" /\ disk[v] = NoDisk
  /\ disk' = [disk EXCEPT ![v] = d]
  /\ images' = images \cup {d}
  /\ pc' = "ctor" /\ cur' = v /\ opts' = IF auto THEN {"auto"} ELSE {}
  /\ UNCHANGED <<vms, keepIssue, keep, xmls, logs, domVars, histVars, cmdVars,
                 todo, goal, count>>

NewVmClone(v, auto) == NewVm(v, v, auto)

NewVmDiskImg(v, auto) ==
  \E d \in Disks \cap images : NewVm(v, d, auto)

\* VMGuest(...) succeeds: VirtXml.clone has saved the XML, the factory
\* registers the guest, and auto_start goes on with create() and start().
Construct ==
  /\ pc = "ctor"
  /\ xmls' = xmls \cup {cur}
  /\ vms' = vms \cup {cur}
  /\ IF "auto" \in opts THEN Goto("define") ELSE Return
  /\ UNCHANGED <<keepIssue, keep, disk, images, logs, domVars, histVars, cmdVars>>

\* VMGuest(...) raises (no kernel, no libvirt, bad domain option), before or
\* after the XML is saved: the guest is never registered.
ConstructFails ==
  /\ pc = "ctor"
  /\ \/ xmls' = xmls
     \/ xmls' = xmls \cup {cur}
  /\ Refuse("ctor")
  /\ Raise
  /\ UNCHANGED <<factoryVars, images, logs, domVars, failed, cmdVars>>

-----------------------------------------------------------------------------
(* VMMLibvirt.create: defineXML, then domain.create()                      *)

Create(v) ==
  /\ Call(v, "define", {})
  /\ UNCHANGED <<factoryVars, fileVars, domVars, histVars, cmdVars>>

DefineXML ==
  /\ pc = "define"
  /\ \/ /\ dom' = [dom EXCEPT ![cur] = IF @ = "none" THEN "shutoff" ELSE @]
        /\ persistent' = persistent \cup {cur}
        /\ Goto("create")
     \/ Raise /\ UNCHANGED domVars
  /\ UNCHANGED <<factoryVars, fileVars, histVars, cmdVars>>

\* libvirt starts a domain that is defined and shut off, if its disk is there.
DomainCreate ==
  /\ pc = "create"
  /\ \/ /\ dom[cur] = "shutoff" /\ disk[cur] \in images
        /\ dom' = [dom EXCEPT ![cur] = "running"]
        /\ logs' = logs \cup {cur}
        /\ IF "auto" \in opts THEN Goto("start") ELSE Return
     \/ Raise /\ UNCHANGED <<dom, logs>>
  /\ UNCHANGED <<factoryVars, images, xmls, persistent, histVars, cmdVars>>

-----------------------------------------------------------------------------
(* VMMLibvirt.start, suspend, resume, reboot, shutdown: a state is read    *)
(* first and acted on by a later call.  A missing domain raises.           *)

Start(v) ==
  /\ Call(v, "start", {})
  /\ UNCHANGED <<factoryVars, fileVars, domVars, histVars, cmdVars>>

\* is_shutoff() decides between domain.create() and resume().
StartCheck ==
  /\ pc = "start"
  /\ \/ /\ dom[cur] = "shutoff"
        /\ pc' = "create" /\ opts' = {"start"}
        /\ UNCHANGED <<cur, todo, goal, count>>
     \/ dom[cur] \notin {"none", "shutoff"} /\ Goto("resume")
     \/ Raise
  /\ UNCHANGED <<factoryVars, fileVars, domVars, histVars, cmdVars>>

Resume(v) ==
  /\ Call(v, "resume", {})
  /\ UNCHANGED <<factoryVars, fileVars, domVars, histVars, cmdVars>>

ResumeCheck ==
  /\ pc = "resume"
  /\ \/ dom[cur] = "running" /\ Return
     \/ dom[cur] \notin {"none", "running"} /\ Goto("doResume")
     \/ Raise
  /\ UNCHANGED <<factoryVars, fileVars, domVars, histVars, cmdVars>>

\* libvirt resumes an active domain and refuses an inactive one.
DoResume ==
  /\ pc = "doResume"
  /\ \/ /\ Active(cur)
        /\ dom' = [dom EXCEPT ![cur] = IF @ = "paused" THEN "running" ELSE @]
        /\ Return
     \/ Raise /\ UNCHANGED dom
  /\ UNCHANGED <<factoryVars, fileVars, persistent, histVars, cmdVars>>

Suspend(v) ==
  /\ Call(v, "suspend", {})
  /\ UNCHANGED <<factoryVars, fileVars, domVars, histVars, cmdVars>>

\* A guest that is not running is left alone and no error is reported.
SuspendCheck ==
  /\ pc = "suspend"
  /\ \/ dom[cur] = "running" /\ Goto("doSuspend")
     \/ dom[cur] \notin {"none", "running"} /\ Return
     \/ Raise
  /\ UNCHANGED <<factoryVars, fileVars, domVars, histVars, cmdVars>>

DoSuspend ==
  /\ pc = "doSuspend"
  /\ \/ /\ Active(cur)
        /\ dom' = [dom EXCEPT ![cur] = "paused"]
        /\ Return
     \/ Raise /\ UNCHANGED dom
  /\ UNCHANGED <<factoryVars, fileVars, persistent, histVars, cmdVars>>

\* reboot() and shutdown() ask an active guest and return at once; a guest
\* that obeys a shutdown does so later, in GuestPowerOff, and a reboot keeps
\* the domain running (on_reboot: restart).
Ask(v) ==
  /\ Call(v, "ask", {})
  /\ UNCHANGED <<factoryVars, fileVars, domVars, histVars, cmdVars>>

AskGuest ==
  /\ pc = "ask"
  /\ \/ Active(cur) /\ Return
     \/ Raise
  /\ UNCHANGED <<factoryVars, fileVars, domVars, histVars, cmdVars>>

-----------------------------------------------------------------------------
(* VMGuest.ssh_run                                                         *)

\* The runner thread is started; with no_wait the caller goes straight on, and
\* may start another command while the first one runs.  A get_ip() or chmod that
\* raises ends the call before anything has changed, which is no step here.
SshRun(v, noWait) ==
  /\ Call(v, IF noWait THEN "sshNoWait" ELSE "ssh", {})
  /\ cmd' = [cmd EXCEPT ![v] = "running"]
  /\ beside' = IF cmd[v] = "running" THEN beside \cup {v} ELSE beside
  /\ UNCHANGED <<factoryVars, fileVars, domVars, histVars>>

\* The command ends, in the runner's own thread.
CommandEnds(v) ==
  /\ cmd[v] = "running"
  /\ \E r \in {"ok", "fail"} :
       /\ cmd' = [cmd EXCEPT ![v] = r]
       /\ failed' = IF r = "fail" THEN failed \cup {v} ELSE failed
  /\ UNCHANGED <<factoryVars, fileVars, domVars, refused, beside, callVars>>

\* One of the earlier commands ends, the last of them or not.
EarlierEnds(v) ==
  /\ v \in beside
  /\ beside' \in {beside, beside \ {v}}
  /\ failed' \in {failed, failed \cup {v}}
  /\ UNCHANGED <<factoryVars, fileVars, domVars, refused, cmd, callVars>>

\* Mutant: a retcode of None is not counted as a failure.
SshReturnNoneIsFine ==
  /\ \/ pc = "ssh" /\ cmd[cur] # "running"
     \/ pc = "sshNoWait"
  /\ keep' = IF cmd[cur] = "fail" THEN keep \cup {cur} ELSE keep
  /\ Return
  /\ UNCHANGED <<vms, keepIssue, disk, fileVars, domVars, histVars, cmdVars>>

\* runner.retcode is compared with 0; it is None while the command runs,
\* which only a caller that did not wait can see.
SshReturn ==
  /\ \/ pc = "ssh" /\ cmd[cur] # "running"
     \/ pc = "sshNoWait"
  /\ keep' = IF cmd[cur] = "ok" THEN keep ELSE keep \cup {cur}
  /\ Return
  /\ UNCHANGED <<vms, keepIssue, disk, fileVars, domVars, histVars, cmdVars>>

-----------------------------------------------------------------------------
(* VMGuest.wait_for_state: the state is read once to assert it is known    *)
(* and a second time to compare it.                                        *)

WaitForState(v, s) ==
  /\ pc = "idle" /\ v \in vms /\ "waitCheck" \in Calls
  /\ pc' = "waitCheck" /\ cur' = v /\ goal' = s /\ count' = 0
  /\ UNCHANGED <<factoryVars, fileVars, domVars, histVars, cmdVars, opts, todo>>

\* Mutant: the loop polls once too often.
WaitCheckOnceMore ==
  /\ pc = "waitCheck"
  /\ \/ count > WaitLimit /\ Return
     \/ count <= WaitLimit /\ dom[cur] # "none" /\ Goto("waitCompare")
     \/ count <= WaitLimit /\ Raise
  /\ UNCHANGED <<factoryVars, fileVars, domVars, histVars, cmdVars>>

WaitCheck ==
  /\ pc = "waitCheck"
  /\ \/ count = WaitLimit /\ Return
     \/ count < WaitLimit /\ dom[cur] # "none" /\ Goto("waitCompare")
     \/ count < WaitLimit /\ Raise
  /\ UNCHANGED <<factoryVars, fileVars, domVars, histVars, cmdVars>>

\* Mutant: a failed poll is not counted.
WaitCompareNoCount ==
  /\ pc = "waitCompare"
  /\ \/ dom[cur] = goal /\ Return
     \/ /\ dom[cur] \notin {"none", goal}
        /\ pc' = "waitCheck"
        /\ UNCHANGED <<cur, opts, todo, goal, count>>
     \/ Raise
  /\ UNCHANGED <<factoryVars, fileVars, domVars, histVars, cmdVars>>

WaitCompare ==
  /\ pc = "waitCompare"
  /\ \/ dom[cur] = goal /\ Return
     \/ /\ dom[cur] \notin {"none", goal}
        /\ pc' = "waitCheck" /\ count' = count + 1
        /\ UNCHANGED <<cur, opts, todo, goal>>
     \/ Raise
  /\ UNCHANGED <<factoryVars, fileVars, domVars, histVars, cmdVars>>

-----------------------------------------------------------------------------
(* VMGuest.destroy over VMMLibvirt.destroy, VMImage.destroy, delete_log.   *)
(* Every error is logged and swallowed: the steps after it still happen.   *)

Destroy(v, o) ==
  /\ Call(v, "lookup", o)
  /\ UNCHANGED <<factoryVars, fileVars, domVars, histVars, cmdVars>>

\* _get_domain() turns every libvirt error into None, "no such domain".
Lookup ==
  /\ pc = "lookup"
  /\ \/ dom[cur] # "none" /\ Goto("isActive") /\ UNCHANGED refused
     \/ dom[cur] = "none" /\ Goto("delXml") /\ UNCHANGED refused
     \/ dom[cur] # "none" /\ Goto("delXml") /\ Refuse("lookup")
  /\ UNCHANGED <<factoryVars, fileVars, domVars, failed, cmdVars>>

AfterKill == IF "undefine" \in opts THEN "undefine" ELSE "delXml"

\* Mutant: is_running() in place of isActive(), which misses a paused guest.
IsActiveRunningOnly ==
  /\ pc = "isActive"
  /\ IF dom[cur] = "running" THEN Goto("kill") ELSE Goto(AfterKill)
  /\ UNCHANGED <<factoryVars, fileVars, domVars, histVars, cmdVars>>

\* Mutant: an inactive domain is not undefined.
IsActiveSkipsUndefine ==
  /\ pc = "isActive"
  /\ IF Active(cur) THEN Goto("kill") ELSE Goto("delXml")
  /\ UNCHANGED <<factoryVars, fileVars, domVars, histVars, cmdVars>>

\* An error of isActive() skips dom.destroy(), not undefineFlags().
IsActive ==
  /\ pc = "isActive"
  /\ \/ Active(cur) /\ Goto("kill") /\ UNCHANGED refused
     \/ Active(cur) /\ Goto(AfterKill) /\ Refuse("destroy")
     \/ ~Active(cur) /\ Goto(AfterKill) /\ UNCHANGED refused
  /\ UNCHANGED <<factoryVars, fileVars, domVars, failed, cmdVars>>

\* The domain an inactive guest leaves: its definition, if it has one.
Inactive(v) == IF v \in persistent THEN "shutoff" ELSE "none"

\* dom.destroy() fails on a guest that stopped meanwhile, and may fail on a
\* live one.
Kill ==
  /\ pc = "kill"
  /\ \/ /\ Active(cur)
        /\ dom' = [dom EXCEPT ![cur] = Inactive(cur)]
        /\ UNCHANGED refused
     \/ Active(cur) /\ Refuse("destroy") /\ UNCHANGED dom
     \/ ~Active(cur) /\ UNCHANGED <<dom, refused>>
  /\ Goto(AfterKill)
  /\ UNCHANGED <<factoryVars, fileVars, persistent, failed, cmdVars>>

\* Undefining a live domain only makes it transient; a transient domain
\* cannot be undefined.
Undefine ==
  /\ pc = "undefine"
  /\ \/ /\ cur \in persistent
        /\ persistent' = persistent \ {cur}
        /\ dom' = [dom EXCEPT ![cur] = IF Active(cur) THEN @ ELSE "none"]
        /\ UNCHANGED refused
     \/ cur \in persistent /\ Refuse("undefine") /\ UNCHANGED domVars
     \/ cur \notin persistent /\ UNCHANGED <<domVars, refused>>
  /\ Goto("delXml")
  /\ UNCHANGED <<factoryVars, fileVars, failed, cmdVars>>

\* Delete one file, which may be missing and which the OS may refuse.
DeleteFile(files, f, r) ==
  \/ files' = files \ {f} /\ UNCHANGED refused
  \/ f \in files /\ Refuse(r) /\ UNCHANGED files

DeleteXml ==
  /\ pc = "delXml"
  /\ DeleteFile(xmls, cur, "xml")
  /\ Goto("delImage")
  /\ UNCHANGED <<factoryVars, images, logs, domVars, failed, cmdVars>>

DeleteImage ==
  /\ pc = "delImage"
  /\ IF "image" \in opts THEN DeleteFile(images, disk[cur], "image")
                          ELSE UNCHANGED <<images, refused>>
  /\ Goto("delLog")
  /\ UNCHANGED <<factoryVars, xmls, logs, domVars, failed, cmdVars>>

DeleteLog ==
  /\ pc = "delLog"
  /\ IF "log" \in opts THEN DeleteFile(logs, cur, "log")
                        ELSE UNCHANGED <<logs, refused>>
  /\ IF "unregister" \in opts THEN Goto("unregister") ELSE Return
  /\ UNCHANGED <<factoryVars, images, xmls, domVars, failed, cmdVars>>

-----------------------------------------------------------------------------
(* VMGuestFactory.remove, removeall (also run by __del__), and             *)
(* set_keep_issue_vm.                                                      *)

Kept(v) == keepIssue /\ v \in keep

\* remove() takes any guest the factory has made, also one it has removed already.
Remove(v) ==
  /\ pc = "idle" /\ disk[v] # NoDisk /\ ~Refused(v, {"ctor"}) /\ ~Kept(v)
  /\ pc' = "lookup" /\ cur' = v /\ opts' = DestroyOpts \cup {"unregister"}
  /\ UNCHANGED <<factoryVars, fileVars, domVars, histVars, cmdVars, todo, goal, count>>

Unregister ==
  /\ pc = "unregister"
  /\ vms' = vms \ {cur}
  /\ Return
  /\ UNCHANGED <<keepIssue, keep, disk, fileVars, domVars, histVars, cmdVars>>

\* The loop runs over a copy of the registry.
RemoveAll ==
  /\ pc = "idle" /\ vms # {}
  /\ todo' = vms /\ pc' = "removeall"
  /\ UNCHANGED <<factoryVars, fileVars, domVars, histVars, cmdVars, cur, opts,
                 goal, count>>

\* Mutant: removeall() does not ask whether a guest is to be kept.
RemoveNextKeepsNone(v) ==
  /\ pc = "removeall" /\ v \in todo
  /\ todo' = todo \ {v}
  /\ pc' = "lookup" /\ cur' = v /\ opts' = DestroyOpts \cup {"unregister"}
  /\ UNCHANGED <<factoryVars, fileVars, domVars, histVars, cmdVars, goal, count>>

RemoveNext(v) ==
  /\ pc = "removeall" /\ v \in todo
  /\ todo' = todo \ {v}
  /\ IF Kept(v)
     THEN /\ pc' = IF todo' = {} THEN "idle" ELSE "removeall"
          /\ UNCHANGED <<cur, opts>>
     ELSE pc' = "lookup" /\ cur' = v /\ opts' = DestroyOpts \cup {"unregister"}
  /\ UNCHANGED <<factoryVars, fileVars, domVars, histVars, cmdVars, goal, count>>

SetKeepIssueVm(b) ==
  /\ pc = "idle" /\ keepIssue' = b
  /\ UNCHANGED <<vms, keep, disk, fileVars, domVars, histVars, cmdVars, callVars>>

-----------------------------------------------------------------------------
(* The guest, on its own: it powers off (asked to or not) or crashes       *)
(* (on_poweroff, on_crash: destroy).                                       *)

GuestPowerOff(v) ==
  /\ dom[v] = "running"
  /\ dom' = [dom EXCEPT ![v] = "shutdown"]
  /\ UNCHANGED <<factoryVars, fileVars, persistent, histVars, cmdVars, callVars>>

GuestStops(v) ==
  /\ dom[v] \in {"running", "shutdown"}
  /\ dom' = [dom EXCEPT ![v] = Inactive(v)]
  /\ UNCHANGED <<factoryVars, fileVars, persistent, histVars, cmdVars, callVars>>

-----------------------------------------------------------------------------
\* The steps of a call in progress.
Step ==
  \/ Construct \/ ConstructFails \/ DefineXML \/ DomainCreate \/ StartCheck
  \/ ResumeCheck \/ DoResume \/ SuspendCheck \/ DoSuspend \/ AskGuest
  \/ SshReturn \/ WaitCheck \/ WaitCompare
  \/ Lookup \/ IsActive \/ Kill \/ Undefine \/ DeleteXml \/ DeleteImage
  \/ DeleteLog \/ Unregister \/ \E v \in VMs : RemoveNext(v)

\* The calls a test makes.
TestCalls ==
  \/ \E v \in VMs, auto \in BOOLEAN : NewVmClone(v, auto) \/ NewVmDiskImg(v, auto)
  \/ \E v \in VMs : \/ Create(v) \/ Start(v) \/ Resume(v) \/ Suspend(v)
                     \/ Ask(v) \/ Remove(v)
                     \/ \E n \in BOOLEAN : SshRun(v, n)
                     \/ \E s \in DomStates \ {"none"} : WaitForState(v, s)
                     \/ \E o \in SUBSET DestroyOpts : Destroy(v, o)
  \/ RemoveAll
  \/ \E b \in BOOLEAN : SetKeepIssueVm(b)

Guests ==
  \E v \in VMs : CommandEnds(v) \/ EarlierEnds(v) \/ GuestPowerOff(v) \/ GuestStops(v)

Next == Step \/ TestCalls \/ Guests

\* The calling thread keeps running; tests, guests and SSH commands owe
\* nothing.
Spec == Init /\ [][Next]_vars /\ WF_vars(Step)

-----------------------------------------------------------------------------
(* Properties                                                              *)

\* Whatever the interleaving of guest and teardown, a live domain keeps its
\* own disk: destroy() deletes the image only after the domain is gone, or
\* after libvirt refused to find it or to kill it.
ActiveHasDisk ==
  \A v \in VMs : Active(v) /\ disk[v] = v /\ v \notin images
                  => Refused(v, {"lookup", "destroy"})

LeftNothing(v) ==
  /\ dom[v] = "none" \/ Refused(v, {"lookup", "destroy", "undefine"})
  /\ disk[v] = v /\ v \in images => Refused(v, {"image", "ctor"})
  /\ v \in xmls => Refused(v, {"xml", "ctor"})
  /\ v \in logs => Refused(v, {"log"})

\* A guest the factory no longer knows has left no domain, disk, XML file or
\* log behind, except one whose deletion was refused; a guest whose
\* constructor failed never had a domain or a log.
UnregisteredLeavesNothing ==
  \A v \in VMs \ vms : ~(pc = "ctor" /\ cur = v) => LeftNothing(v)

KeptVmStaysStep ==
  \A v \in vms : Kept(v) =>
    /\ v \in vms'
    /\ v \in images /\ v \notin images' => "unregister" \notin opts

\* With keep_issue_vm set, remove(), removeall() and __del__ never take an
\* unhealthy guest out of the registry nor delete the disk cloned for it.
KeptVmStays == [][KeptVmStaysStep]_vars

\* A guest one of whose SSH commands failed is marked to be kept, once the
\* ssh_run call that started the command has returned, even when ssh_run did
\* not wait and the command fails later.
FailedIsKept ==
  \A v \in failed : v \in keep \/ (cur = v /\ pc \in {"ssh", "sshNoWait"})

\* Every call on a guest returns or raises, whatever guest and libvirt do;
\* only a caller that waits for an SSH command may wait for ever.
CallsReturn == pc \notin {"idle", "ssh"} ~> pc = "idle"

-----------------------------------------------------------------------------
(* The inductive invariant                                                 *)

Destroying == {"lookup", "isActive", "kill", "undefine", "delXml", "delImage",
               "delLog", "unregister"}

\* The call in progress is on a registered guest, or is constructing one.
CallInv ==
  /\ pc \notin {"idle", "removeall"} => cur \in VMs
  /\ pc \notin {"idle", "removeall", "ctor"} => cur \in vms \/ "unregister" \in opts
  /\ "unregister" \in opts => disk[cur] # NoDisk
  /\ pc \in {"idle", "removeall"} => opts = {}
  /\ pc = "idle" => todo = {}
  /\ pc # "removeall" => cur \notin todo
  /\ todo \subseteq vms
  /\ "unregister" \in opts => DestroyOpts \subseteq opts /\ pc \in Destroying
  /\ pc = "unregister" => "unregister" \in opts
  /\ pc = "undefine" => "undefine" \in opts
  /\ pc = "waitCompare" => count < WaitLimit

\* A guest has its own clone or a caller's disk; one that does not exist, or
\* is being constructed, has neither domain nor log.
NewInv ==
  /\ \A v \in VMs : disk[v] \in {v, NoDisk} \cup Disks
  /\ \A v \in vms : disk[v] # NoDisk
  /\ \A v \in VMs : disk[v] = NoDisk =>
       dom[v] = "none" /\ v \notin images \cup xmls \cup logs
  /\ pc = "ctor" => /\ cur \notin vms /\ disk[cur] # NoDisk
                    /\ dom[cur] = "none" /\ cur \notin xmls \cup logs
  /\ \A v \in VMs : dom[v] = "shutoff" => v \in persistent
  /\ \A v \in VMs : dom[v] = "none" => v \notin persistent

\* How far destroy() has come, and what it has dealt with by then.
DestroyInv ==
  /\ pc \in {"undefine", "delXml", "delImage", "delLog", "unregister"} /\ Active(cur)
       => Refused(cur, {"lookup", "destroy"})
  /\ pc \in {"delXml", "delImage", "delLog", "unregister"} /\ "undefine" \in opts
       => dom[cur] = "none" \/ Refused(cur, {"lookup", "destroy", "undefine"})
  /\ pc \in {"delImage", "delLog", "unregister"} /\ cur \in xmls
       => Refused(cur, {"xml"})
  /\ pc \in {"delLog", "unregister"} /\ "image" \in opts /\ disk[cur] \in images
       => Refused(cur, {"image"})
  /\ pc = "unregister" /\ cur \in logs => Refused(cur, {"log"})

\* A removal never starts on a guest to be kept; a command whose outcome is
\* not known yet has either been waited for or has marked its guest.
KeepInv ==
  /\ beside \subseteq keep
  /\ "unregister" \in opts => ~Kept(cur)
  /\ \A v \in VMs \ keep :
       /\ cmd[v] = "running" => cur = v /\ pc \in {"ssh", "sshNoWait"}
       /\ v \in failed => cur = v /\ pc \in {"ssh", "sshNoWait"} /\ cmd[v] = "fail"

\* The inductive invariant behind ActiveHasDisk, UnregisteredLeavesNothing,
\* KeptVmStays and FailedIsKept: how far destroy() has come decides what may
\* still exist.
IInv ==
  /\ TypeOK /\ CallInv /\ NewInv /\ DestroyInv /\ KeepInv
  /\ ActiveHasDisk /\ UnregisteredLeavesNothing
=============================================================================
