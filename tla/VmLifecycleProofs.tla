------------------------- MODULE VmLifecycleProofs -------------------------
(***************************************************************************)
(* Proofs about VmLifecycle, for every set of guests and disks and every   *)
(* number of faults.                                                       *)
(***************************************************************************)
EXTENDS VmLifecycle, TLAPS


\* Returning, raising and moving to another step keep the call well typed.
LEMMA FlowTypes ==
  ASSUME CallTypeOK
  PROVE  /\ Return => CallTypeOK'
         /\ Raise => CallTypeOK'
         /\ \A p \in PCs : Goto(p) => CallTypeOK'
  BY VmAssumption
  DEF CallTypeOK, Return, Raise, Goto, PCs, DomStates, Options

\* Every step keeps the types, given that a call in progress has a guest.
LEMMA TypeOKStep == TypeOK /\ CallInv /\ [Next]_vars => TypeOK'
<1> SUFFICES ASSUME TypeOK /\ CallInv, [Next]_vars PROVE TypeOK'
  OBVIOUS
<1> USE VmAssumption DEF TypeOK, CallInv, factoryVars, fileVars, domVars,
      histVars, cmdVars, callVars, PCs, DomStates, Options, DestroyOpts, Refusals
<1>1. ASSUME NEW v \in VMs, NEW auto \in BOOLEAN, NewVmClone(v, auto) PROVE TypeOK'
  BY <1>1 DEF NewVmClone, CallTypeOK, NewVm
<1>2. ASSUME NEW v \in VMs, NEW auto \in BOOLEAN, NewVmDiskImg(v, auto) PROVE TypeOK'
  BY <1>2 DEF NewVmDiskImg, CallTypeOK, NewVm
<1>3. ASSUME Construct PROVE TypeOK'
  BY <1>3, FlowTypes DEF Construct
<1>4. ASSUME ConstructFails PROVE TypeOK'
  BY <1>4, FlowTypes DEF ConstructFails, Refuse
<1>5. ASSUME NEW v \in VMs, Create(v) PROVE TypeOK'
  BY <1>5 DEF Create, CallTypeOK, Call
<1>6. ASSUME DefineXML PROVE TypeOK'
  BY <1>6, FlowTypes DEF DefineXML
<1>7. ASSUME DomainCreate PROVE TypeOK'
  BY <1>7, FlowTypes DEF DomainCreate
<1>8. ASSUME NEW v \in VMs, Start(v) PROVE TypeOK'
  BY <1>8 DEF Start, CallTypeOK, Call
<1>9. ASSUME StartCheck PROVE TypeOK'
  <2>1. CallTypeOK'
    <3>1. CASE pc' = "create" /\ opts' = {"start"} /\ UNCHANGED <<cur, todo, goal, count>>
      BY <3>1 DEF CallTypeOK, Options
    <3> QED
      BY <1>9, <3>1, FlowTypes DEF StartCheck
  <2> QED
    BY <1>9, <2>1 DEF StartCheck
<1>10. ASSUME NEW v \in VMs, Resume(v) PROVE TypeOK'
  BY <1>10 DEF Resume, CallTypeOK, Call
<1>11. ASSUME ResumeCheck PROVE TypeOK'
  BY <1>11, FlowTypes DEF ResumeCheck
<1>12. ASSUME DoResume PROVE TypeOK'
  BY <1>12, FlowTypes DEF DoResume
<1>13. ASSUME NEW v \in VMs, Suspend(v) PROVE TypeOK'
  BY <1>13 DEF Suspend, CallTypeOK, Call
<1>14. ASSUME SuspendCheck PROVE TypeOK'
  BY <1>14, FlowTypes DEF SuspendCheck
<1>15. ASSUME DoSuspend PROVE TypeOK'
  BY <1>15, FlowTypes DEF DoSuspend
<1>16. ASSUME NEW v \in VMs, Ask(v) PROVE TypeOK'
  BY <1>16 DEF Ask, CallTypeOK, Call
<1>17. ASSUME AskGuest PROVE TypeOK'
  BY <1>17, FlowTypes DEF AskGuest
<1>18. ASSUME NEW v \in VMs, NEW n \in BOOLEAN, SshRun(v, n) PROVE TypeOK'
  BY <1>18 DEF SshRun, CallTypeOK, Call
<1>19. ASSUME NEW v \in VMs, CommandEnds(v) PROVE TypeOK'
  BY <1>19 DEF CommandEnds, CallTypeOK
<1>20. ASSUME SshReturn PROVE TypeOK'
  BY <1>20, FlowTypes DEF SshReturn
<1>21. ASSUME NEW v \in VMs, NEW s \in DomStates \ {"none"}, WaitForState(v, s) PROVE TypeOK'
  BY <1>21 DEF WaitForState, CallTypeOK
<1>22. ASSUME WaitCheck PROVE TypeOK'
  BY <1>22, FlowTypes DEF WaitCheck
<1>23. ASSUME WaitCompare PROVE TypeOK'
  <2>1. CallTypeOK'
    <3>1. CASE pc' = "waitCheck" /\ count' = count + 1 /\ UNCHANGED <<cur, opts, todo, goal>>
      BY <1>23, <3>1 DEF CallTypeOK, WaitCompare
    <3> QED
      BY <1>23, <3>1, FlowTypes DEF WaitCompare
  <2> QED
    BY <1>23, <2>1 DEF WaitCompare
<1>24. ASSUME NEW v \in VMs, NEW o \in SUBSET DestroyOpts, Destroy(v, o) PROVE TypeOK'
  BY <1>24 DEF Destroy, CallTypeOK, Call
<1>25. ASSUME Lookup PROVE TypeOK'
  BY <1>25, FlowTypes DEF Lookup, Refuse
<1>26. ASSUME IsActive PROVE TypeOK'
  BY <1>26, FlowTypes DEF IsActive, Refuse, AfterKill
<1>27. ASSUME Kill PROVE TypeOK'
  BY <1>27, FlowTypes DEF Kill, Refuse, AfterKill, Inactive
<1>28. ASSUME Undefine PROVE TypeOK'
  BY <1>28, FlowTypes DEF Undefine, Refuse
<1>29. ASSUME DeleteXml PROVE TypeOK'
  BY <1>29, FlowTypes DEF DeleteXml, DeleteFile, Refuse
<1>30. ASSUME DeleteImage PROVE TypeOK'
  BY <1>30, FlowTypes DEF DeleteImage, DeleteFile, Refuse
<1>31. ASSUME DeleteLog PROVE TypeOK'
  BY <1>31, FlowTypes DEF DeleteLog, DeleteFile, Refuse
<1>32. ASSUME NEW v \in VMs, Remove(v) PROVE TypeOK'
  BY <1>32 DEF Remove, CallTypeOK
<1>33. ASSUME Unregister PROVE TypeOK'
  BY <1>33, FlowTypes DEF Unregister
<1>34. ASSUME RemoveAll PROVE TypeOK'
  BY <1>34 DEF RemoveAll, CallTypeOK
<1>35. ASSUME NEW v \in VMs, RemoveNext(v) PROVE TypeOK'
  BY <1>35 DEF RemoveNext, CallTypeOK
<1>36. ASSUME NEW b \in BOOLEAN, SetKeepIssueVm(b) PROVE TypeOK'
  BY <1>36 DEF SetKeepIssueVm, CallTypeOK
<1>37. ASSUME NEW v \in VMs, GuestPowerOff(v) PROVE TypeOK'
  BY <1>37 DEF GuestPowerOff, CallTypeOK
<1>38. ASSUME NEW v \in VMs, GuestStops(v) PROVE TypeOK'
  BY <1>38 DEF GuestStops, CallTypeOK, Inactive
<1>39. CASE UNCHANGED vars
  BY <1>39 DEF vars, CallTypeOK
<1>40. ASSUME NEW v \in VMs, EarlierEnds(v) PROVE TypeOK'
  BY <1>40 DEF EarlierEnds, CallTypeOK
<1> HIDE DEF TypeOK
<1> QED
  BY <1>1, <1>2, <1>3, <1>4, <1>5, <1>6, <1>7, <1>8, <1>9, <1>10, <1>11,
     <1>12, <1>13, <1>14, <1>15, <1>16, <1>17, <1>18, <1>19, <1>20, <1>21,
     <1>22, <1>23, <1>24, <1>25, <1>26, <1>27, <1>28, <1>29, <1>30, <1>31,
     <1>32, <1>33, <1>34, <1>35, <1>36, <1>37, <1>38, <1>39, <1>40
  DEF Next, Step, TestCalls, Guests

\* Every step keeps the invariant on the call in progress.
LEMMA CallInvStep == TypeOK /\ CallInv /\ NewInv /\ [Next]_vars => CallInv'
<1> SUFFICES ASSUME TypeOK /\ CallInv /\ NewInv, [Next]_vars PROVE CallInv'
  OBVIOUS
<1> USE VmAssumption DEF TypeOK, CallTypeOK, CallInv, Destroying, factoryVars,
      fileVars, domVars, histVars, cmdVars, callVars, PCs, Options, DestroyOpts
<1>1. ASSUME NEW v \in VMs, NEW auto \in BOOLEAN, NewVmClone(v, auto) PROVE CallInv'
  BY <1>1 DEF NewVmClone, NewVm
<1>2. ASSUME NEW v \in VMs, NEW auto \in BOOLEAN, NewVmDiskImg(v, auto) PROVE CallInv'
  BY <1>2 DEF NewVmDiskImg, NewVm
<1>3. ASSUME Construct PROVE CallInv'
  BY <1>3 DEF Construct, Goto, Return
<1>4. ASSUME ConstructFails PROVE CallInv'
  BY <1>4 DEF ConstructFails, Raise, Refuse
<1>5. ASSUME NEW v \in VMs, Create(v) PROVE CallInv'
  BY <1>5 DEF Create, Call
<1>6. ASSUME DefineXML PROVE CallInv'
  BY <1>6 DEF DefineXML, Goto, Raise
<1>7. ASSUME DomainCreate PROVE CallInv'
  BY <1>7 DEF DomainCreate, Goto, Return, Raise
<1>8. ASSUME NEW v \in VMs, Start(v) PROVE CallInv'
  BY <1>8 DEF Start, Call
<1>9. ASSUME StartCheck PROVE CallInv'
  BY <1>9 DEF StartCheck, Goto, Raise
<1>10. ASSUME NEW v \in VMs, Resume(v) PROVE CallInv'
  BY <1>10 DEF Resume, Call
<1>11. ASSUME ResumeCheck PROVE CallInv'
  BY <1>11 DEF ResumeCheck, Return, Goto, Raise
<1>12. ASSUME DoResume PROVE CallInv'
  BY <1>12 DEF DoResume, Return, Raise
<1>13. ASSUME NEW v \in VMs, Suspend(v) PROVE CallInv'
  BY <1>13 DEF Suspend, Call
<1>14. ASSUME SuspendCheck PROVE CallInv'
  BY <1>14 DEF SuspendCheck, Return, Goto, Raise
<1>15. ASSUME DoSuspend PROVE CallInv'
  BY <1>15 DEF DoSuspend, Return, Raise
<1>16. ASSUME NEW v \in VMs, Ask(v) PROVE CallInv'
  BY <1>16 DEF Ask, Call
<1>17. ASSUME AskGuest PROVE CallInv'
  BY <1>17 DEF AskGuest, Return, Raise
<1>18. ASSUME NEW v \in VMs, NEW n \in BOOLEAN, SshRun(v, n) PROVE CallInv'
  BY <1>18 DEF SshRun, Call
<1>19. ASSUME NEW v \in VMs, CommandEnds(v) PROVE CallInv'
  BY <1>19 DEF CommandEnds
<1>20. ASSUME SshReturn PROVE CallInv'
  BY <1>20 DEF SshReturn, Return
<1>21. ASSUME NEW v \in VMs, NEW s \in DomStates \ {"none"}, WaitForState(v, s) PROVE CallInv'
  BY <1>21 DEF WaitForState
<1>22. ASSUME WaitCheck PROVE CallInv'
  BY <1>22 DEF WaitCheck, Return, Goto, Raise
<1>23. ASSUME WaitCompare PROVE CallInv'
  BY <1>23 DEF WaitCompare, Return, Raise
<1>24. ASSUME NEW v \in VMs, NEW o \in SUBSET DestroyOpts, Destroy(v, o) PROVE CallInv'
  BY <1>24 DEF Destroy, Call
<1>25. ASSUME Lookup PROVE CallInv'
  BY <1>25 DEF Lookup, Goto, Refuse
<1>26. ASSUME IsActive PROVE CallInv'
  BY <1>26 DEF IsActive, Goto, Refuse, AfterKill
<1>27. ASSUME Kill PROVE CallInv'
  BY <1>27 DEF Kill, Goto, Refuse, AfterKill, Inactive
<1>28. ASSUME Undefine PROVE CallInv'
  BY <1>28 DEF Undefine, Goto, Refuse
<1>29. ASSUME DeleteXml PROVE CallInv'
  BY <1>29 DEF DeleteXml, DeleteFile, Goto, Refuse
<1>30. ASSUME DeleteImage PROVE CallInv'
  BY <1>30 DEF DeleteImage, DeleteFile, Goto, Refuse
<1>31. ASSUME DeleteLog PROVE CallInv'
  BY <1>31 DEF DeleteLog, DeleteFile, Goto, Refuse, Return
<1>32. ASSUME NEW v \in VMs, Remove(v) PROVE CallInv'
  BY <1>32 DEF Remove
<1>33. ASSUME Unregister PROVE CallInv'
  BY <1>33 DEF Unregister, Return
<1>34. ASSUME RemoveAll PROVE CallInv'
  BY <1>34 DEF RemoveAll
<1>35. ASSUME NEW v \in VMs, RemoveNext(v) PROVE CallInv'
  <2>1. disk[v] # NoDisk
    BY <1>35 DEF RemoveNext, NewInv
  <2> QED
    BY <1>35, <2>1 DEF RemoveNext
<1>36. ASSUME NEW b \in BOOLEAN, SetKeepIssueVm(b) PROVE CallInv'
  BY <1>36 DEF SetKeepIssueVm
<1>37. ASSUME NEW v \in VMs, GuestPowerOff(v) PROVE CallInv'
  BY <1>37 DEF GuestPowerOff
<1>38. ASSUME NEW v \in VMs, GuestStops(v) PROVE CallInv'
  BY <1>38 DEF GuestStops, Inactive
<1>39. CASE UNCHANGED vars
  BY <1>39 DEF vars
<1>40. ASSUME NEW v \in VMs, EarlierEnds(v) PROVE CallInv'
  BY <1>40 DEF EarlierEnds
<1> HIDE DEF CallInv
<1> QED
  BY <1>1, <1>2, <1>3, <1>4, <1>5, <1>6, <1>7, <1>8, <1>9, <1>10, <1>11,
     <1>12, <1>13, <1>14, <1>15, <1>16, <1>17, <1>18, <1>19, <1>20, <1>21,
     <1>22, <1>23, <1>24, <1>25, <1>26, <1>27, <1>28, <1>29, <1>30, <1>31,
     <1>32, <1>33, <1>34, <1>35, <1>36, <1>37, <1>38, <1>39, <1>40
  DEF Next, Step, TestCalls, Guests

\* Every step keeps the invariant on guests that do not exist yet.
LEMMA NewInvStep == TypeOK /\ CallInv /\ NewInv /\ [Next]_vars => NewInv'
<1> SUFFICES ASSUME TypeOK /\ CallInv /\ NewInv, [Next]_vars PROVE NewInv'
  OBVIOUS
<1> USE VmAssumption DEF TypeOK, CallTypeOK, CallInv, NewInv, factoryVars,
      fileVars, domVars, histVars, cmdVars, callVars, Active, DomStates
<1>1. ASSUME NEW v \in VMs, NEW auto \in BOOLEAN, NewVmClone(v, auto) PROVE NewInv'
  BY <1>1 DEF NewVmClone, NewVm
<1>2. ASSUME NEW v \in VMs, NEW auto \in BOOLEAN, NewVmDiskImg(v, auto) PROVE NewInv'
  BY <1>2 DEF NewVmDiskImg, NewVm
<1>3. ASSUME Construct PROVE NewInv'
  BY <1>3 DEF Construct, Goto, Return
<1>4. ASSUME ConstructFails PROVE NewInv'
  BY <1>4 DEF ConstructFails, Raise, Refuse
<1>5. ASSUME NEW v \in VMs, Create(v) PROVE NewInv'
  BY <1>5 DEF Create, Call
<1>6. ASSUME DefineXML PROVE NewInv'
  BY <1>6 DEF DefineXML, Goto, Raise
<1>7. ASSUME DomainCreate PROVE NewInv'
  BY <1>7 DEF DomainCreate, Goto, Return, Raise
<1>8. ASSUME NEW v \in VMs, Start(v) PROVE NewInv'
  BY <1>8 DEF Start, Call
<1>9. ASSUME StartCheck PROVE NewInv'
  BY <1>9 DEF StartCheck, Goto, Raise
<1>10. ASSUME NEW v \in VMs, Resume(v) PROVE NewInv'
  BY <1>10 DEF Resume, Call
<1>11. ASSUME ResumeCheck PROVE NewInv'
  BY <1>11 DEF ResumeCheck, Return, Goto, Raise
<1>12. ASSUME DoResume PROVE NewInv'
  BY <1>12 DEF DoResume, Return, Raise
<1>13. ASSUME NEW v \in VMs, Suspend(v) PROVE NewInv'
  BY <1>13 DEF Suspend, Call
<1>14. ASSUME SuspendCheck PROVE NewInv'
  BY <1>14 DEF SuspendCheck, Return, Goto, Raise
<1>15. ASSUME DoSuspend PROVE NewInv'
  BY <1>15 DEF DoSuspend, Return, Raise
<1>16. ASSUME NEW v \in VMs, Ask(v) PROVE NewInv'
  BY <1>16 DEF Ask, Call
<1>17. ASSUME AskGuest PROVE NewInv'
  BY <1>17 DEF AskGuest, Return, Raise
<1>18. ASSUME NEW v \in VMs, NEW n \in BOOLEAN, SshRun(v, n) PROVE NewInv'
  BY <1>18 DEF SshRun, Call
<1>19. ASSUME NEW v \in VMs, CommandEnds(v) PROVE NewInv'
  BY <1>19 DEF CommandEnds
<1>20. ASSUME SshReturn PROVE NewInv'
  BY <1>20 DEF SshReturn, Return
<1>21. ASSUME NEW v \in VMs, NEW s \in DomStates \ {"none"}, WaitForState(v, s) PROVE NewInv'
  BY <1>21 DEF WaitForState
<1>22. ASSUME WaitCheck PROVE NewInv'
  BY <1>22 DEF WaitCheck, Return, Goto, Raise
<1>23. ASSUME WaitCompare PROVE NewInv'
  BY <1>23 DEF WaitCompare, Return, Raise
<1>24. ASSUME NEW v \in VMs, NEW o \in SUBSET DestroyOpts, Destroy(v, o) PROVE NewInv'
  BY <1>24 DEF Destroy, Call
<1>25. ASSUME Lookup PROVE NewInv'
  BY <1>25 DEF Lookup, Goto, Refuse
<1>26. ASSUME IsActive PROVE NewInv'
  BY <1>26 DEF IsActive, Goto, Refuse, AfterKill
<1>27. ASSUME Kill PROVE NewInv'
  BY <1>27 DEF Kill, Goto, Refuse, AfterKill, Inactive
<1>28. ASSUME Undefine PROVE NewInv'
  BY <1>28 DEF Undefine, Goto, Refuse
<1>29. ASSUME DeleteXml PROVE NewInv'
  BY <1>29 DEF DeleteXml, DeleteFile, Goto, Refuse
<1>30. ASSUME DeleteImage PROVE NewInv'
  BY <1>30 DEF DeleteImage, DeleteFile, Goto, Refuse
<1>31. ASSUME DeleteLog PROVE NewInv'
  BY <1>31 DEF DeleteLog, DeleteFile, Goto, Refuse, Return
<1>32. ASSUME NEW v \in VMs, Remove(v) PROVE NewInv'
  BY <1>32 DEF Remove
<1>33. ASSUME Unregister PROVE NewInv'
  BY <1>33 DEF Unregister, Return
<1>34. ASSUME RemoveAll PROVE NewInv'
  BY <1>34 DEF RemoveAll
<1>35. ASSUME NEW v \in VMs, RemoveNext(v) PROVE NewInv'
  BY <1>35 DEF RemoveNext
<1>36. ASSUME NEW b \in BOOLEAN, SetKeepIssueVm(b) PROVE NewInv'
  BY <1>36 DEF SetKeepIssueVm
<1>37. ASSUME NEW v \in VMs, GuestPowerOff(v) PROVE NewInv'
  BY <1>37 DEF GuestPowerOff
<1>38. ASSUME NEW v \in VMs, GuestStops(v) PROVE NewInv'
  BY <1>38 DEF GuestStops, Inactive
<1>39. CASE UNCHANGED vars
  BY <1>39 DEF vars
<1>40. ASSUME NEW v \in VMs, EarlierEnds(v) PROVE NewInv'
  BY <1>40 DEF EarlierEnds
<1> HIDE DEF NewInv
<1> QED
  BY <1>1, <1>2, <1>3, <1>4, <1>5, <1>6, <1>7, <1>8, <1>9, <1>10, <1>11,
     <1>12, <1>13, <1>14, <1>15, <1>16, <1>17, <1>18, <1>19, <1>20, <1>21,
     <1>22, <1>23, <1>24, <1>25, <1>26, <1>27, <1>28, <1>29, <1>30, <1>31,
     <1>32, <1>33, <1>34, <1>35, <1>36, <1>37, <1>38, <1>39, <1>40
  DEF Next, Step, TestCalls, Guests

\* Every step keeps the invariant on how far destroy() has come.
LEMMA DestroyInvStep == TypeOK /\ CallInv /\ NewInv /\ DestroyInv /\ [Next]_vars => DestroyInv'
<1> SUFFICES ASSUME TypeOK /\ CallInv /\ NewInv /\ DestroyInv, [Next]_vars PROVE DestroyInv'
  OBVIOUS
<1> USE VmAssumption DEF TypeOK, CallTypeOK, CallInv, NewInv, factoryVars,
      fileVars, domVars, histVars, cmdVars, callVars, Active, DestroyInv, Refused,
      Destroying
<1>1. ASSUME NEW v \in VMs, NEW auto \in BOOLEAN, NewVmClone(v, auto) PROVE DestroyInv'
  BY <1>1 DEF NewVmClone, NewVm
<1>2. ASSUME NEW v \in VMs, NEW auto \in BOOLEAN, NewVmDiskImg(v, auto) PROVE DestroyInv'
  BY <1>2 DEF NewVmDiskImg, NewVm
<1>3. ASSUME Construct PROVE DestroyInv'
  BY <1>3 DEF Construct, Goto, Return
<1>4. ASSUME ConstructFails PROVE DestroyInv'
  BY <1>4 DEF ConstructFails, Raise, Refuse
<1>5. ASSUME NEW v \in VMs, Create(v) PROVE DestroyInv'
  BY <1>5 DEF Create, Call
<1>6. ASSUME DefineXML PROVE DestroyInv'
  BY <1>6 DEF DefineXML, Goto, Raise
<1>7. ASSUME DomainCreate PROVE DestroyInv'
  BY <1>7 DEF DomainCreate, Goto, Return, Raise
<1>8. ASSUME NEW v \in VMs, Start(v) PROVE DestroyInv'
  BY <1>8 DEF Start, Call
<1>9. ASSUME StartCheck PROVE DestroyInv'
  BY <1>9 DEF StartCheck, Goto, Raise
<1>10. ASSUME NEW v \in VMs, Resume(v) PROVE DestroyInv'
  BY <1>10 DEF Resume, Call
<1>11. ASSUME ResumeCheck PROVE DestroyInv'
  BY <1>11 DEF ResumeCheck, Return, Goto, Raise
<1>12. ASSUME DoResume PROVE DestroyInv'
  BY <1>12 DEF DoResume, Return, Raise
<1>13. ASSUME NEW v \in VMs, Suspend(v) PROVE DestroyInv'
  BY <1>13 DEF Suspend, Call
<1>14. ASSUME SuspendCheck PROVE DestroyInv'
  BY <1>14 DEF SuspendCheck, Return, Goto, Raise
<1>15. ASSUME DoSuspend PROVE DestroyInv'
  BY <1>15 DEF DoSuspend, Return, Raise
<1>16. ASSUME NEW v \in VMs, Ask(v) PROVE DestroyInv'
  BY <1>16 DEF Ask, Call
<1>17. ASSUME AskGuest PROVE DestroyInv'
  BY <1>17 DEF AskGuest, Return, Raise
<1>18. ASSUME NEW v \in VMs, NEW n \in BOOLEAN, SshRun(v, n) PROVE DestroyInv'
  BY <1>18 DEF SshRun, Call
<1>19. ASSUME NEW v \in VMs, CommandEnds(v) PROVE DestroyInv'
  BY <1>19 DEF CommandEnds
<1>20. ASSUME SshReturn PROVE DestroyInv'
  BY <1>20 DEF SshReturn, Return
<1>21. ASSUME NEW v \in VMs, NEW s \in DomStates \ {"none"}, WaitForState(v, s) PROVE DestroyInv'
  BY <1>21 DEF WaitForState
<1>22. ASSUME WaitCheck PROVE DestroyInv'
  BY <1>22 DEF WaitCheck, Return, Goto, Raise
<1>23. ASSUME WaitCompare PROVE DestroyInv'
  BY <1>23 DEF WaitCompare, Return, Raise
<1>24. ASSUME NEW v \in VMs, NEW o \in SUBSET DestroyOpts, Destroy(v, o) PROVE DestroyInv'
  BY <1>24 DEF Destroy, Call
<1>25. ASSUME Lookup PROVE DestroyInv'
  BY <1>25 DEF Lookup, Goto, Refuse
<1>26. ASSUME IsActive PROVE DestroyInv'
  BY <1>26 DEF IsActive, Goto, Refuse, AfterKill
<1>27. ASSUME Kill PROVE DestroyInv'
  BY <1>27 DEF Kill, Goto, Refuse, AfterKill, Inactive
<1>28. ASSUME Undefine PROVE DestroyInv'
  BY <1>28 DEF Undefine, Goto, Refuse, DomStates
<1>29. ASSUME DeleteXml PROVE DestroyInv'
  BY <1>29 DEF DeleteXml, DeleteFile, Goto, Refuse
<1>30. ASSUME DeleteImage PROVE DestroyInv'
  BY <1>30 DEF DeleteImage, DeleteFile, Goto, Refuse
<1>31. ASSUME DeleteLog PROVE DestroyInv'
  <2>1. CASE "log" \notin opts
    BY <1>31, <2>1 DEF DeleteLog, Goto, Return, DestroyOpts
  <2>2. CASE "log" \in opts
    BY <1>31, <2>2 DEF DeleteLog, DeleteFile, Goto, Refuse, Return
  <2> QED
    BY <1>31, <2>1, <2>2 DEF DeleteLog
<1>32. ASSUME NEW v \in VMs, Remove(v) PROVE DestroyInv'
  BY <1>32 DEF Remove
<1>33. ASSUME Unregister PROVE DestroyInv'
  BY <1>33 DEF Unregister, Return
<1>34. ASSUME RemoveAll PROVE DestroyInv'
  BY <1>34 DEF RemoveAll
<1>35. ASSUME NEW v \in VMs, RemoveNext(v) PROVE DestroyInv'
  BY <1>35 DEF RemoveNext
<1>36. ASSUME NEW b \in BOOLEAN, SetKeepIssueVm(b) PROVE DestroyInv'
  BY <1>36 DEF SetKeepIssueVm
<1>37. ASSUME NEW v \in VMs, GuestPowerOff(v) PROVE DestroyInv'
  BY <1>37 DEF GuestPowerOff
<1>38. ASSUME NEW v \in VMs, GuestStops(v) PROVE DestroyInv'
  BY <1>38 DEF GuestStops, Inactive
<1>39. CASE UNCHANGED vars
  BY <1>39 DEF vars
<1>40. ASSUME NEW v \in VMs, EarlierEnds(v) PROVE DestroyInv'
  BY <1>40 DEF EarlierEnds
<1> HIDE DEF DestroyInv
<1> QED
  BY <1>1, <1>2, <1>3, <1>4, <1>5, <1>6, <1>7, <1>8, <1>9, <1>10, <1>11,
     <1>12, <1>13, <1>14, <1>15, <1>16, <1>17, <1>18, <1>19, <1>20, <1>21,
     <1>22, <1>23, <1>24, <1>25, <1>26, <1>27, <1>28, <1>29, <1>30, <1>31,
     <1>32, <1>33, <1>34, <1>35, <1>36, <1>37, <1>38, <1>39, <1>40
  DEF Next, Step, TestCalls, Guests

\* Every step keeps the invariant on guests to be kept.
LEMMA KeepInvStep == TypeOK /\ CallInv /\ NewInv /\ KeepInv /\ [Next]_vars => KeepInv'
<1> SUFFICES ASSUME TypeOK /\ CallInv /\ NewInv /\ KeepInv, [Next]_vars PROVE KeepInv'
  OBVIOUS
<1> USE VmAssumption DEF TypeOK, CallTypeOK, CallInv, NewInv, factoryVars,
      fileVars, domVars, histVars, cmdVars, callVars, Active, KeepInv, Kept,
      DestroyOpts
<1>1. ASSUME NEW v \in VMs, NEW auto \in BOOLEAN, NewVmClone(v, auto) PROVE KeepInv'
  BY <1>1 DEF NewVmClone, NewVm
<1>2. ASSUME NEW v \in VMs, NEW auto \in BOOLEAN, NewVmDiskImg(v, auto) PROVE KeepInv'
  BY <1>2 DEF NewVmDiskImg, NewVm
<1>3. ASSUME Construct PROVE KeepInv'
  BY <1>3 DEF Construct, Goto, Return
<1>4. ASSUME ConstructFails PROVE KeepInv'
  BY <1>4 DEF ConstructFails, Raise, Refuse
<1>5. ASSUME NEW v \in VMs, Create(v) PROVE KeepInv'
  BY <1>5 DEF Create, Call
<1>6. ASSUME DefineXML PROVE KeepInv'
  BY <1>6 DEF DefineXML, Goto, Raise
<1>7. ASSUME DomainCreate PROVE KeepInv'
  BY <1>7 DEF DomainCreate, Goto, Return, Raise
<1>8. ASSUME NEW v \in VMs, Start(v) PROVE KeepInv'
  BY <1>8 DEF Start, Call
<1>9. ASSUME StartCheck PROVE KeepInv'
  BY <1>9 DEF StartCheck, Goto, Raise
<1>10. ASSUME NEW v \in VMs, Resume(v) PROVE KeepInv'
  BY <1>10 DEF Resume, Call
<1>11. ASSUME ResumeCheck PROVE KeepInv'
  BY <1>11 DEF ResumeCheck, Return, Goto, Raise
<1>12. ASSUME DoResume PROVE KeepInv'
  BY <1>12 DEF DoResume, Return, Raise
<1>13. ASSUME NEW v \in VMs, Suspend(v) PROVE KeepInv'
  BY <1>13 DEF Suspend, Call
<1>14. ASSUME SuspendCheck PROVE KeepInv'
  BY <1>14 DEF SuspendCheck, Return, Goto, Raise
<1>15. ASSUME DoSuspend PROVE KeepInv'
  BY <1>15 DEF DoSuspend, Return, Raise
<1>16. ASSUME NEW v \in VMs, Ask(v) PROVE KeepInv'
  BY <1>16 DEF Ask, Call
<1>17. ASSUME AskGuest PROVE KeepInv'
  BY <1>17 DEF AskGuest, Return, Raise
<1>18. ASSUME NEW v \in VMs, NEW n \in BOOLEAN, SshRun(v, n) PROVE KeepInv'
  BY <1>18 DEF SshRun, Call
<1>19. ASSUME NEW v \in VMs, CommandEnds(v) PROVE KeepInv'
  BY <1>19 DEF CommandEnds
<1>20. ASSUME SshReturn PROVE KeepInv'
  BY <1>20 DEF SshReturn, Return
<1>21. ASSUME NEW v \in VMs, NEW s \in DomStates \ {"none"}, WaitForState(v, s) PROVE KeepInv'
  BY <1>21 DEF WaitForState
<1>22. ASSUME WaitCheck PROVE KeepInv'
  BY <1>22 DEF WaitCheck, Return, Goto, Raise
<1>23. ASSUME WaitCompare PROVE KeepInv'
  BY <1>23 DEF WaitCompare, Return, Raise
<1>24. ASSUME NEW v \in VMs, NEW o \in SUBSET DestroyOpts, Destroy(v, o) PROVE KeepInv'
  BY <1>24 DEF Destroy, Call
<1>25. ASSUME Lookup PROVE KeepInv'
  BY <1>25 DEF Lookup, Goto, Refuse
<1>26. ASSUME IsActive PROVE KeepInv'
  BY <1>26 DEF IsActive, Goto, Refuse, AfterKill
<1>27. ASSUME Kill PROVE KeepInv'
  BY <1>27 DEF Kill, Goto, Refuse, AfterKill, Inactive
<1>28. ASSUME Undefine PROVE KeepInv'
  BY <1>28 DEF Undefine, Goto, Refuse
<1>29. ASSUME DeleteXml PROVE KeepInv'
  BY <1>29 DEF DeleteXml, DeleteFile, Goto, Refuse
<1>30. ASSUME DeleteImage PROVE KeepInv'
  BY <1>30 DEF DeleteImage, DeleteFile, Goto, Refuse
<1>31. ASSUME DeleteLog PROVE KeepInv'
  BY <1>31 DEF DeleteLog, DeleteFile, Goto, Refuse, Return
<1>32. ASSUME NEW v \in VMs, Remove(v) PROVE KeepInv'
  BY <1>32 DEF Remove
<1>33. ASSUME Unregister PROVE KeepInv'
  BY <1>33 DEF Unregister, Return
<1>34. ASSUME RemoveAll PROVE KeepInv'
  BY <1>34 DEF RemoveAll
<1>35. ASSUME NEW v \in VMs, RemoveNext(v) PROVE KeepInv'
  BY <1>35 DEF RemoveNext
<1>36. ASSUME NEW b \in BOOLEAN, SetKeepIssueVm(b) PROVE KeepInv'
  BY <1>36 DEF SetKeepIssueVm
<1>37. ASSUME NEW v \in VMs, GuestPowerOff(v) PROVE KeepInv'
  BY <1>37 DEF GuestPowerOff
<1>38. ASSUME NEW v \in VMs, GuestStops(v) PROVE KeepInv'
  BY <1>38 DEF GuestStops, Inactive
<1>39. CASE UNCHANGED vars
  BY <1>39 DEF vars
<1>40. ASSUME NEW v \in VMs, EarlierEnds(v) PROVE KeepInv'
  BY <1>40 DEF EarlierEnds
<1> HIDE DEF KeepInv
<1> QED
  BY <1>1, <1>2, <1>3, <1>4, <1>5, <1>6, <1>7, <1>8, <1>9, <1>10, <1>11,
     <1>12, <1>13, <1>14, <1>15, <1>16, <1>17, <1>18, <1>19, <1>20, <1>21,
     <1>22, <1>23, <1>24, <1>25, <1>26, <1>27, <1>28, <1>29, <1>30, <1>31,
     <1>32, <1>33, <1>34, <1>35, <1>36, <1>37, <1>38, <1>39, <1>40
  DEF Next, Step, TestCalls, Guests

\* Every step leaves a live domain its own disk.
LEMMA ActiveHasDiskStep == TypeOK /\ CallInv /\ NewInv /\ DestroyInv /\ ActiveHasDisk /\ [Next]_vars => ActiveHasDisk'
<1> SUFFICES ASSUME TypeOK /\ CallInv /\ NewInv /\ DestroyInv /\ ActiveHasDisk, [Next]_vars PROVE ActiveHasDisk'
  OBVIOUS
<1> USE VmAssumption DEF TypeOK, CallTypeOK, CallInv, NewInv, factoryVars,
      fileVars, domVars, histVars, cmdVars, callVars, Active, DestroyInv, Refused,
      ActiveHasDisk
<1>1. ASSUME NEW v \in VMs, NEW auto \in BOOLEAN, NewVmClone(v, auto) PROVE ActiveHasDisk'
  BY <1>1 DEF NewVmClone, NewVm
<1>2. ASSUME NEW v \in VMs, NEW auto \in BOOLEAN, NewVmDiskImg(v, auto) PROVE ActiveHasDisk'
  BY <1>2 DEF NewVmDiskImg, NewVm
<1>3. ASSUME Construct PROVE ActiveHasDisk'
  BY <1>3 DEF Construct, Goto, Return
<1>4. ASSUME ConstructFails PROVE ActiveHasDisk'
  BY <1>4 DEF ConstructFails, Raise, Refuse
<1>5. ASSUME NEW v \in VMs, Create(v) PROVE ActiveHasDisk'
  BY <1>5 DEF Create, Call
<1>6. ASSUME DefineXML PROVE ActiveHasDisk'
  BY <1>6 DEF DefineXML, Goto, Raise
<1>7. ASSUME DomainCreate PROVE ActiveHasDisk'
  BY <1>7 DEF DomainCreate, Goto, Return, Raise
<1>8. ASSUME NEW v \in VMs, Start(v) PROVE ActiveHasDisk'
  BY <1>8 DEF Start, Call
<1>9. ASSUME StartCheck PROVE ActiveHasDisk'
  BY <1>9 DEF StartCheck, Goto, Raise
<1>10. ASSUME NEW v \in VMs, Resume(v) PROVE ActiveHasDisk'
  BY <1>10 DEF Resume, Call
<1>11. ASSUME ResumeCheck PROVE ActiveHasDisk'
  BY <1>11 DEF ResumeCheck, Return, Goto, Raise
<1>12. ASSUME DoResume PROVE ActiveHasDisk'
  BY <1>12 DEF DoResume, Return, Raise
<1>13. ASSUME NEW v \in VMs, Suspend(v) PROVE ActiveHasDisk'
  BY <1>13 DEF Suspend, Call
<1>14. ASSUME SuspendCheck PROVE ActiveHasDisk'
  BY <1>14 DEF SuspendCheck, Return, Goto, Raise
<1>15. ASSUME DoSuspend PROVE ActiveHasDisk'
  BY <1>15 DEF DoSuspend, Return, Raise
<1>16. ASSUME NEW v \in VMs, Ask(v) PROVE ActiveHasDisk'
  BY <1>16 DEF Ask, Call
<1>17. ASSUME AskGuest PROVE ActiveHasDisk'
  BY <1>17 DEF AskGuest, Return, Raise
<1>18. ASSUME NEW v \in VMs, NEW n \in BOOLEAN, SshRun(v, n) PROVE ActiveHasDisk'
  BY <1>18 DEF SshRun, Call
<1>19. ASSUME NEW v \in VMs, CommandEnds(v) PROVE ActiveHasDisk'
  BY <1>19 DEF CommandEnds
<1>20. ASSUME SshReturn PROVE ActiveHasDisk'
  BY <1>20 DEF SshReturn, Return
<1>21. ASSUME NEW v \in VMs, NEW s \in DomStates \ {"none"}, WaitForState(v, s) PROVE ActiveHasDisk'
  BY <1>21 DEF WaitForState
<1>22. ASSUME WaitCheck PROVE ActiveHasDisk'
  BY <1>22 DEF WaitCheck, Return, Goto, Raise
<1>23. ASSUME WaitCompare PROVE ActiveHasDisk'
  BY <1>23 DEF WaitCompare, Return, Raise
<1>24. ASSUME NEW v \in VMs, NEW o \in SUBSET DestroyOpts, Destroy(v, o) PROVE ActiveHasDisk'
  BY <1>24 DEF Destroy, Call
<1>25. ASSUME Lookup PROVE ActiveHasDisk'
  BY <1>25 DEF Lookup, Goto, Refuse
<1>26. ASSUME IsActive PROVE ActiveHasDisk'
  BY <1>26 DEF IsActive, Goto, Refuse, AfterKill
<1>27. ASSUME Kill PROVE ActiveHasDisk'
  BY <1>27 DEF Kill, Goto, Refuse, AfterKill, Inactive
<1>28. ASSUME Undefine PROVE ActiveHasDisk'
  BY <1>28 DEF Undefine, Goto, Refuse
<1>29. ASSUME DeleteXml PROVE ActiveHasDisk'
  BY <1>29 DEF DeleteXml, DeleteFile, Goto, Refuse
<1>30. ASSUME DeleteImage PROVE ActiveHasDisk'
  BY <1>30 DEF DeleteImage, DeleteFile, Goto, Refuse
<1>31. ASSUME DeleteLog PROVE ActiveHasDisk'
  BY <1>31 DEF DeleteLog, DeleteFile, Goto, Refuse, Return
<1>32. ASSUME NEW v \in VMs, Remove(v) PROVE ActiveHasDisk'
  BY <1>32 DEF Remove
<1>33. ASSUME Unregister PROVE ActiveHasDisk'
  BY <1>33 DEF Unregister, Return
<1>34. ASSUME RemoveAll PROVE ActiveHasDisk'
  BY <1>34 DEF RemoveAll
<1>35. ASSUME NEW v \in VMs, RemoveNext(v) PROVE ActiveHasDisk'
  BY <1>35 DEF RemoveNext
<1>36. ASSUME NEW b \in BOOLEAN, SetKeepIssueVm(b) PROVE ActiveHasDisk'
  BY <1>36 DEF SetKeepIssueVm
<1>37. ASSUME NEW v \in VMs, GuestPowerOff(v) PROVE ActiveHasDisk'
  BY <1>37 DEF GuestPowerOff
<1>38. ASSUME NEW v \in VMs, GuestStops(v) PROVE ActiveHasDisk'
  BY <1>38 DEF GuestStops, Inactive
<1>39. CASE UNCHANGED vars
  BY <1>39 DEF vars
<1>40. ASSUME NEW v \in VMs, EarlierEnds(v) PROVE ActiveHasDisk'
  BY <1>40 DEF EarlierEnds
<1> HIDE DEF ActiveHasDisk
<1> QED
  BY <1>1, <1>2, <1>3, <1>4, <1>5, <1>6, <1>7, <1>8, <1>9, <1>10, <1>11,
     <1>12, <1>13, <1>14, <1>15, <1>16, <1>17, <1>18, <1>19, <1>20, <1>21,
     <1>22, <1>23, <1>24, <1>25, <1>26, <1>27, <1>28, <1>29, <1>30, <1>31,
     <1>32, <1>33, <1>34, <1>35, <1>36, <1>37, <1>38, <1>39, <1>40
  DEF Next, Step, TestCalls, Guests

\* Every step keeps what the factory forgot out of the system.
LEMMA UnregisteredStep == TypeOK /\ CallInv /\ NewInv /\ DestroyInv /\ UnregisteredLeavesNothing /\ [Next]_vars => UnregisteredLeavesNothing'
<1> SUFFICES ASSUME TypeOK /\ CallInv /\ NewInv /\ DestroyInv /\ UnregisteredLeavesNothing, [Next]_vars PROVE UnregisteredLeavesNothing'
  OBVIOUS
<1> USE VmAssumption DEF TypeOK, CallTypeOK, CallInv, NewInv, factoryVars,
      fileVars, domVars, histVars, cmdVars, callVars, Active, DestroyInv, Refused
<1>1. ASSUME NEW v \in VMs, NEW auto \in BOOLEAN, NewVmClone(v, auto) PROVE UnregisteredLeavesNothing'
  BY <1>1 DEF NewVmClone, NewVm, LeftNothing, DestroyOpts, UnregisteredLeavesNothing
<1>2. ASSUME NEW v \in VMs, NEW auto \in BOOLEAN, NewVmDiskImg(v, auto) PROVE UnregisteredLeavesNothing'
  <2> SUFFICES ASSUME NEW u \in VMs, u \notin vms', ~(pc' = "ctor" /\ cur' = u)
               PROVE  LeftNothing(u)'
    BY DEF UnregisteredLeavesNothing
  <2>1. u # v /\ pc = "idle" /\ u \notin vms
    BY <1>2 DEF NewVmDiskImg, NewVm
  <2>2. LeftNothing(u)
    BY <2>1 DEF UnregisteredLeavesNothing
  <2> QED
    BY <1>2, <2>1, <2>2 DEF NewVmDiskImg, NewVm, LeftNothing
<1>3. ASSUME Construct PROVE UnregisteredLeavesNothing'
  BY <1>3 DEF Construct, Goto, Return, LeftNothing, DestroyOpts, UnregisteredLeavesNothing
<1>4. ASSUME ConstructFails PROVE UnregisteredLeavesNothing'
  <2> SUFFICES ASSUME NEW u \in VMs, u \notin vms', ~(pc' = "ctor" /\ cur' = u)
               PROVE  LeftNothing(u)'
    BY DEF UnregisteredLeavesNothing
  <2>1. refused \subseteq refused' /\ <<cur, "ctor">> \in refused'
    BY <1>4 DEF ConstructFails, Refuse
  <2>2. /\ pc = "ctor" /\ vms' = vms /\ xmls' \in {xmls, xmls \cup {cur}}
        /\ UNCHANGED <<dom, disk, images, logs>>
    BY <1>4 DEF ConstructFails
  <2>3. CASE u # cur
    <3>1. LeftNothing(u)
      BY <2>2, <2>3 DEF UnregisteredLeavesNothing
    <3> QED
      BY <2>3, <2>1, <2>2, <3>1 DEF LeftNothing
  <2>4. CASE u = cur
    BY <2>4, <2>1, <2>2 DEF LeftNothing
  <2> QED
    BY <2>3, <2>4
<1>5. ASSUME NEW v \in VMs, Create(v) PROVE UnregisteredLeavesNothing'
  BY <1>5 DEF Create, Call, LeftNothing, DestroyOpts, UnregisteredLeavesNothing
<1>6. ASSUME DefineXML PROVE UnregisteredLeavesNothing'
  <2> SUFFICES ASSUME NEW u \in VMs, u \notin vms', ~(pc' = "ctor" /\ cur' = u)
               PROVE  LeftNothing(u)'
    BY DEF UnregisteredLeavesNothing
  <2>1. CASE u # cur
    <3>1. LeftNothing(u)
      BY <1>6, <2>1 DEF DefineXML, Goto, Raise, UnregisteredLeavesNothing
    <3> QED
      BY <1>6, <2>1, <3>1 DEF DefineXML, Goto, Raise, LeftNothing
  <2>2. CASE u = cur
    BY <1>6, <2>2 DEF DefineXML, Goto, Raise, Destroying
  <2> QED
    BY <2>1, <2>2
<1>7. ASSUME DomainCreate PROVE UnregisteredLeavesNothing'
  <2> SUFFICES ASSUME NEW u \in VMs, u \notin vms', ~(pc' = "ctor" /\ cur' = u)
               PROVE  LeftNothing(u)'
    BY DEF UnregisteredLeavesNothing
  <2>1. CASE u # cur
    <3>1. LeftNothing(u)
      BY <1>7, <2>1 DEF DomainCreate, Goto, Return, Raise, UnregisteredLeavesNothing
    <3> QED
      BY <1>7, <2>1, <3>1 DEF DomainCreate, Goto, Return, Raise, LeftNothing
  <2>2. CASE u = cur
    BY <1>7, <2>2 DEF DomainCreate, Goto, Return, Raise, Destroying
  <2> QED
    BY <2>1, <2>2
<1>8. ASSUME NEW v \in VMs, Start(v) PROVE UnregisteredLeavesNothing'
  BY <1>8 DEF Start, Call, LeftNothing, DestroyOpts, UnregisteredLeavesNothing
<1>9. ASSUME StartCheck PROVE UnregisteredLeavesNothing'
  BY <1>9 DEF StartCheck, Goto, Raise, LeftNothing, DestroyOpts, UnregisteredLeavesNothing
<1>10. ASSUME NEW v \in VMs, Resume(v) PROVE UnregisteredLeavesNothing'
  BY <1>10 DEF Resume, Call, LeftNothing, DestroyOpts, UnregisteredLeavesNothing
<1>11. ASSUME ResumeCheck PROVE UnregisteredLeavesNothing'
  BY <1>11 DEF ResumeCheck, Return, Goto, Raise, LeftNothing, DestroyOpts, UnregisteredLeavesNothing
<1>12. ASSUME DoResume PROVE UnregisteredLeavesNothing'
  BY <1>12 DEF DoResume, Return, Raise, LeftNothing, DestroyOpts, UnregisteredLeavesNothing
<1>13. ASSUME NEW v \in VMs, Suspend(v) PROVE UnregisteredLeavesNothing'
  BY <1>13 DEF Suspend, Call, LeftNothing, DestroyOpts, UnregisteredLeavesNothing
<1>14. ASSUME SuspendCheck PROVE UnregisteredLeavesNothing'
  BY <1>14 DEF SuspendCheck, Return, Goto, Raise, LeftNothing, DestroyOpts, UnregisteredLeavesNothing
<1>15. ASSUME DoSuspend PROVE UnregisteredLeavesNothing'
  BY <1>15 DEF DoSuspend, Return, Raise, LeftNothing, DestroyOpts, UnregisteredLeavesNothing
<1>16. ASSUME NEW v \in VMs, Ask(v) PROVE UnregisteredLeavesNothing'
  BY <1>16 DEF Ask, Call, LeftNothing, DestroyOpts, UnregisteredLeavesNothing
<1>17. ASSUME AskGuest PROVE UnregisteredLeavesNothing'
  BY <1>17 DEF AskGuest, Return, Raise, LeftNothing, DestroyOpts, UnregisteredLeavesNothing
<1>18. ASSUME NEW v \in VMs, NEW n \in BOOLEAN, SshRun(v, n) PROVE UnregisteredLeavesNothing'
  BY <1>18 DEF SshRun, Call, LeftNothing, DestroyOpts, UnregisteredLeavesNothing
<1>19. ASSUME NEW v \in VMs, CommandEnds(v) PROVE UnregisteredLeavesNothing'
  BY <1>19 DEF CommandEnds, LeftNothing, DestroyOpts, UnregisteredLeavesNothing
<1>20. ASSUME SshReturn PROVE UnregisteredLeavesNothing'
  BY <1>20 DEF SshReturn, Return, LeftNothing, DestroyOpts, UnregisteredLeavesNothing
<1>21. ASSUME NEW v \in VMs, NEW s \in DomStates \ {"none"}, WaitForState(v, s) PROVE UnregisteredLeavesNothing'
  BY <1>21 DEF WaitForState, LeftNothing, DestroyOpts, UnregisteredLeavesNothing
<1>22. ASSUME WaitCheck PROVE UnregisteredLeavesNothing'
  BY <1>22 DEF WaitCheck, Return, Goto, Raise, LeftNothing, DestroyOpts, UnregisteredLeavesNothing
<1>23. ASSUME WaitCompare PROVE UnregisteredLeavesNothing'
  BY <1>23 DEF WaitCompare, Return, Raise, LeftNothing, DestroyOpts, UnregisteredLeavesNothing
<1>24. ASSUME NEW v \in VMs, NEW o \in SUBSET DestroyOpts, Destroy(v, o) PROVE UnregisteredLeavesNothing'
  BY <1>24 DEF Destroy, Call, LeftNothing, DestroyOpts, UnregisteredLeavesNothing
<1>25. ASSUME Lookup PROVE UnregisteredLeavesNothing'
  BY <1>25 DEF Lookup, Goto, Refuse, LeftNothing, DestroyOpts, UnregisteredLeavesNothing
<1>26. ASSUME IsActive PROVE UnregisteredLeavesNothing'
  BY <1>26 DEF IsActive, Goto, Refuse, AfterKill, LeftNothing, DestroyOpts, UnregisteredLeavesNothing
<1>27. ASSUME Kill PROVE UnregisteredLeavesNothing'
  BY <1>27 DEF Kill, Goto, Refuse, AfterKill, Inactive, LeftNothing, DestroyOpts, UnregisteredLeavesNothing
<1>28. ASSUME Undefine PROVE UnregisteredLeavesNothing'
  BY <1>28 DEF Undefine, Goto, Refuse, LeftNothing, DestroyOpts, UnregisteredLeavesNothing
<1>29. ASSUME DeleteXml PROVE UnregisteredLeavesNothing'
  BY <1>29 DEF DeleteXml, DeleteFile, Goto, Refuse, LeftNothing, DestroyOpts, UnregisteredLeavesNothing
<1>30. ASSUME DeleteImage PROVE UnregisteredLeavesNothing'
  <2> SUFFICES ASSUME NEW u \in VMs, u \notin vms', ~(pc' = "ctor" /\ cur' = u)
               PROVE  LeftNothing(u)'
    BY DEF UnregisteredLeavesNothing
  <2>1. CASE u # cur
    <3>1. LeftNothing(u)
      BY <1>30, <2>1 DEF DeleteImage, DeleteFile, Goto, Refuse, UnregisteredLeavesNothing
    <3> QED
      BY <1>30, <2>1, <3>1 DEF DeleteImage, DeleteFile, Goto, Refuse, LeftNothing
  <2>2. CASE u = cur
    <3>1. LeftNothing(u)
      BY <1>30, <2>2 DEF DeleteImage, DeleteFile, Goto, Refuse, UnregisteredLeavesNothing
    <3>2. images' \subseteq images /\ refused \subseteq refused'
      BY <1>30 DEF DeleteImage, DeleteFile, Refuse
    <3> QED
      BY <1>30, <3>1, <3>2 DEF DeleteImage, LeftNothing
  <2> QED
    BY <2>1, <2>2
<1>31. ASSUME DeleteLog PROVE UnregisteredLeavesNothing'
  <2> SUFFICES ASSUME NEW u \in VMs, u \notin vms', ~(pc' = "ctor" /\ cur' = u)
               PROVE  LeftNothing(u)'
    BY DEF UnregisteredLeavesNothing
  <2>1. CASE u # cur
    <3>1. LeftNothing(u)
      BY <1>31, <2>1 DEF DeleteLog, DeleteFile, Goto, Refuse, Return, UnregisteredLeavesNothing
    <3> QED
      BY <1>31, <2>1, <3>1 DEF DeleteLog, DeleteFile, Goto, Refuse, Return, LeftNothing
  <2>2. CASE u = cur
    BY <1>31, <2>2 DEF DeleteLog, DeleteFile, Goto, Refuse, Return, LeftNothing, DestroyOpts
  <2> QED
    BY <2>1, <2>2
<1>32. ASSUME NEW v \in VMs, Remove(v) PROVE UnregisteredLeavesNothing'
  BY <1>32 DEF Remove, LeftNothing, DestroyOpts, UnregisteredLeavesNothing
<1>33. ASSUME Unregister PROVE UnregisteredLeavesNothing'
  <2> SUFFICES ASSUME NEW u \in VMs, u \notin vms', ~(pc' = "ctor" /\ cur' = u)
               PROVE  LeftNothing(u)'
    BY DEF UnregisteredLeavesNothing
  <2>1. CASE u # cur
    <3>1. LeftNothing(u)
      BY <1>33, <2>1 DEF Unregister, Return, UnregisteredLeavesNothing
    <3> QED
      BY <1>33, <2>1, <3>1 DEF Unregister, Return, LeftNothing
  <2>2. CASE u = cur
    BY <1>33, <2>2 DEF Unregister, Return, LeftNothing, DestroyOpts
  <2> QED
    BY <2>1, <2>2
<1>34. ASSUME RemoveAll PROVE UnregisteredLeavesNothing'
  BY <1>34 DEF RemoveAll, LeftNothing, DestroyOpts, UnregisteredLeavesNothing
<1>35. ASSUME NEW v \in VMs, RemoveNext(v) PROVE UnregisteredLeavesNothing'
  BY <1>35 DEF RemoveNext, LeftNothing, DestroyOpts, UnregisteredLeavesNothing
<1>36. ASSUME NEW b \in BOOLEAN, SetKeepIssueVm(b) PROVE UnregisteredLeavesNothing'
  BY <1>36 DEF SetKeepIssueVm, LeftNothing, DestroyOpts, UnregisteredLeavesNothing
<1>37. ASSUME NEW v \in VMs, GuestPowerOff(v) PROVE UnregisteredLeavesNothing'
  BY <1>37 DEF GuestPowerOff, LeftNothing, DestroyOpts, UnregisteredLeavesNothing
<1>38. ASSUME NEW v \in VMs, GuestStops(v) PROVE UnregisteredLeavesNothing'
  BY <1>38 DEF GuestStops, Inactive, LeftNothing, DestroyOpts, UnregisteredLeavesNothing
<1>39. CASE UNCHANGED vars
  BY <1>39 DEF vars, LeftNothing, UnregisteredLeavesNothing
<1>40. ASSUME NEW v \in VMs, EarlierEnds(v) PROVE UnregisteredLeavesNothing'
  BY <1>40 DEF EarlierEnds, LeftNothing, UnregisteredLeavesNothing
<1> HIDE DEF UnregisteredLeavesNothing
<1> QED
  BY <1>1, <1>2, <1>3, <1>4, <1>5, <1>6, <1>7, <1>8, <1>9, <1>10, <1>11,
     <1>12, <1>13, <1>14, <1>15, <1>16, <1>17, <1>18, <1>19, <1>20, <1>21,
     <1>22, <1>23, <1>24, <1>25, <1>26, <1>27, <1>28, <1>29, <1>30, <1>31,
     <1>32, <1>33, <1>34, <1>35, <1>36, <1>37, <1>38, <1>39, <1>40
  DEF Next, Step, TestCalls, Guests

-----------------------------------------------------------------------------
\* The initial state satisfies the invariant.
LEMMA InitIInv == Init => IInv
<1> SUFFICES ASSUME Init PROVE IInv
  OBVIOUS
<1> USE VmAssumption DEF Init
<1>1. TypeOK
  <2>1. CallTypeOK
    BY DEF CallTypeOK, PCs, DomStates, Options
  <2>2. disk \in [VMs -> VMs \cup Disks \cup {NoDisk}] /\ dom \in [VMs -> DomStates]
    BY DEF DomStates
  <2>3. cmd \in [VMs -> {"none", "running", "ok", "fail"}]
    OBVIOUS
  <2> QED
    BY <2>1, <2>2, <2>3 DEF TypeOK
<1>2. CallInv
  BY DEF CallInv
<1>3. NewInv
  BY DEF NewInv
<1>4. DestroyInv /\ KeepInv
  BY DEF DestroyInv, KeepInv, Kept
<1>5. ActiveHasDisk /\ UnregisteredLeavesNothing
  BY DEF ActiveHasDisk, Active, UnregisteredLeavesNothing, LeftNothing
<1> QED
  BY <1>1, <1>2, <1>3, <1>4, <1>5 DEF IInv

\* IInv is an invariant of the factory, for any number of guests and disks
\* and any number of failures underneath.
THEOREM Invariance == Spec => []IInv
<1>1. IInv /\ [Next]_vars => IInv'
  BY TypeOKStep, CallInvStep, NewInvStep, DestroyInvStep, KeepInvStep,
     ActiveHasDiskStep, UnregisteredStep DEF IInv
<1> QED
  BY InitIInv, <1>1, PTL DEF Spec

\* Types are kept by every call, guest and failure.
THEOREM TypeCorrect == Spec => []TypeOK
<1>1. IInv => TypeOK
  BY DEF IInv
<1> QED
  BY Invariance, <1>1, PTL

\* A live domain keeps its own disk: destroy() takes the image only after the
\* domain is gone or libvirt refused to find or to kill it.
THEOREM DiskOutlivesDomain == Spec => []ActiveHasDisk
<1>1. IInv => ActiveHasDisk
  BY DEF IInv
<1> QED
  BY Invariance, <1>1, PTL

\* A guest taken out of the factory has left nothing that could be deleted.
THEOREM RemovalIsComplete == Spec => []UnregisteredLeavesNothing
<1>1. IInv => UnregisteredLeavesNothing
  BY DEF IInv
<1> QED
  BY Invariance, <1>1, PTL

\* No failed SSH command is forgotten, whether or not ssh_run waited for it.
THEOREM FailureIsRemembered == Spec => []FailedIsKept
<1>1. IInv => FailedIsKept
  BY DEF IInv, TypeOK, KeepInv, FailedIsKept
<1> QED
  BY Invariance, <1>1, PTL

\* Only the last step of remove() takes a guest out of the registry.
LEMMA Unregistering ==
  Next => vms \subseteq vms' \/ (pc = "unregister" /\ vms' = vms \ {cur})
  BY DEF Next, Step, TestCalls, Guests, factoryVars, fileVars, DeleteFile, NewVm,
      NewVmClone, NewVmDiskImg, Construct, ConstructFails, Create, DefineXML,
      DomainCreate, Start, StartCheck, Resume, ResumeCheck, DoResume, Suspend,
      SuspendCheck, DoSuspend, Ask, AskGuest, SshRun, CommandEnds,
      EarlierEnds, SshReturn,
      WaitForState, WaitCheck, WaitCompare, Destroy, Lookup, IsActive, Kill,
      Undefine, DeleteXml, DeleteImage, DeleteLog, Remove, Unregister,
      RemoveAll, RemoveNext, SetKeepIssueVm, GuestPowerOff, GuestStops

\* Only destroy() deletes an image, and only that of its own guest.
LEMMA ImageDeletion ==
  Next => images \subseteq images' \/ (pc = "delImage" /\ images' = images \ {disk[cur]})
  BY DEF Next, Step, TestCalls, Guests, factoryVars, fileVars, DeleteFile, NewVm,
      NewVmClone, NewVmDiskImg, Construct, ConstructFails, Create, DefineXML,
      DomainCreate, Start, StartCheck, Resume, ResumeCheck, DoResume, Suspend,
      SuspendCheck, DoSuspend, Ask, AskGuest, SshRun, CommandEnds,
      EarlierEnds, SshReturn,
      WaitForState, WaitCheck, WaitCompare, Destroy, Lookup, IsActive, Kill,
      Undefine, DeleteXml, DeleteImage, DeleteLog, Remove, Unregister,
      RemoveAll, RemoveNext, SetKeepIssueVm, GuestPowerOff, GuestStops

\* remove(), removeall() and __del__ respect keep_issue_vm on every step.
THEOREM KeptVmIsKept == Spec => KeptVmStays
<1>1. IInv /\ [Next]_vars => [KeptVmStaysStep]_vars
  <2> SUFFICES ASSUME IInv, Next, NEW v \in vms, Kept(v)
               PROVE  /\ v \in vms'
                      /\ v \in images /\ v \notin images' => "unregister" \notin opts
    BY DEF KeptVmStaysStep
  <2>1. v \in vms'
    BY Unregistering DEF IInv, CallInv, KeepInv
  <2>2. v \in images /\ v \notin images' => "unregister" \notin opts
    BY ImageDeletion, VmAssumption DEF IInv, CallInv, NewInv, KeepInv, TypeOK
  <2> QED
    BY <2>1, <2>2
<1> QED
  BY Invariance, <1>1, PTL DEF Spec, KeptVmStays

-----------------------------------------------------------------------------
(* How long a call can take: the safety half of CallsReturn.               *)

\* Steps the call on the present guest can still take.  start() after create()
\* may come to domain.create() a second time, and wait_for_state takes two steps
\* for each poll that is left.
StepsLeft ==
  CASE pc \in {"idle", "removeall"} -> 0
    [] pc \in {"unregister", "doResume", "doSuspend", "ask", "ssh", "sshNoWait"} -> 1
    [] pc \in {"delLog", "resume", "suspend"} -> 2
    [] pc \in {"delImage", "start"} -> 3
    [] pc = "delXml" -> 4
    [] pc = "undefine" -> 5
    [] pc = "kill" -> 6
    [] pc = "isActive" -> 7
    [] pc = "lookup" -> 8
    [] pc = "create" -> IF "auto" \in opts THEN 4 ELSE 1
    [] pc = "define" -> 5
    [] pc = "ctor" -> 6
    [] pc = "waitCheck" -> 1 + 2 * (WaitLimit - count)
    [] pc = "waitCompare" -> 2 * (WaitLimit - count)

\* What a step does to a call in progress: end it, strike a guest off the list of
\* removeall(), come nearer to the end of the call on the present guest, or, when
\* it is a step of a guest or of a command, nothing.
Nearer ==
  pc # "idle" => \/ pc' = "idle"
                 \/ todo' \subseteq todo /\ todo' # todo
                 \/ todo' = todo /\ StepsLeft' < StepsLeft
                 \/ Guests /\ UNCHANGED callVars

\* The way that is left has a length.
LEMMA StepsLeftType == IInv => StepsLeft \in Nat
<1> SUFFICES ASSUME IInv PROVE StepsLeft \in Nat
  OBVIOUS
<1>1. pc \in PCs /\ count \in 0..WaitLimit
  BY DEF IInv, TypeOK, CallTypeOK
<1>2. 1 + 2 * (WaitLimit - count) \in Nat /\ 2 * (WaitLimit - count) \in Nat
  BY <1>1, VmAssumption
<1> QED
  BY <1>1, <1>2 DEF StepsLeft, PCs

\* Returning and raising end the call on the present guest.
LEMMA EndsNearer ==
  ASSUME IInv, pc \notin {"idle", "removeall"}, Return \/ Raise
  PROVE  Nearer
<1>1. pc' \in {"idle", "removeall"} /\ (pc' = "idle" \/ todo' = todo)
  BY DEF Return, Raise
<1>2. StepsLeft' = 0
  BY <1>1 DEF StepsLeft
<1>3. StepsLeft > 0
  <2>1. pc \in PCs \ {"idle", "removeall"} /\ count \in 0..WaitLimit /\ (pc = "waitCompare" => count < WaitLimit)
    BY DEF IInv, TypeOK, CallTypeOK, CallInv
  <2>2. 1 + 2 * (WaitLimit - count) > 0 /\ (pc = "waitCompare" => 2 * (WaitLimit - count) > 0)
    BY <2>1, VmAssumption
  <2> QED
    BY <2>1, <2>2 DEF StepsLeft, PCs
<1> QED
  BY <1>1, <1>2, <1>3 DEF Nearer

\* Going on to a later step is coming nearer.
LEMMA GotoNearer ==
  ASSUME NEW p, Goto(p),
         \/ pc = "ctor" /\ p = "define"
         \/ pc = "define" /\ p = "create"
         \/ pc = "create" /\ p = "start" /\ "auto" \in opts
         \/ pc = "start" /\ p = "resume"
         \/ pc = "resume" /\ p = "doResume"
         \/ pc = "suspend" /\ p = "doSuspend"
         \/ pc = "lookup" /\ p \in {"isActive", "delXml"}
         \/ pc = "isActive" /\ p \in {"kill", "undefine", "delXml"}
         \/ pc = "kill" /\ p \in {"undefine", "delXml"}
         \/ pc = "undefine" /\ p = "delXml"
         \/ pc = "delXml" /\ p = "delImage"
         \/ pc = "delImage" /\ p = "delLog"
         \/ pc = "delLog" /\ p = "unregister"
  PROVE  Nearer
<1>1. pc' = p /\ opts' = opts /\ todo' = todo
  BY DEF Goto
<1> QED
  BY <1>1 DEF Nearer, StepsLeft

\* Each step of a call brings its end nearer, whether libvirt and the OS do what
\* they are asked or not.
LEMMA NearerStep == IInv /\ [Next]_vars => [Nearer]_vars
<1> SUFFICES ASSUME IInv, Next PROVE Nearer
  OBVIOUS
<1>1. ASSUME Construct \/ ConstructFails PROVE Nearer
  BY <1>1, EndsNearer, GotoNearer DEF Construct, ConstructFails
<1>2. ASSUME DefineXML \/ DomainCreate PROVE Nearer
  BY <1>2, EndsNearer, GotoNearer DEF DefineXML, DomainCreate
<1>3. ASSUME StartCheck PROVE Nearer
  <2>1. CASE pc' = "create" /\ opts' = {"start"} /\ todo' = todo
    BY <1>3, <2>1 DEF StartCheck, Nearer, StepsLeft
  <2> QED
    BY <1>3, <2>1, EndsNearer, GotoNearer DEF StartCheck
<1>4. ASSUME ResumeCheck \/ DoResume \/ SuspendCheck \/ DoSuspend \/ AskGuest \/ SshReturn PROVE Nearer
  BY <1>4, EndsNearer, GotoNearer DEF ResumeCheck, DoResume, SuspendCheck, DoSuspend, AskGuest, SshReturn
<1>5. ASSUME WaitCheck PROVE Nearer
  <2>1. CASE Goto("waitCompare")
    <3>1. pc = "waitCheck" /\ pc' = "waitCompare" /\ count' = count /\ todo' = todo
      BY <1>5, <2>1 DEF WaitCheck, Goto
    <3>2. count \in 0..WaitLimit
      BY DEF IInv, TypeOK, CallTypeOK
    <3> QED
      BY <3>1, <3>2, VmAssumption DEF Nearer, StepsLeft
  <2> QED
    BY <1>5, <2>1, EndsNearer DEF WaitCheck
<1>6. ASSUME WaitCompare PROVE Nearer
  <2>1. CASE pc' = "waitCheck" /\ count' = count + 1 /\ todo' = todo
    <3>1. pc = "waitCompare" /\ count \in 0..WaitLimit
      BY <1>6 DEF WaitCompare, IInv, TypeOK, CallTypeOK
    <3> QED
      BY <2>1, <3>1, VmAssumption DEF Nearer, StepsLeft
  <2> QED
    BY <1>6, <2>1, EndsNearer DEF WaitCompare
<1>7. ASSUME Lookup \/ IsActive \/ Kill PROVE Nearer
  BY <1>7, GotoNearer DEF Lookup, IsActive, Kill, AfterKill
<1>8. ASSUME Undefine \/ DeleteXml \/ DeleteImage PROVE Nearer
  BY <1>8, GotoNearer DEF Undefine, DeleteXml, DeleteImage
<1>9. ASSUME DeleteLog \/ Unregister PROVE Nearer
  BY <1>9, EndsNearer, GotoNearer DEF DeleteLog, Unregister
<1>10. ASSUME NEW v \in VMs, RemoveNext(v) PROVE Nearer
  BY <1>10 DEF RemoveNext, Nearer
<1>11. ASSUME TestCalls PROVE Nearer
  <2>1. pc = "idle"
    BY <1>11 DEF TestCalls, NewVmClone, NewVmDiskImg, NewVm, Create, Start, Resume, Suspend, Ask, Remove,
           SshRun, WaitForState, Destroy, Call, RemoveAll, SetKeepIssueVm
  <2> QED
    BY <2>1 DEF Nearer
<1>12. ASSUME Guests PROVE Nearer
  <2>1. UNCHANGED callVars
    BY <1>12 DEF Guests, CommandEnds, EarlierEnds, GuestPowerOff, GuestStops
  <2> QED
    BY <1>12, <2>1 DEF Nearer
<1> QED
  BY <1>1, <1>2, <1>3, <1>4, <1>5, <1>6, <1>7, <1>8, <1>9, <1>10, <1>11, <1>12 DEF Next, Step

\* Every step of a call on a guest leads towards its end, for any number of
\* guests, polls and failures: no step of destroy(), start(), wait_for_state() or
\* removeall() leads back, whatever the guests do in between.
THEOREM CallsAreBounded == Spec => [][Nearer]_vars /\ [](StepsLeft \in Nat)
<1>1. IInv /\ [Next]_vars => [Nearer]_vars
  BY NearerStep
<1>2. IInv => StepsLeft \in Nat
  BY StepsLeftType
<1> QED
  BY <1>1, <1>2, Invariance, PTL DEF Spec

=============================================================================
