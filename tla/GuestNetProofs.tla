--------------------------- MODULE GuestNetProofs ---------------------------
(***************************************************************************)
(* For any addresses, limits and number of leases: a call reaches another  *)
(* guest only at an address that its own guest has had and given up.       *)
(***************************************************************************)
EXTENDS GuestNet, TLAPS

\* Owner(a) is a guest that has the address, and None only when nobody has it.
LEMMA OwnerHas ==
  ASSUME NEW a
  PROVE  /\ Owner(a) \in Hosts \cup {None}
         /\ Owner(a) # None => addr[Owner(a)] = a
         /\ Owner(a) = None => \A h \in Hosts : addr[h] # a
<1>1. CASE \E h \in Hosts : addr[h] = a
  <2>1. Owner(a) \in Hosts /\ addr[Owner(a)] = a
    BY <1>1, Zenon DEF Owner
  <2> QED
    BY <2>1, NetAssumption DEF Hosts
<1>2. CASE ~ \E h \in Hosts : addr[h] = a
  BY <1>2 DEF Owner
<1> QED
  BY <1>1, <1>2

\* A guest reached at an address that Me has or had is Me, or Me gave it up.
LEMMA OtherAtGiven ==
  ASSUME AddressInv, NEW a, a # None, a = addr[Me] \/ a \in given, Owner(a) = Other
  PROVE  a \in given
<1>1. addr[Other] = a
  BY OwnerHas, NetAssumption
<1> QED
  BY <1>1 DEF AddressInv

\* How the calls move: a result is one, and a call stays one.
LEMMA CallMoves ==
  ASSUME TypeOK
  PROVE  /\ \A r \in {"none", "returned", "raised", "True", "False", "connected"},
              ip \in Addresses \cup {None}, h \in Hosts \cup {None} :
                Return(r, ip, h) => call' = NoCall /\ last' \in Results
         /\ \A p \in {"connect", "recv", "ssh"} :
                Go(p) => /\ call' \in Calls /\ call'.pc = p /\ call'.op = call.op
                         /\ last' \in Results
         /\ \A d \in Nat :
                RoundAgain(d) => /\ call' \in Calls /\ call'.pc = "round" /\ call'.op = call.op
                                 /\ last' \in Results
         /\ NoCall \in Calls /\ NoCall.pc = "idle"
<1> USE DEF TypeOK
<1>1. ASSUME NEW r \in {"none", "returned", "raised", "True", "False", "connected"},
             NEW ip \in Addresses \cup {None}, NEW h \in Hosts \cup {None}, Return(r, ip, h)
      PROVE  call' = NoCall /\ last' \in Results
  BY <1>1 DEF Return, Results
<1>2. ASSUME NEW p \in {"connect", "recv", "ssh"}, Go(p)
      PROVE  /\ call' \in Calls /\ call'.pc = p /\ call'.op = call.op
             /\ last' \in Results
  BY <1>2 DEF Go, Calls
<1>3. ASSUME NEW d \in Nat, RoundAgain(d)
      PROVE  /\ call' \in Calls /\ call'.pc = "round" /\ call'.op = call.op
             /\ last' \in Results
  <2>1. Later(d) \in 0..ClockCap
    BY NetAssumption DEF Calls, Later
  <2> QED
    BY <1>3, <2>1 DEF RoundAgain, Calls
<1>4. NoCall \in Calls /\ NoCall.pc = "idle"
  <2>1. 0 \in 0..ARP_INTERVAL /\ 0 \in 0..ClockCap
    BY NetAssumption
  <2> QED
    BY <2>1 DEF NoCall, Calls
<1> QED
  BY <1>1, <1>2, <1>3, <1>4

-----------------------------------------------------------------------------
\* A step of the network leaves the call what it is, but for steady.
LEMMA NetworkKeepsCall ==
  ASSUME TypeOK, TestUnchanged, NetTypeOK'
  PROVE  TypeOK'
<1> DEFINE b == call.steady /\ Reachable'
<1>1. b \in BOOLEAN
  BY DEF TypeOK, Calls
<1>2. call' = [call EXCEPT !.steady = b]
  BY DEF TestUnchanged, Watched
<1> HIDE DEF b
<1>3. call' \in Calls /\ call'.pc = call.pc /\ call'.op = call.op
  BY <1>1, <1>2 DEF TypeOK, Calls
<1> QED
  BY <1>3 DEF TypeOK, TestUnchanged

LEMMA TypeOKStep == TypeOK /\ [Next]_vars => TypeOK'
<1> SUFFICES ASSUME TypeOK, [Next]_vars PROVE TypeOK'
  OBVIOUS
<1>0. /\ Timeout \in Nat /\ Timeout + 1 \in Nat
      /\ \A a : Owner(a) \in Hosts \cup {None}
  BY NetAssumption, OwnerHas
<1>n. UNCHANGED net => NetTypeOK'
  BY DEF TypeOK, NetTypeOK, net
<1>w. ASSUME NEW ip \in Addresses \cup {None}, WithAddress(ip), call.pc = "get_ip",
             _ip' \in Addresses \cup {None}, ip # None => _ip' = ip,
             UNCHANGED <<net, ncalls>>
      PROVE  TypeOK'
  <2>1. call.op \in Ops
    BY <1>w DEF TypeOK, Calls
  <2>2. /\ call' \in Calls /\ last' \in Results
        /\ call'.op = call.op \/ call' = NoCall
    BY <1>0, <1>w, <2>1, CallMoves DEF WithAddress, Ops
  <2>3. call'.pc \in {"connect", "recv", "ssh"} => ip # None
    BY <1>0, <1>w, <2>1, CallMoves DEF WithAddress, Ops
  <2> QED
    BY <1>n, <1>w, <2>1, <2>2, <2>3, CallMoves DEF TypeOK
<1>1. ASSUME Begin PROVE TypeOK'
  <2>1. /\ ARP_INTERVAL \in 0..ARP_INTERVAL /\ Reachable \in BOOLEAN
        /\ ncalls' \in 0..MaxCalls
    BY <1>1, NetAssumption DEF Begin, Reachable, TypeOK
  <2>2. PICK op \in Ops, force \in BOOLEAN :
          call' = [NoCall EXCEPT
                !.op = op, !.force = force, !.retry = ARP_INTERVAL,
                !.pc = IF op = "wait_for_ssh_ready" THEN "round" ELSE "get_ip",
                !.steady = Reachable]
    BY <1>1 DEF Begin
  <2>3. call' \in Calls /\ call'.op = op /\ call'.pc \in {"round", "get_ip"}
    BY <2>1, <2>2, CallMoves DEF Calls, NoCall
  <2>4. last' \in Results
    BY <1>1 DEF Begin, Results
  <2> QED
    BY <1>1, <1>n, <2>1, <2>3, <2>4 DEF Begin, TypeOK, Ops
<1>2. ASSUME get_ip PROVE TypeOK'
  <2>1. CASE (WithAddress(_ip) \/ WithAddress(None)) /\ UNCHANGED _ip
    BY <1>2, <1>w, <2>1 DEF get_ip, TypeOK
  <2>2. CASE Return("raised", None, None) /\ UNCHANGED _ip
    BY <1>2, <1>n, <2>2, CallMoves DEF get_ip, TypeOK
  <2>3. ASSUME NEW a \in Matching, _ip' = a, WithAddress(a) PROVE TypeOK'
    BY <1>2, <1>w, <2>3 DEF get_ip, Matching, Rows
  <2>4. CASE /\ call.retry > 0
             /\ call' = [call EXCEPT !.retry = @ - 1, !.clock = Later(1)]
             /\ UNCHANGED <<_ip, last>>
    <3>1. Later(1) \in 0..ClockCap /\ call.retry - 1 \in 0..ARP_INTERVAL
      BY <2>4, NetAssumption DEF TypeOK, Calls, Later
    <3>2. call' \in Calls /\ call'.pc = call.pc /\ call'.op = call.op
      BY <2>4, <3>1 DEF TypeOK, Calls
    <3> QED
      BY <1>2, <1>n, <2>4, <3>2 DEF get_ip, TypeOK
  <2> QED
    BY <1>2, <2>4, <2>1, <2>2, <2>3 DEF get_ip
<1>3. ASSUME Round PROVE TypeOK'
  <2>1. CASE /\ call' = [call EXCEPT !.pc = "get_ip", !.retry = ARP_INTERVAL, !.steady = Reachable]
             /\ UNCHANGED last
    <3>1. ARP_INTERVAL \in 0..ARP_INTERVAL
      BY NetAssumption
    <3>2. Reachable \in BOOLEAN
      BY DEF Reachable
    <3>3. call' \in Calls /\ call'.pc = "get_ip" /\ call'.op = call.op
      BY <2>1, <3>1, <3>2 DEF TypeOK, Calls
    <3> QED
      BY <1>3, <1>n, <2>1, <3>3 DEF Round, TypeOK
  <2>2. CASE Return("False", _ip, None)
    BY <1>3, <1>n, <2>2, CallMoves DEF Round, TypeOK
  <2> QED
    BY <1>3, <2>1, <2>2 DEF Round
<1>4. ASSUME Connect PROVE TypeOK'
  <2>1. CASE Go("recv")
    BY <1>4, <1>n, <2>1, CallMoves DEF Connect, TypeOK
  <2>2. CASE RoundAgain(1) \/ RoundAgain(2) \/ RoundAgain(Timeout + 1)
    BY <1>0, <1>4, <1>n, <2>2, CallMoves DEF Connect, TypeOK
  <2> QED
    BY <1>4, <2>1, <2>2 DEF Connect
<1>5. ASSUME Recv PROVE TypeOK'
  <2>1. CASE Return("True", _ip, Owner(_ip)) \/ Return("raised", _ip, None)
    BY <1>0, <1>5, <1>n, <2>1, CallMoves DEF Recv, TypeOK
  <2>2. CASE RoundAgain(Timeout) \/ RoundAgain(1)
    BY <1>0, <1>5, <1>n, <2>2, CallMoves DEF Recv, TypeOK
  <2> QED
    BY <1>5, <2>1, <2>2 DEF Recv
<1>6. ASSUME WaitAndConnect PROVE TypeOK'
  <2>1. CASE Return("connected", _ip, Owner(_ip)) \/ Return("raised", _ip, None)
    BY <1>0, <1>6, <1>n, <2>1, CallMoves DEF WaitAndConnect, TypeOK
  <2>2. ASSUME NEW d \in {1, Timeout},
               call' = [call EXCEPT !.clock = Later(d)] /\ UNCHANGED last
        PROVE  TypeOK'
    <3>1. Later(d) \in 0..ClockCap
      BY NetAssumption DEF TypeOK, Calls, Later
    <3>2. call' \in Calls /\ call'.pc = call.pc /\ call'.op = call.op
      BY <2>2, <3>1 DEF TypeOK, Calls
    <3> QED
      BY <1>6, <1>n, <2>2, <3>2 DEF WaitAndConnect, TypeOK
  <2> QED
    BY <1>6, <2>1, <2>2 DEF WaitAndConnect
<1>7. ASSUME NEW h \in Hosts, NEW a \in Addresses, Lease(h, a) PROVE TypeOK'
  <2>1. NetTypeOK'
    BY <1>7, NetAssumption DEF Lease, TestUnchanged, TypeOK, NetTypeOK, Hosts
  <2> QED
    BY <1>7, <2>1, NetworkKeepsCall DEF Lease
<1>8. ASSUME NEW h \in Hosts, Leave(h) PROVE TypeOK'
  <2>1. NetTypeOK'
    BY <1>8, NetAssumption DEF Leave, TestUnchanged, TypeOK, NetTypeOK, Hosts
  <2> QED
    BY <1>8, <2>1, NetworkKeepsCall DEF Leave
<1>9. ASSUME NEW h \in Hosts, Boot(h) PROVE TypeOK'
  <2>1. NetTypeOK'
    BY <1>9, NetAssumption DEF Boot, TestUnchanged, TypeOK, NetTypeOK, Hosts
  <2> QED
    BY <1>9, <2>1, NetworkKeepsCall DEF Boot
<1>10. ASSUME NEW h \in Hosts, Learn(h) PROVE TypeOK'
  <2>1. NetTypeOK'
    BY <1>10, NetAssumption DEF Learn, TestUnchanged, TypeOK, NetTypeOK, Hosts
  <2> QED
    BY <1>10, <2>1, NetworkKeepsCall DEF Learn
<1>11. ASSUME NEW a \in Addresses, Forget(a) PROVE TypeOK'
  <2>1. NetTypeOK'
    BY <1>11, NetAssumption DEF Forget, TestUnchanged, TypeOK, NetTypeOK, Hosts
  <2> QED
    BY <1>11, <2>1, NetworkKeepsCall DEF Forget
<1>12. CASE UNCHANGED vars
  BY <1>12, <1>n DEF vars, net, TypeOK
<1> QED
  BY <1>1, <1>2, <1>3, <1>4, <1>5, <1>6, <1>7, <1>8, <1>9, <1>10, <1>11, <1>12
  DEF Next, Step, Network

-----------------------------------------------------------------------------
\* What get_ip remembers comes from the table; the rest of a call changes nothing
\* that AddressInv is about.
LEMMA AddressInvStep == TypeOK /\ AddressInv /\ [Next]_vars => AddressInv'
<1> SUFFICES ASSUME TypeOK, AddressInv, [Next]_vars PROVE AddressInv'
  OBVIOUS
<1> USE NetAssumption DEF TypeOK, NetTypeOK, AddressInv, Hosts
<1>0. UNCHANGED <<net, _ip>> => AddressInv'
  BY DEF net
<1>1. ASSUME get_ip PROVE AddressInv'
  <2>1. CASE UNCHANGED _ip
    BY <1>0, <1>1, <2>1 DEF get_ip
  <2>2. ASSUME NEW a \in Matching, _ip' = a PROVE AddressInv'
    BY <1>1, <2>2 DEF get_ip, Matching, Rows, net
  <2> QED
    BY <1>1, <2>1, <2>2 DEF get_ip
<1>2. ASSUME Begin \/ Round \/ Connect \/ Recv \/ WaitAndConnect PROVE AddressInv'
  BY <1>0, <1>2 DEF Begin, Round, Connect, Recv, WaitAndConnect
<1>3. ASSUME NEW h \in Hosts, NEW a \in Addresses, Lease(h, a) PROVE AddressInv'
  <2>1. \A g \in Hosts : addr[g] # a
    BY <1>3, OwnerHas DEF Lease
  <2> QED
    BY <1>3, <2>1 DEF Lease, TestUnchanged
<1>4. ASSUME NEW h \in Hosts, Leave(h) PROVE AddressInv'
  BY <1>4 DEF Leave, TestUnchanged
<1>5. ASSUME NEW h \in Hosts, Boot(h) PROVE AddressInv'
  BY <1>5 DEF Boot, TestUnchanged
<1>6. ASSUME NEW h \in Hosts, Learn(h) PROVE AddressInv'
  BY <1>6 DEF Learn, TestUnchanged
<1>7. ASSUME NEW a \in Addresses, Forget(a) PROVE AddressInv'
  BY <1>7 DEF Forget, TestUnchanged
<1>8. CASE UNCHANGED vars
  BY <1>0, <1>8 DEF vars, net
<1> QED
  BY <1>1, <1>2, <1>3, <1>4, <1>5, <1>6, <1>7, <1>8 DEF Next, Step, Network

\* A call names the guest it reaches when it returns; given only grows.
LEMMA ReachedStep ==
  TypeOK /\ AddressInv /\ ReachedIsOwn /\ [Next]_vars => ReachedIsOwn'
<1> SUFFICES ASSUME TypeOK, AddressInv, ReachedIsOwn, [Next]_vars PROVE ReachedIsOwn'
  OBVIOUS
<1> USE NetAssumption DEF ReachedIsOwn
<1>0. ASSUME last' = last, given \subseteq given' PROVE ReachedIsOwn'
  BY <1>0
<1>r. ASSUME NEW r, NEW ip, NEW h, Return(r, ip, h), UNCHANGED given,
             h = Other => ip \in given
      PROVE  ReachedIsOwn'
  BY <1>r DEF Return
<1>w. ASSUME NEW ip, WithAddress(ip), UNCHANGED given, call.pc = "get_ip",
             ip # None => ip = addr[Me] \/ ip \in given
      PROVE  ReachedIsOwn'
  <2>1. call.op \in Ops
    BY <1>w DEF TypeOK, Calls
  <2>2. ip # None /\ Owner(ip) = Other => ip \in given
    BY <1>w, OtherAtGiven
  <2>3. CASE Return("returned", ip, IF ip = None THEN None ELSE Owner(ip))
    BY <1>w, <1>r, <2>2, <2>3
  <2>4. CASE Return("returned", ip, None) \/ Return("raised", ip, None)
    BY <1>w, <1>r, <2>4
  <2>5. CASE Go("ssh") \/ Go("connect") \/ RoundAgain(0)
    BY <1>w, <1>0, <2>5 DEF Go, RoundAgain
  <2> QED
    BY <1>w, <2>1, <2>3, <2>4, <2>5 DEF WithAddress, Ops
<1>o. _ip # None /\ Owner(_ip) = Other => _ip \in given
  BY OtherAtGiven DEF AddressInv
<1>1. ASSUME Begin PROVE ReachedIsOwn'
  BY <1>1 DEF Begin
<1>2. ASSUME get_ip PROVE ReachedIsOwn'
  <2>0. UNCHANGED given
    BY <1>2 DEF get_ip, net
  <2>1. CASE WithAddress(_ip)
    BY <1>2, <1>w, <2>0, <2>1 DEF get_ip, AddressInv
  <2>2. CASE Return("raised", None, None)
    BY <1>r, <2>0, <2>2
  <2>3. ASSUME NEW a \in Matching, WithAddress(a) PROVE ReachedIsOwn'
    BY <1>2, <1>w, <2>0, <2>3 DEF get_ip, Matching, Rows, AddressInv
  <2>4. CASE last' = last
    BY <1>0, <2>0, <2>4
  <2>5. CASE WithAddress(None)
    BY <1>2, <1>w, <2>0, <2>5 DEF get_ip
  <2> QED
    BY <1>2, <2>4, <2>1, <2>2, <2>3, <2>5 DEF get_ip
<1>3. ASSUME Round PROVE ReachedIsOwn'
  BY <1>3, <1>r, <1>0 DEF Round, net
<1>4. ASSUME Connect PROVE ReachedIsOwn'
  BY <1>4, <1>0 DEF Connect, Go, RoundAgain, net
<1>5. ASSUME Recv PROVE ReachedIsOwn'
  <2>1. UNCHANGED given /\ _ip # None
    BY <1>5 DEF Recv, net, TypeOK
  <2>2. CASE Return("True", _ip, Owner(_ip))
    BY <1>o, <1>r, <2>1, <2>2
  <2>3. CASE Return("raised", _ip, None)
    BY <1>r, <2>1, <2>3
  <2>4. CASE RoundAgain(Timeout) \/ RoundAgain(1)
    BY <1>0, <2>1, <2>4 DEF RoundAgain
  <2> QED
    BY <1>5, <2>2, <2>3, <2>4 DEF Recv
<1>6. ASSUME WaitAndConnect PROVE ReachedIsOwn'
  <2>1. UNCHANGED given /\ _ip # None
    BY <1>6 DEF WaitAndConnect, net, TypeOK
  <2>2. CASE Return("connected", _ip, Owner(_ip))
    BY <1>o, <1>r, <2>1, <2>2
  <2>3. CASE Return("raised", _ip, None)
    BY <1>r, <2>1, <2>3
  <2>4. CASE UNCHANGED last
    BY <1>0, <2>1, <2>4
  <2> QED
    BY <1>6, <2>2, <2>3, <2>4 DEF WaitAndConnect
<1>7. ASSUME Network PROVE ReachedIsOwn'
  BY <1>7, <1>0 DEF Network, Lease, Leave, Boot, Learn, Forget, TestUnchanged
<1>8. CASE UNCHANGED vars
  BY <1>0, <1>8 DEF vars
<1> QED
  BY <1>1, <1>2, <1>3, <1>4, <1>5, <1>6, <1>7, <1>8 DEF Next, Step

-----------------------------------------------------------------------------
LEMMA Initially == Init => IInv
<1> SUFFICES ASSUME Init PROVE IInv
  OBVIOUS
<1>1. NoCall \in Calls /\ NoCall.pc = "idle"
  <2>1. 0 \in 0..ARP_INTERVAL /\ 0 \in 0..ClockCap
    BY NetAssumption
  <2> QED
    BY <2>1 DEF NoCall, Calls
<1>2. NetTypeOK
  BY NetAssumption DEF Init, NetTypeOK, Hosts
<1>3. last \in Results /\ ncalls \in 0..MaxCalls
  BY NetAssumption DEF Init, Results
<1>4. TypeOK
  BY <1>1, <1>2, <1>3 DEF Init, TypeOK
<1> QED
  BY <1>4, NetAssumption DEF Init, IInv, AddressInv, ReachedIsOwn, Hosts

LEMMA Invariance == Spec => []IInv
<1>1. IInv /\ [Next]_vars => IInv'
  BY TypeOKStep, AddressInvStep, ReachedStep DEF IInv
<1> QED
  BY Initially, <1>1, PTL DEF Spec

\* Type correctness of the network, the remembered address and the call.
THEOREM TypeCorrect == Spec => []TypeOK
<1>1. IInv => TypeOK
  BY DEF IInv
<1> QED
  BY <1>1, Invariance, PTL

\* wait_for_ssh_ready, ssh_run, scp and VirshSSH reach another guest only at an
\* address that their own guest had and gave up, for any number of leases.
THEOREM OnlyOwnAddresses == Spec => []ReachedIsOwn
<1>1. IInv => ReachedIsOwn
  BY DEF IInv
<1> QED
  BY <1>1, Invariance, PTL

-----------------------------------------------------------------------------
(* A guest that is there is found                                          *)

\* What a reachable guest looks like from the test.
LEMMA SteadyGuest ==
  ASSUME IInv, Reachable
  PROVE  /\ addr[Me] \in Addresses /\ Matching = {addr[Me]} /\ defined
         /\ Owner(addr[Me]) = Me /\ Me # None /\ sshd[Me] = "up" /\ Banner(Me)
<1>1. addr[Me] \in Addresses /\ addr[Me] # None /\ Matching = {addr[Me]} /\ defined /\ sshd[Me] = "up"
  BY NetAssumption DEF IInv, TypeOK, NetTypeOK, Hosts, Reachable, Matching
<1>2. Owner(addr[Me]) = Me
  <2>1. Owner(addr[Me]) # None
    BY OwnerHas DEF Hosts
  <2>2. Owner(addr[Me]) \in Hosts /\ addr[Owner(addr[Me])] = addr[Me]
    BY <2>1, OwnerHas
  <2> QED
    BY <1>1, <2>2 DEF Hosts, IInv, AddressInv
<1> QED
  BY <1>1, <1>2, NetAssumption DEF Banner

\* Only the guest's own going away changes its address.
LEMMA AddressStays ==
  ASSUME IInv, Network, Reachable, Reachable'
  PROVE  addr'[Me] = addr[Me]
<1> USE NetAssumption DEF IInv, TypeOK, NetTypeOK, Hosts, Reachable
<1>1. ASSUME NEW h \in Hosts, NEW a \in Addresses, Lease(h, a) PROVE addr'[Me] = addr[Me]
  BY <1>1 DEF Lease
<1>2. ASSUME NEW h \in Hosts, Leave(h) PROVE addr'[Me] = addr[Me]
  BY <1>2 DEF Leave
<1>3. ASSUME NEW h \in Hosts, Boot(h) \/ Learn(h) PROVE addr'[Me] = addr[Me]
  BY <1>3 DEF Boot, Learn
<1>4. ASSUME NEW a \in Addresses, Forget(a) PROVE addr'[Me] = addr[Me]
  BY <1>4 DEF Forget
<1> QED
  BY <1>1, <1>2, <1>3, <1>4 DEF Network

LEMMA NetworkWatched == ASSUME Network PROVE TestUnchanged
BY DEF Network, Lease, Leave, Boot, Learn, Forget

LEMMA SteadyStep == IInv /\ SteadyInv /\ [Next]_vars => SteadyInv'
<1> SUFFICES ASSUME IInv, SteadyInv, [Next]_vars PROVE SteadyInv'
  OBVIOUS
<1> DEFINE Waiting == call.op = "wait_for_ssh_ready" /\ call.steady
<1>1. TypeOK /\ call \in Calls /\ (UNCHANGED net => Reachable' = Reachable /\ addr' = addr)
  BY DEF IInv, TypeOK, net, Reachable, Rows
<1>2. CASE call' = NoCall
  BY <1>2 DEF SteadyInv, NoCall
<1>3. CASE Begin
  <2>1. PICK op \in Ops, force \in BOOLEAN :
          /\ op = "wait_for_ssh_ready" => force
          /\ call' = [NoCall EXCEPT
                !.op = op, !.force = force, !.retry = ARP_INTERVAL,
                !.pc = IF op = "wait_for_ssh_ready" THEN "round" ELSE "get_ip",
                !.steady = Reachable]
    BY <1>3 DEF Begin
  <2>2. /\ call'.op = op /\ call'.force = force /\ call'.steady = Reachable /\ call'.tnow = 0
        /\ (op = "wait_for_ssh_ready" => call'.pc = "round")
    BY <2>1 DEF NoCall
  <2>3. Reachable' = Reachable
    BY <1>1, <1>3 DEF Begin
  <2> QED
    BY <2>1, <2>2, <2>3 DEF SteadyInv
<1>4. ASSUME UNCHANGED net, call'.op = call.op, call'.steady = call.steady,
             call'.force = call.force, ~Waiting
      PROVE  SteadyInv'
  BY <1>1, <1>4 DEF SteadyInv
<1>r. ASSUME UNCHANGED net,
             call' = [call EXCEPT !.pc = "get_ip", !.retry = ARP_INTERVAL, !.steady = Reachable]
      PROVE  SteadyInv'
  <2>1. /\ call'.pc = "get_ip" /\ call'.retry = ARP_INTERVAL /\ call'.steady = Reachable
        /\ call'.op = call.op /\ call'.force = call.force
    BY <1>1, <1>r DEF Calls
  <2> QED
    BY <1>1, <1>r, <2>1 DEF SteadyInv
<1>5. ASSUME ~Waiting, Step PROVE SteadyInv'
  <2>1. UNCHANGED net
    BY <1>5 DEF Step, get_ip, Round, Connect, Recv, WaitAndConnect
  <2>2. ASSUME NEW ip, WithAddress(ip), call.pc = "get_ip"
        PROVE  \/ call' = NoCall
               \/ call'.op = call.op /\ call'.steady = call.steady /\ call'.force = call.force
    <3>1. call.op \in Ops
      BY <1>1, <2>2 DEF TypeOK, Calls
    <3> QED
      BY <1>1, <2>2, <3>1 DEF WithAddress, Return, Go, RoundAgain, Ops, Calls
  <2>3. CASE get_ip
    BY <1>1, <1>2, <1>4, <1>5, <2>1, <2>2, <2>3 DEF get_ip, Return, Calls
  <2>4. CASE Connect \/ Recv \/ WaitAndConnect
    BY <1>1, <1>2, <1>4, <1>5, <2>1, <2>4 DEF Connect, Recv, WaitAndConnect, Return, Go, RoundAgain, Calls
  <2>5. CASE Round
    <3>1. CASE call' = [call EXCEPT !.pc = "get_ip", !.retry = ARP_INTERVAL, !.steady = Reachable]
      BY <1>1, <1>r, <2>1, <3>1
    <3> QED
      BY <1>2, <2>5, <3>1 DEF Round, Return
  <2> QED
    BY <1>5, <2>3, <2>4, <2>5 DEF Step
<1>6. ASSUME Waiting, Step PROVE SteadyInv'
  <2>1. /\ Reachable /\ call.pc \in {"round", "get_ip", "connect", "recv"} /\ call.force
        /\ (call.pc = "round" => call.tnow = 0) /\ (call.pc = "get_ip" => call.retry = ARP_INTERVAL)
        /\ (call.pc \in {"connect", "recv"} => _ip = addr[Me])
    BY <1>6 DEF SteadyInv
  <2>2. /\ addr[Me] \in Addresses /\ Matching = {addr[Me]} /\ defined
        /\ Owner(addr[Me]) = Me /\ Me # None /\ sshd[Me] = "up" /\ Banner(Me)
    BY <2>1, SteadyGuest
  <2>3. ASSUME UNCHANGED net, call'.op = call.op, call'.steady = call.steady,
               call'.force = call.force, call'.tnow = call.tnow,
               \/ call'.pc = "get_ip" /\ call'.retry = ARP_INTERVAL
               \/ call'.pc \in {"connect", "recv"} /\ _ip' = addr[Me]
        PROVE  SteadyInv'
    BY <1>1, <2>1, <2>3 DEF SteadyInv
  <2>4. CASE Round
    <3>1. call' = [call EXCEPT !.pc = "get_ip", !.retry = ARP_INTERVAL, !.steady = Reachable] /\ UNCHANGED net
      BY <2>1, <2>4, NetAssumption DEF Round
    <3> QED
      BY <1>r, <3>1
  <2>5. CASE get_ip
    <3>1. ~Remembered /\ call.pc = "get_ip" /\ call.retry > 0
      BY <2>1, <2>5, NetAssumption DEF Remembered, get_ip
    <3>2. _ip' = addr[Me] /\ WithAddress(addr[Me]) /\ UNCHANGED net
      BY <2>2, <2>5, <3>1, NetAssumption DEF get_ip
    <3>3. Go("connect")
      BY <1>6, <2>2, <3>2, NetAssumption DEF WithAddress
    <3>4. call' = [call EXCEPT !.pc = "connect"]
      BY <3>3 DEF Go
    <3> QED
      BY <1>1, <2>3, <3>2, <3>4 DEF Calls
  <2>6. CASE Connect
    <3>1. Go("recv") /\ UNCHANGED <<net, _ip>> /\ _ip = addr[Me]
      BY <2>1, <2>2, <2>6 DEF Connect
    <3>2. call' = [call EXCEPT !.pc = "recv"]
      BY <3>1 DEF Go
    <3> QED
      BY <1>1, <2>3, <3>1, <3>2 DEF Calls
  <2>7. CASE Recv
    BY <1>2, <2>1, <2>2, <2>7 DEF Recv, Return
  <2> QED
    BY <1>6, <2>1, <2>4, <2>5, <2>6, <2>7 DEF Step, WaitAndConnect
<1>7. CASE Network
  <2> DEFINE b == call.steady /\ Reachable'
  <2>1. call' = [call EXCEPT !.steady = b] /\ UNCHANGED _ip
    BY <1>7, NetworkWatched DEF TestUnchanged, Watched
  <2>2. b \in BOOLEAN /\ (b => call.steady /\ Reachable /\ Reachable')
    BY <1>1 DEF SteadyInv, Calls
  <2>3. b => addr'[Me] = addr[Me]
    BY <1>7, <2>2, AddressStays
  <2> HIDE DEF b
  <2>4. /\ call'.steady = b /\ call'.op = call.op /\ call'.pc = call.pc /\ call'.force = call.force
        /\ call'.tnow = call.tnow /\ call'.retry = call.retry
    BY <1>1, <2>1 DEF Calls
  <2> QED
    BY <2>4, <2>3, <2>2, <2>1 DEF SteadyInv
<1>8. CASE UNCHANGED vars
  BY <1>1, <1>8 DEF vars, net, SteadyInv
<1> QED
  BY <1>3, <1>5, <1>6, <1>7, <1>8 DEF Next

\* A guest that answers at its one address from the beginning of a round of
\* wait_for_ssh_ready on is reported as ready, whatever the other guest and the
\* table do meanwhile: the wait neither times out nor raises.
THEOREM ReadyGuestIsSeen == Spec => ReadyIsSeen
<1> DEFINE Seen == call.op = "wait_for_ssh_ready" /\ call' = NoCall /\ call.steady => last'.result = "True"
<1>1. Init => SteadyInv
  BY DEF Init, SteadyInv, NoCall
<1>2. IInv /\ SteadyInv /\ [Next]_vars => [Seen]_vars
  <2> SUFFICES ASSUME IInv, SteadyInv, Next, call.op = "wait_for_ssh_ready", call' = NoCall, call.steady
               PROVE  last'.result = "True"
    OBVIOUS
  <2>1. /\ Reachable /\ call.pc \in {"round", "get_ip", "connect", "recv"} /\ call.force
        /\ (call.pc = "round" => call.tnow = 0) /\ (call.pc = "get_ip" => call.retry = ARP_INTERVAL)
        /\ (call.pc \in {"connect", "recv"} => _ip = addr[Me]) /\ call \in Calls
    BY DEF SteadyInv, IInv, TypeOK
  <2>2. /\ addr[Me] \in Addresses /\ Matching = {addr[Me]} /\ defined
        /\ Owner(addr[Me]) = Me /\ Me # None /\ sshd[Me] = "up" /\ Banner(Me)
    BY <2>1, SteadyGuest
  <2>3. call'.op = "idle" /\ call'.pc = "idle"
    BY DEF NoCall
  <2>4. CASE Begin
    BY <2>4 DEF Begin, NoCall
  <2>5. CASE Round
    <3>1. call' = [call EXCEPT !.pc = "get_ip", !.retry = ARP_INTERVAL, !.steady = Reachable]
      BY <2>1, <2>5, NetAssumption DEF Round
    <3> QED
      BY <2>1, <2>3, <3>1 DEF Calls
  <2>6. CASE get_ip
    <3>1. ~Remembered /\ call.pc = "get_ip" /\ call.retry > 0
      BY <2>1, <2>6, NetAssumption DEF Remembered, get_ip
    <3>2. WithAddress(addr[Me])
      BY <2>2, <2>6, <3>1, NetAssumption DEF get_ip
    <3>3. call' = [call EXCEPT !.pc = "connect"]
      BY <2>2, <3>2, NetAssumption DEF WithAddress, Go
    <3> QED
      BY <2>1, <2>3, <3>3 DEF Calls
  <2>7. CASE Connect
    <3>1. call' = [call EXCEPT !.pc = "recv"]
      BY <2>1, <2>2, <2>7 DEF Connect, Go
    <3> QED
      BY <2>1, <2>3, <3>1 DEF Calls
  <2>8. CASE Recv
    BY <2>1, <2>2, <2>8 DEF Recv, Return
  <2>9. CASE WaitAndConnect
    BY <2>1, <2>9 DEF WaitAndConnect
  <2>10. CASE Network
    <3>1. call'.op = call.op
      BY <2>1, <2>10, NetworkWatched DEF TestUnchanged, Watched, Calls
    <3> QED
      BY <2>3, <3>1
  <2> QED
    BY <2>10, <2>9, <2>8, <2>7, <2>6, <2>5, <2>4 DEF Next, Step
<1> QED
  BY <1>1, <1>2, Invariance, SteadyStep, PTL DEF Spec, ReadyIsSeen

-----------------------------------------------------------------------------
(* How long a call can take: the safety half of CallsEnd.                  *)

\* Steps that are left of the present round of wait_for_ssh_ready, or of the
\* whole call when it is another one.
StepsLeft ==
  CASE call.pc = "idle" -> 0
    [] call.pc = "round" -> 4 + ARP_INTERVAL + Timeout
    [] call.pc = "get_ip" -> 3 + call.retry + Timeout
    [] call.pc = "connect" -> 2
    [] call.pc = "recv" -> 1
    [] call.pc = "ssh" -> IF call.clock < Timeout THEN 1 + (Timeout - call.clock) ELSE 1

\* What a step does to a call in progress: end it, begin another round at a later
\* time with the timeout not reached before, come nearer to the end of the round,
\* or, when it is one of the network, nothing.
Nearer ==
  call # NoCall =>
    \/ call' = NoCall
    \/ call.tnow < Timeout /\ call'.tnow > call.tnow
    \/ call'.tnow = call.tnow /\ StepsLeft' < StepsLeft
    \/ Network /\ call'.tnow = call.tnow /\ StepsLeft' = StepsLeft

\* The clock is not behind the reading the loop compares; a round has begun before
\* the timeout, and the tries of get_ip have taken their time.
ClockInv ==
  /\ call.pc = "idle" <=> call = NoCall
  /\ call.clock >= call.tnow
  /\ call.op = "wait_for_ssh_ready" /\ call.pc \in {"get_ip", "connect", "recv"} => call.tnow < Timeout
  /\ call.pc = "get_ip" =>
       call.clock = ClockCap \/ call.clock >= call.tnow + (ARP_INTERVAL - call.retry)
  /\ call.pc \in {"round", "connect", "recv"} => call.op = "wait_for_ssh_ready"
  /\ call.pc = "ssh" => call.op = "VirshSSH"

\* The ways a step of a call changes it.
Goes ==
  \/ call' = NoCall
  \/ /\ call.pc = "get_ip" /\ call.op = "wait_for_ssh_ready"
     /\ call' = [call EXCEPT !.pc = "connect"]
  \/ /\ call.pc = "get_ip" /\ call.op = "VirshSSH"
     /\ call' = [call EXCEPT !.pc = "ssh"]
  \/ /\ call.pc = "get_ip" /\ call.retry > 0
     /\ call' = [call EXCEPT !.retry = @ - 1, !.clock = Later(1)]
  \/ /\ call.pc = "get_ip" /\ call.op = "wait_for_ssh_ready" /\ call.retry = 0
     /\ RoundAgain(0)
  \/ /\ call.pc = "round" /\ call.tnow < Timeout
     /\ call' = [call EXCEPT !.pc = "get_ip", !.retry = ARP_INTERVAL, !.steady = Reachable]
  \/ call.pc = "connect" /\ call' = [call EXCEPT !.pc = "recv"]
  \/ call.pc \in {"connect", "recv"} /\ \E d \in Nat \ {0} : RoundAgain(d)
  \/ /\ call.pc = "ssh" /\ call.clock < Timeout
     /\ \E d \in Nat \ {0} : call' = [call EXCEPT !.clock = Later(d)]

\* Every step is one of these: get_ip hands out None only after its last try.
LEMMA StepGoes == IInv /\ Step => Goes
<1> SUFFICES ASSUME IInv, Step PROVE Goes
  OBVIOUS
<1>1. call \in Calls /\ None \notin Addresses /\ (call.pc # "idle" => call.op \in Ops)
  BY NetAssumption DEF IInv, TypeOK, Calls
<1>2. ASSUME NEW ip, ip # None, WithAddress(ip), call.pc = "get_ip" PROVE Goes
  BY <1>1, <1>2 DEF WithAddress, Go, Return, Goes, Ops
<1>3. ASSUME call.retry = 0, WithAddress(None), call.pc = "get_ip" PROVE Goes
  BY <1>1, <1>3 DEF WithAddress, Return, Goes, Ops
<1>4. CASE get_ip
  <2>1. CASE Remembered
    BY <1>2, <1>4, <2>1 DEF get_ip, Remembered
  <2>2. CASE ~Remembered /\ ~defined
    BY <1>4, <2>2 DEF get_ip, Return, Goes
  <2>3. CASE ~Remembered /\ defined /\ call.retry > 0
    <3>1. CASE \E a \in Matching : WithAddress(a)
      BY <1>1, <1>2, <1>4, <3>1 DEF get_ip, Matching, Rows
    <3>2. CASE _ip # None /\ WithAddress(_ip)
      BY <1>2, <1>4, <3>2 DEF get_ip
    <3>3. CASE call' = [call EXCEPT !.retry = @ - 1, !.clock = Later(1)]
      BY <1>4, <2>3, <3>3 DEF get_ip, Goes
    <3>4. call.retry # 0
      BY <1>1, <2>3 DEF Calls
    <3> QED
      BY <1>4, <2>3, <3>1, <3>2, <3>3, <3>4 DEF get_ip
  <2>4. CASE ~Remembered /\ defined /\ ~(call.retry > 0)
    BY <1>3, <1>4, <2>4 DEF get_ip
  <2> QED
    BY <2>4, <2>3, <2>2, <2>1
<1>5. CASE Round
  BY <1>5 DEF Round, Return, Goes
<1>6. CASE Connect \/ Recv
  <2>1. {1, 2} \subseteq Nat \ {0} /\ Timeout \in Nat \ {0} /\ Timeout + 1 \in Nat \ {0}
    BY NetAssumption
  <2> QED
    BY <1>6, <2>1 DEF Connect, Recv, Return, Go, Goes
<1>7. CASE WaitAndConnect
  <2>1. 1 \in Nat \ {0} /\ Timeout \in Nat \ {0}
    BY NetAssumption
  <2> QED
    BY <1>7, <2>1 DEF WaitAndConnect, Return, Goes
<1> QED
  BY <1>4, <1>5, <1>6, <1>7 DEF Step

\* The clock runs forward, up to its cap.
LEMMA LaterRuns ==
  ASSUME call \in Calls, NEW d \in Nat
  PROVE  /\ Later(d) \in 0..ClockCap /\ Later(d) >= call.clock
         /\ Later(d) = ClockCap \/ Later(d) = call.clock + d
  BY NetAssumption DEF Later, Calls

\* Each way keeps the clock's invariant and brings the end nearer.
LEMMA GoesNearer ==
  ASSUME call \in Calls, ClockInv, call.pc # "idle", Goes
  PROVE  ClockInv' /\ Nearer
<1>0. /\ call.retry \in 0..ARP_INTERVAL /\ call.clock \in 0..ClockCap /\ call.tnow \in 0..ClockCap
      /\ ARP_INTERVAL \in Nat \ {0} /\ Timeout \in Nat \ {0} /\ ClockCap \in Nat /\ ClockCap >= Timeout
      /\ call.clock >= call.tnow
  BY NetAssumption DEF Calls, ClockInv
<1>1. CASE call' = NoCall
  BY <1>1, NetAssumption DEF ClockInv, Nearer, NoCall
<1>2. CASE /\ call.pc = "get_ip" /\ call.op = "wait_for_ssh_ready"
           /\ call' = [call EXCEPT !.pc = "connect"]
  <2>1. /\ call'.pc = "connect" /\ call'.op = call.op /\ call'.clock = call.clock /\ call'.tnow = call.tnow
        /\ call'.retry = call.retry
    BY <1>2 DEF Calls
  <2>2. call' # NoCall
    BY <2>1 DEF NoCall
  <2>3. ClockInv'
    BY <1>0, <1>2, <2>1, <2>2 DEF ClockInv
  <2>4. StepsLeft' < StepsLeft
    BY <1>0, <1>2, <2>1 DEF StepsLeft
  <2> QED
    BY <2>1, <2>3, <2>4 DEF Nearer
<1>3. CASE /\ call.pc = "get_ip" /\ call.op = "VirshSSH"
           /\ call' = [call EXCEPT !.pc = "ssh"]
  <2>1. /\ call'.pc = "ssh" /\ call'.op = call.op /\ call'.clock = call.clock /\ call'.tnow = call.tnow
        /\ call'.retry = call.retry
    BY <1>3 DEF Calls
  <2>2. call' # NoCall
    BY <2>1 DEF NoCall
  <2>3. ClockInv'
    BY <1>0, <1>3, <2>1, <2>2 DEF ClockInv
  <2>4. StepsLeft' < StepsLeft
    BY <1>0, <1>3, <2>1 DEF StepsLeft
  <2> QED
    BY <2>1, <2>3, <2>4 DEF Nearer
<1>4. CASE /\ call.pc = "get_ip" /\ call.retry > 0
           /\ call' = [call EXCEPT !.retry = @ - 1, !.clock = Later(1)]
  <2>1. /\ call'.pc = "get_ip" /\ call'.op = call.op /\ call'.clock = Later(1) /\ call'.tnow = call.tnow
        /\ call'.retry = call.retry - 1
    BY <1>4 DEF Calls
  <2>2. call' # NoCall
    BY <2>1 DEF NoCall
  <2>3. /\ Later(1) \in 0..ClockCap /\ Later(1) >= call.clock
        /\ Later(1) = ClockCap \/ Later(1) = call.clock + 1
    BY LaterRuns
  <2>4. Later(1) = ClockCap \/ Later(1) >= call.tnow + (ARP_INTERVAL - (call.retry - 1))
    BY <1>0, <1>4, <2>3 DEF ClockInv
  <2>5. Later(1) >= call.tnow
    BY <1>0, <2>3
  <2>6. ClockInv'
    BY <1>4, <2>1, <2>2, <2>4, <2>5 DEF ClockInv
  <2>7. StepsLeft' < StepsLeft
    BY <1>0, <1>4, <2>1 DEF StepsLeft
  <2> QED
    BY <2>1, <2>6, <2>7 DEF Nearer
<1>5. ASSUME NEW d \in Nat, RoundAgain(d), call.op = "wait_for_ssh_ready", call.tnow < Timeout,
             Later(d) > call.tnow
      PROVE  ClockInv' /\ Nearer
  <2>1. /\ call'.pc = "round" /\ call'.op = call.op /\ call'.clock = Later(d) /\ call'.tnow = Later(d)
    BY <1>5 DEF RoundAgain, Calls
  <2>2. call' # NoCall
    BY <2>1 DEF NoCall
  <2>3. Later(d) \in 0..ClockCap
    BY LaterRuns
  <2>4. ClockInv'
    BY <1>5, <2>1, <2>2, <2>3 DEF ClockInv
  <2> QED
    BY <1>5, <2>1, <2>4 DEF Nearer
<1>6. CASE /\ call.pc = "get_ip" /\ call.op = "wait_for_ssh_ready" /\ call.retry = 0
           /\ RoundAgain(0)
  <2>1. /\ Later(0) \in 0..ClockCap /\ Later(0) >= call.clock
    BY LaterRuns
  <2>2. call.tnow < Timeout /\ (call.clock = ClockCap \/ call.clock >= call.tnow + (ARP_INTERVAL - 0))
    BY <1>6 DEF ClockInv
  <2>3. Later(0) > call.tnow
    BY <1>0, <2>1, <2>2
  <2> QED
    BY <1>5, <1>6, <2>2, <2>3
<1>7. CASE call.pc \in {"connect", "recv"} /\ \E d \in Nat \ {0} : RoundAgain(d)
  <2>1. PICK d \in Nat \ {0} : RoundAgain(d)
    BY <1>7
  <2>2. /\ Later(d) \in 0..ClockCap
        /\ Later(d) = ClockCap \/ Later(d) = call.clock + d
    BY LaterRuns
  <2>3. call.op = "wait_for_ssh_ready" /\ call.tnow < Timeout
    BY <1>7 DEF ClockInv
  <2>4. Later(d) > call.tnow
    BY <1>0, <2>2, <2>3
  <2> QED
    BY <1>5, <2>1, <2>3, <2>4
<1>8. CASE /\ call.pc = "round" /\ call.tnow < Timeout
           /\ call' = [call EXCEPT !.pc = "get_ip", !.retry = ARP_INTERVAL, !.steady = Reachable]
  <2>1. /\ call'.pc = "get_ip" /\ call'.op = call.op /\ call'.clock = call.clock /\ call'.tnow = call.tnow
        /\ call'.retry = ARP_INTERVAL
    BY <1>8 DEF Calls
  <2>2. call' # NoCall
    BY <2>1 DEF NoCall
  <2>3. call.clock >= call.tnow + (ARP_INTERVAL - ARP_INTERVAL)
    BY <1>0
  <2>4. ClockInv'
    BY <1>0, <1>8, <2>1, <2>2, <2>3 DEF ClockInv
  <2>5. StepsLeft' < StepsLeft
    BY <1>0, <1>8, <2>1 DEF StepsLeft
  <2> QED
    BY <2>1, <2>4, <2>5 DEF Nearer
<1>9. CASE call.pc = "connect" /\ call' = [call EXCEPT !.pc = "recv"]
  <2>1. /\ call'.pc = "recv" /\ call'.op = call.op /\ call'.clock = call.clock /\ call'.tnow = call.tnow
    BY <1>9 DEF Calls
  <2>2. call' # NoCall
    BY <2>1 DEF NoCall
  <2>3. ClockInv'
    BY <1>9, <2>1, <2>2 DEF ClockInv
  <2>4. StepsLeft' < StepsLeft
    BY <1>9, <2>1 DEF StepsLeft
  <2> QED
    BY <2>1, <2>3, <2>4 DEF Nearer
<1>10. CASE /\ call.pc = "ssh" /\ call.clock < Timeout
            /\ \E d \in Nat \ {0} : call' = [call EXCEPT !.clock = Later(d)]
  <2>1. PICK d \in Nat \ {0} : call' = [call EXCEPT !.clock = Later(d)]
    BY <1>10
  <2>2. call'.pc = "ssh" /\ call'.op = call.op /\ call'.clock = Later(d) /\ call'.tnow = call.tnow
    BY <1>10, <2>1 DEF Calls
  <2>3. call' # NoCall
    BY <2>2 DEF NoCall
  <2>4. Later(d) \in 0..ClockCap /\ Later(d) > call.clock
    BY <1>0, <1>10 DEF Later
  <2>5. ClockInv'
    BY <1>0, <1>10, <2>2, <2>3, <2>4 DEF ClockInv
  <2>6. StepsLeft' < StepsLeft
    BY <1>0, <1>10, <2>2, <2>4 DEF StepsLeft
  <2> QED
    BY <2>2, <2>5, <2>6 DEF Nearer
<1> QED
  BY <1>1, <1>2, <1>3, <1>4, <1>6, <1>7, <1>8, <1>9, <1>10 DEF Goes

\* The network only touches steady.
LEMMA NetworkNearer ==
  ASSUME IInv, ClockInv, Network
  PROVE  ClockInv' /\ Nearer
<1> DEFINE b == call.steady /\ Reachable'
<1>1. call' = [call EXCEPT !.steady = b] /\ call \in Calls
  BY NetworkWatched DEF TestUnchanged, Watched, IInv, TypeOK
<1>2. ASSUME call = NoCall PROVE call' = NoCall
  <2>1. ~call.steady
    BY <1>2 DEF NoCall
  <2>2. b = FALSE
    BY <2>1, Zenon
  <2> HIDE DEF b
  <2>3. call' = [NoCall EXCEPT !.steady = FALSE]
    BY <1>1, <1>2, <2>2
  <2> QED
    BY <2>3 DEF NoCall
<1> HIDE DEF b
<1>3. /\ call'.pc = call.pc /\ call'.op = call.op /\ call'.clock = call.clock /\ call'.tnow = call.tnow
      /\ call'.retry = call.retry
  BY <1>1 DEF Calls
<1>4. call' = NoCall => call'.pc = "idle"
  BY DEF NoCall
<1>5. ClockInv'
  BY <1>2, <1>3, <1>4 DEF ClockInv
<1>6. StepsLeft' = StepsLeft
  BY <1>3 DEF StepsLeft
<1> QED
  BY <1>3, <1>5, <1>6 DEF Nearer

LEMMA NearerStep == IInv /\ ClockInv /\ [Next]_vars => ClockInv' /\ [Nearer]_vars
<1> SUFFICES ASSUME IInv, ClockInv, [Next]_vars PROVE ClockInv' /\ [Nearer]_vars
  OBVIOUS
<1>1. CASE Begin
  <2>1. call = NoCall
    BY <1>1 DEF Begin
  <2>2. PICK op \in Ops, force \in BOOLEAN :
          /\ call' = [NoCall EXCEPT
                !.op = op, !.force = force, !.retry = ARP_INTERVAL,
                !.pc = IF op = "wait_for_ssh_ready" THEN "round" ELSE "get_ip",
                !.steady = Reachable]
    BY <1>1 DEF Begin
  <2>3. /\ call'.op = op /\ call'.retry = ARP_INTERVAL /\ call'.clock = 0 /\ call'.tnow = 0
        /\ call'.pc = IF op = "wait_for_ssh_ready" THEN "round" ELSE "get_ip"
    BY <2>2 DEF NoCall
  <2>4. call' # NoCall
    BY <2>3 DEF NoCall
  <2>5. 0 >= 0 + (ARP_INTERVAL - ARP_INTERVAL)
    BY NetAssumption
  <2> QED
    BY <2>5, <2>4, <2>3, <2>1 DEF ClockInv, Nearer
<1>2. CASE Step
  <2>1. call.pc # "idle"
    BY <1>2 DEF Step, get_ip, Round, Connect, Recv, WaitAndConnect
  <2> QED
    BY <1>2, <2>1, StepGoes, GoesNearer DEF IInv, TypeOK
<1>3. CASE Network
  BY <1>3, NetworkNearer
<1>4. CASE UNCHANGED vars
  BY <1>4 DEF vars, ClockInv
<1> QED
  BY <1>1, <1>2, <1>3, <1>4 DEF Next

\* wait_for_ssh_ready, get_ip, ssh_run and VirshSSH: for any number of tries and
\* any timeout, and whatever the network does, every step ends the call, comes
\* nearer to the end of the round, or begins another round at a later time, and
\* no round begins after the timeout.
THEOREM CallsAreBounded == Spec => [][Nearer]_vars /\ []ClockInv
<1>1. Init => ClockInv
  BY NetAssumption DEF Init, ClockInv, NoCall
<1>2. IInv /\ ClockInv /\ [Next]_vars => ClockInv' /\ [Nearer]_vars
  BY NearerStep
<1> QED
  BY <1>1, <1>2, Invariance, PTL DEF Spec

=============================================================================
