------------------------------ MODULE GuestNet ------------------------------
(***************************************************************************)
(* How a test reaches its guest over the network: VMMLibvirt.get_ip        *)
(* (vmm.py) looks the guest's MAC up in the ARP table of the host and      *)
(* remembers the address; wait_for_ssh_ready, ssh_run, scp_in and scp_out  *)
(* (vmguest.py) and VirshSSH use it.                                       *)
(*                                                                         *)
(* Meanwhile guests come up and go down, get an address from DHCP, maybe   *)
(* one that another guest had before, and the host learns and forgets ARP  *)
(* entries with a delay.  Entries of an address a guest has given up stay  *)
(* for a while.                                                            *)
(***************************************************************************)
EXTENDS Integers

CONSTANTS
    Me, Other,      \* the guest of the test and another one on the bridge
    Addresses,
    None,           \* Python's None: no address
    ARP_INTERVAL,   \* tries of get_ip, one per second
    Timeout,        \* of wait_for_ssh_ready and of VirshSSH
    MaxCalls,       \* bound: calls of the test
    MaxLeases,      \* bound: addresses handed out
    ClockCap        \* bound: time counted within one call

ASSUME NetAssumption ==
    /\ Me # Other /\ None \notin {Me, Other} /\ None \notin Addresses
    /\ ARP_INTERVAL \in Nat \ {0} /\ Timeout \in Nat \ {0}
    /\ MaxCalls \in Nat /\ MaxLeases \in Nat
    /\ ClockCap \in Nat /\ ClockCap >= Timeout

VARIABLES
    addr,       \* guest -> its address now
    sshd,       \* guest -> "off", "port" (accepts, no banner yet), "up"
    arp,        \* address -> the guest whose MAC the table gives, or None
    defined,    \* the domain is known to libvirt
    _ip,        \* VMMLibvirt._ip
    call,       \* the call under way
    last,       \* what the last call came to: result, address, host reached
    ncalls, leases,
    given       \* addresses Me has given up (for the properties)

vars == <<addr, sshd, arp, defined, _ip, call, last, ncalls, leases, given>>
net == <<addr, sshd, arp, defined, leases, given>>

Hosts == {Me, Other}

\* clock: seconds since the call began; tnow: the reading the loop compares;
\* steady: Me has been reachable since the call, or its present round, began.
NoCall == [op |-> "idle", force |-> FALSE, pc |-> "idle", retry |-> 0,
           clock |-> 0, tnow |-> 0, steady |-> FALSE]

Init ==
    /\ addr = [h \in Hosts |-> None]
    /\ sshd = [h \in Hosts |-> "off"]
    /\ arp = [a \in Addresses |-> None]
    /\ defined \in BOOLEAN
    /\ _ip = None
    /\ call = NoCall
    /\ last = [result |-> "none", ip |-> None, reached |-> None]
    /\ ncalls = 0 /\ leases = 0
    /\ given = {}

Rows == {a \in Addresses : arp[a] = Me}
Owner(a) == IF \E h \in Hosts : addr[h] = a
            THEN CHOOSE h \in Hosts : addr[h] = a ELSE None

\* Me answers, and the table gives its address and no other for it.
Reachable == addr[Me] # None /\ sshd[Me] = "up" /\ Rows = {addr[Me]} /\ defined

-----------------------------------------------------------------------------
(* The calls. *)

Return(r, ip, reached) ==
    /\ call' = NoCall
    /\ last' = [result |-> r, ip |-> ip, reached |-> reached]

Go(pc) == call' = [call EXCEPT !.pc = pc] /\ UNCHANGED last

Later(d) == IF call.clock + d > ClockCap THEN ClockCap ELSE call.clock + d

Ops == {"get_ip", "wait_for_ssh_ready", "ssh_run", "VirshSSH"}

\* ssh_run, scp_in, scp_out and VirshSSH ask for the address without force.
Begin ==
    /\ call = NoCall /\ ncalls < MaxCalls
    /\ ncalls' = ncalls + 1
    /\ \E op \in Ops, force \in BOOLEAN :
        /\ op = "wait_for_ssh_ready" => force
        /\ op \in {"ssh_run", "VirshSSH"} => ~force
        /\ call' = [NoCall EXCEPT
                !.op = op, !.force = force, !.retry = ARP_INTERVAL,
                !.pc = IF op = "wait_for_ssh_ready" THEN "round" ELSE "get_ip",
                !.steady = Reachable]
    /\ last' = [result |-> "none", ip |-> None, reached |-> None]
    /\ UNCHANGED <<net, _ip>>

\* Mutant: the time is not read again before the next round.
RoundAgainUntimed(d) ==
    /\ call' = [call EXCEPT !.pc = "round", !.clock = Later(d)]
    /\ UNCHANGED last

\* tnow = time.time(); continue
RoundAgain(d) ==
    /\ call' = [call EXCEPT !.pc = "round", !.clock = Later(d), !.tnow = Later(d)]
    /\ UNCHANGED last

\* What the caller does with the address get_ip returns.
WithAddress(ip) ==
    CASE call.op = "get_ip" -> Return("returned", ip, None)
      [] call.op = "ssh_run" -> Return("returned", ip, IF ip = None THEN None ELSE Owner(ip))
      [] call.op = "VirshSSH" /\ ip = None -> Return("raised", ip, None)
      [] call.op = "VirshSSH" /\ ip # None -> Go("ssh")
      [] call.op = "wait_for_ssh_ready" /\ ip = None -> RoundAgain(0)
      [] call.op = "wait_for_ssh_ready" /\ ip # None -> Go("connect")

\* The remembered address is handed out.
Remembered == ~call.force /\ _ip # None

\* Mutant: any line of the table that has an address and a MAC matches.
AnyRow == {a \in Addresses : arp[a] # None}

\* The lines of arp -a that carry the MAC of this guest.
Matching == Rows

\* get_ip: a try reads the table, the last matching line wins, an address
\* remembered from before ends the loop although no line matched.
get_ip ==
    /\ call.pc = "get_ip"
    /\ \/ /\ Remembered
          /\ WithAddress(_ip)
          /\ UNCHANGED _ip
       \/ /\ ~Remembered /\ ~defined        \* dom is None: AttributeError
          /\ Return("raised", None, None)
          /\ UNCHANGED _ip
       \/ /\ ~Remembered /\ defined /\ call.retry > 0
          /\ \/ \E a \in Matching : _ip' = a /\ WithAddress(a)
             \/ Matching = {} /\ _ip # None /\ WithAddress(_ip) /\ UNCHANGED _ip
             \/ /\ Matching = {} /\ _ip = None
                /\ call' = [call EXCEPT !.retry = @ - 1, !.clock = Later(1)]
                /\ UNCHANGED <<_ip, last>>
       \/ /\ ~Remembered /\ defined /\ call.retry = 0
          /\ WithAddress(None)
          /\ UNCHANGED _ip
    /\ UNCHANGED <<net, ncalls>>

\* The loop of wait_for_ssh_ready.
Round ==
    /\ call.pc = "round"
    /\ IF call.tnow < Timeout
       THEN call' = [call EXCEPT !.pc = "get_ip", !.retry = ARP_INTERVAL,
                                 !.steady = Reachable]
            /\ UNCHANGED last
       ELSE Return("False", _ip, None)
    /\ UNCHANGED <<net, _ip, ncalls>>

\* connect_ex: whoever has the address now answers; refused at once.  Where nobody
\* is, there is no route after a few seconds, while ARP finds that out, or nothing
\* until the timeout of the socket.
Connect ==
    LET h == Owner(_ip)
    IN  /\ call.pc = "connect"
        /\ \/ h # None /\ sshd[h] # "off" /\ Go("recv")
           \/ h # None /\ sshd[h] = "off" /\ RoundAgain(1)
           \/ h = None /\ (RoundAgain(2) \/ RoundAgain(Timeout + 1))
        /\ UNCHANGED <<net, _ip, ncalls>>

\* Mutant: a banner is never recognised.
NoBanner(h) == FALSE

\* "SSH-" in sdata[0:4]
Banner(h) == h # None /\ sshd[h] = "up"

\* recv: the banner, nothing before the timeout, an end of the stream (no data),
\* or a reset, which is not caught.
Recv ==
    LET h == Owner(_ip)
    IN  /\ call.pc = "recv"
        /\ \/ Banner(h) /\ Return("True", _ip, h)
           \/ ~Banner(h) /\ (RoundAgain(Timeout) \/ RoundAgain(1))
           \/ ~Banner(h) /\ Return("raised", _ip, None)
        /\ UNCHANGED <<net, _ip, ncalls>>

\* VirshSSH._wait_and_connect: an SSHException of a server that is up, such as a
\* refused login, ends it; every other error, of a server that is up too, is tried
\* again until the timeout, and then the assertion fails.
WaitAndConnect ==
    LET h == Owner(_ip)
        up == h # None /\ sshd[h] = "up"
    IN  /\ call.pc = "ssh"
        /\ \/ up /\ (Return("connected", _ip, h) \/ Return("raised", _ip, None))
           \/ call.clock >= Timeout /\ Return("raised", _ip, None)
           \/ /\ call.clock < Timeout
              /\ \E d \in {1, Timeout} : call' = [call EXCEPT !.clock = Later(d)]
              /\ UNCHANGED last
        /\ UNCHANGED <<net, _ip, ncalls>>

Step == get_ip \/ Round \/ Connect \/ Recv \/ WaitAndConnect

-----------------------------------------------------------------------------
(* The network and the guests (outside this repository). *)

\* After a change of the network Me may no longer be reachable.
Watched == call' = [call EXCEPT !.steady = @ /\ Reachable']

TestUnchanged == UNCHANGED <<_ip, last, ncalls, defined>> /\ Watched

Lease(h, a) ==
    /\ addr[h] = None /\ Owner(a) = None /\ leases < MaxLeases
    /\ addr' = [addr EXCEPT ![h] = a]
    /\ leases' = leases + 1
    /\ UNCHANGED <<sshd, arp, given>> /\ TestUnchanged

\* A guest shuts down, reboots or loses its lease.
Leave(h) ==
    /\ addr[h] # None
    /\ addr' = [addr EXCEPT ![h] = None]
    /\ sshd' = [sshd EXCEPT ![h] = "off"]
    /\ given' = IF h = Me THEN given \cup {addr[Me]} ELSE given
    /\ UNCHANGED <<arp, leases>> /\ TestUnchanged

Boot(h) ==
    /\ addr[h] # None
    /\ \/ sshd[h] = "off" /\ sshd' = [sshd EXCEPT ![h] = "port"]
       \/ sshd[h] = "port" /\ sshd' = [sshd EXCEPT ![h] = "up"]
    /\ UNCHANGED <<addr, arp, leases, given>> /\ TestUnchanged

Learn(h) ==
    /\ addr[h] # None /\ arp[addr[h]] # h
    /\ arp' = [arp EXCEPT ![addr[h]] = h]
    /\ UNCHANGED <<addr, sshd, leases, given>> /\ TestUnchanged

Forget(a) ==
    /\ arp[a] # None
    /\ arp' = [arp EXCEPT ![a] = None]
    /\ UNCHANGED <<addr, sshd, leases, given>> /\ TestUnchanged

Network ==
    \/ \E h \in Hosts : \/ Leave(h) \/ Boot(h) \/ Learn(h)
                        \/ \E a \in Addresses : Lease(h, a)
    \/ \E a \in Addresses : Forget(a)

Next == Begin \/ Step \/ Network

\* The thread of the test runs; nothing is assumed of the network.
Spec == Init /\ [][Next]_vars /\ WF_vars(Step)

-----------------------------------------------------------------------------
(* Properties *)

NetTypeOK ==
    /\ addr \in [Hosts -> Addresses \cup {None}]
    /\ sshd \in [Hosts -> {"off", "port", "up"}]
    /\ arp \in [Addresses -> Hosts \cup {None}]
    /\ defined \in BOOLEAN /\ leases \in 0..MaxLeases
    /\ given \subseteq Addresses

Calls ==
    [op : Ops \cup {"idle"}, force : BOOLEAN,
     pc : {"idle", "round", "get_ip", "connect", "recv", "ssh"},
     retry : 0..ARP_INTERVAL, clock : 0..ClockCap, tnow : 0..ClockCap, steady : BOOLEAN]

Results ==
    [result : {"none", "returned", "raised", "True", "False", "connected"},
     ip : Addresses \cup {None}, reached : Hosts \cup {None}]

TypeOK ==
    /\ NetTypeOK
    /\ call \in Calls /\ last \in Results /\ ncalls \in 0..MaxCalls
    /\ _ip \in Addresses \cup {None}
    /\ call.pc \in {"connect", "recv", "ssh"} => _ip # None
    /\ call.pc # "idle" => call.op # "idle"

(***************************************************************************)
(* wait_for_ssh_ready, ssh_run, scp and VirshSSH may reach another guest,  *)
(* but only at an address that their own guest had and has given up: the   *)
(* address in use, however old, was never anybody else's guess.            *)
(***************************************************************************)
ReachedIsOwn == last.reached = Other => last.ip \in given

\* No two guests have one address.  What the table gives for Me, and what is
\* remembered, is an address that Me has or had.
AddressInv ==
    /\ addr[Me] # None => addr[Me] # addr[Other]
    /\ \A a \in Addresses : arp[a] = Me => a = addr[Me] \/ a \in given
    /\ _ip # None => _ip = addr[Me] \/ _ip \in given

\* The inductive invariant.
IInv == TypeOK /\ AddressInv /\ ReachedIsOwn

(***************************************************************************)
(* A guest that answers, at the one address the table gives for it, from   *)
(* the beginning of a round of wait_for_ssh_ready until the wait is over is *)
(* reported as ready, in the round that outlasts the timeout too: the wait *)
(* neither times out nor raises, whatever address it used before.          *)
(***************************************************************************)
ReadyIsSeen ==
    [][call.op = "wait_for_ssh_ready" /\ call' = NoCall /\ call.steady
       => last'.result = "True"]_vars

\* As long as Me has been reachable, the round of wait_for_ssh_ready is on its way
\* to Me; it is then the first round that has not begun yet.
SteadyInv ==
    /\ call.steady => Reachable
    /\ call.op = "wait_for_ssh_ready" => call.force
    /\ call.op = "wait_for_ssh_ready" /\ call.steady =>
         /\ call.pc \in {"round", "get_ip", "connect", "recv"}
         /\ call.pc = "round" => call.tnow = 0
         /\ call.pc = "get_ip" => call.retry = ARP_INTERVAL
         /\ call.pc \in {"connect", "recv"} => _ip = addr[Me]

(***************************************************************************)
(* Every call ends, whether or not the guest ever has an address, listens  *)
(* or answers: each path through the loops reads the clock again, and the  *)
(* tries of get_ip are counted.                                            *)
(***************************************************************************)
CallsEnd == (call # NoCall) ~> (call = NoCall)

=============================================================================
