---------------------------- MODULE QuoteProofs ----------------------------
(***************************************************************************)
(* Proofs about Measure and Quote, for any logs, requests, report data and *)
(* number of extensions.  EventsInv is about every function that goes      *)
(* through the events as ReplaySingle does, so that the induction over the *)
(* log is the one over the steps of process().                             *)
(***************************************************************************)
EXTENDS Quote, TLAPS, SequenceTheorems, WellFoundedInduction

\* What every function that satisfies the replay's equation gives is what
\* _replay_single_rtmr gives.
LEMMA ReplaySingleIs ==
  ASSUME NEW i \in Registers, NEW v, ReplaysTo(events, i, v)
  PROVE  ReplaySingle(i) = v
  BY DEF ReplaySingle, Replays, ReplaysTo

\* One more event extends the register by its digest if it is the register's own.
LEMMA ReplaysAppend ==
  ASSUME NEW ev \in Seq(Event), NEW e \in Event, NEW i \in Registers, NEW v,
         ReplaysTo(ev, i, v)
  PROVE  ReplaysTo(Append(ev, e), i,
                   IF e.rtmr - 1 = i THEN Append(v, e.digests[1].digest) ELSE v)
  <1> DEFINE k == Len(ev)
             more == Append(ev, e)
  <1>1. k \in Nat /\ Len(more) = k + 1 /\ more[k + 1] = e /\ \A n \in 1..k : more[n] = ev[n]
    OBVIOUS
  <1> HIDE DEF k, more
  <1>2. \E f : Replays(f, more, i)
    <2>1. PICK f : Replays(f, ev, i)
      BY DEF ReplaysTo
    <2> DEFINE last == IF e.rtmr - 1 = i THEN Append(f[k], e.digests[1].digest) ELSE f[k]
               g == [n \in 0..(k + 1) |-> IF n = k + 1 THEN last ELSE f[n]]
    <2>2. \A n \in 0..k : g[n] = f[n]
      BY <1>1
    <2>3. ASSUME NEW n \in 0..(k + 1)
          PROVE  g[n] = IF n = 0 THEN Zero
                        ELSE IF more[n].rtmr - 1 = i
                             THEN Append(g[n - 1], more[n].digests[1].digest)
                        ELSE g[n - 1]
      <3>1. CASE n = k + 1
        <4>1. g[n] = last /\ n - 1 = k /\ g[n - 1] = f[k] /\ more[n] = e /\ n # 0
          BY <1>1, <3>1
        <4> QED BY <4>1
      <3>2. CASE n = 0
        <4>1. g[0] = f[0] /\ f[0] = Zero
          BY <1>1, <2>1 DEF Replays, k
        <4> QED BY <4>1, <3>2
      <3>3. CASE n \in 1..k
        <4>1. n - 1 \in 0..k /\ n \in 0..k /\ n # 0 /\ more[n] = ev[n]
          BY <1>1, <3>3
        <4>2. f[n] = IF ev[n].rtmr - 1 = i THEN Append(f[n - 1], ev[n].digests[1].digest)
                     ELSE f[n - 1]
          BY <2>1, <4>1 DEF Replays, k
        <4> QED BY <2>2, <4>1, <4>2
      <3> QED BY <1>1, <3>1, <3>2, <3>3
    <2>4. Replays(g, more, i)
      <3> HIDE DEF last
      <3>1. g = [n \in 0..(k + 1) |-> g[n]]
        OBVIOUS
      <3> HIDE DEF g
      <3> QED BY <1>1, <2>3, <3>1 DEF Replays
    <2> QED BY <2>4
  <1>3. ASSUME NEW g, Replays(g, more, i)
        PROVE  g[k + 1] = IF e.rtmr - 1 = i THEN Append(v, e.digests[1].digest) ELSE v
    <2> DEFINE h == [n \in 0..k |-> g[n]]
    <2>1. ASSUME NEW n \in 0..(k + 1)
          PROVE  g[n] = IF n = 0 THEN Zero
                        ELSE IF more[n].rtmr - 1 = i
                             THEN Append(g[n - 1], more[n].digests[1].digest)
                        ELSE g[n - 1]
      BY <1>1, <1>3 DEF Replays
    <2>2. ASSUME NEW n \in 0..k
          PROVE  h[n] = IF n = 0 THEN Zero
                        ELSE IF ev[n].rtmr - 1 = i
                             THEN Append(h[n - 1], ev[n].digests[1].digest)
                        ELSE h[n - 1]
      <3>1. n \in 0..(k + 1) /\ h[n] = g[n]
        BY <1>1
      <3>2. CASE n = 0
        BY <2>1, <3>1, <3>2
      <3>3. CASE n # 0
        <4>1. n \in 1..k /\ n - 1 \in 0..k /\ h[n - 1] = g[n - 1]
          BY <1>1, <3>3
        <4> QED BY <1>1, <2>1, <3>1, <3>3, <4>1
      <3> QED BY <3>2, <3>3
    <2>3. Replays(h, ev, i)
      <3>1. h = [n \in 0..k |-> h[n]]
        OBVIOUS
      <3> HIDE DEF h
      <3> QED BY <2>2, <3>1 DEF Replays, k
    <2>4. h[k] = v /\ h[k] = g[k]
      BY <1>1, <2>3 DEF k, ReplaysTo
    <2>5. k + 1 \in 0..(k + 1) /\ k + 1 # 0 /\ (k + 1) - 1 = k
      BY <1>1
    <2> HIDE DEF h
    <2> QED BY <1>1, <2>1, <2>4, <2>5
  <1> QED BY <1>1, <1>2, <1>3 DEF more, ReplaysTo

\* No event replays to a register of zeros.
LEMMA ReplaysNothing ==
  ASSUME NEW i \in Registers
  PROVE  ReplaysTo(<<>>, i, Zero)
  <1>1. Len(<<>>) = 0
    OBVIOUS
  <1>2. Replays([n \in 0..0 |-> Zero], <<>>, i)
    BY <1>1 DEF Replays
  <1>3. \A f : Replays(f, <<>>, i) => f[0] = Zero
    BY <1>1 DEF Replays
  <1> QED BY <1>1, <1>2, <1>3 DEF ReplaysTo

\* A set of naturals has a least member.
LEMMA LeastNat ==
  ASSUME NEW T, T \subseteq Nat, T # {}
  PROVE  \E m \in T : \A n \in T : m <= n
  <1>1. PICK m \in T : \A n \in T : ~(<<n, m>> \in OpToRel(<, Nat))
    BY NatLessThanWellFounded, WFMin
  <1>2. \A n \in T : ~(n < m)
    BY <1>1 DEF OpToRel
  <1>3. \A n \in T : n \in Nat
    OBVIOUS
  <1> QED BY <1>2, <1>3

\* The first k entries without an end mark, and the mark or the end of the log
\* behind them, are the entries used.
LEMMA UsedEnd ==
  ASSUME NEW l \in Seq(Entry), NEW k \in Nat, k <= Len(l),
         \A n \in 1..k : l[n].kind # "end",
         k < Len(l) => l[k + 1].kind = "end"
  PROVE  Used(l) = k
  <1> DEFINE I == {i \in 1..Len(l) : l[i].kind = "end"}
  <1>1. Len(l) \in Nat
    OBVIOUS
  <1>2. CASE k = Len(l)
    <2>1. I = {}
      BY <1>1, <1>2
    <2> QED BY <2>1, <1>1, <1>2 DEF Used, SelectInSeq
  <1>3. CASE k < Len(l)
    <2>1. k + 1 \in I /\ \A n \in I : n >= k + 1
      BY <1>1, <1>3
    <2>2. Min(I) = k + 1
      <3>1. \A n \in I : n \in Int
        BY <1>1
      <3> HIDE DEF I
      <3>2. \A x \in I : (\A y \in I : x <= y) => x = k + 1
        BY <2>1, <3>1
      <3> QED BY <2>1, <3>1, <3>2 DEF Min
    <2> QED BY <2>1, <2>2, <1>1, <1>3 DEF Used, SelectInSeq
  <1> QED BY <1>1, <1>2, <1>3

\* The entries used are entries of the log.
LEMMA UsedType ==
  ASSUME NEW l \in Seq(Entry)
  PROVE  Used(l) \in 0..Len(l)
  <1> DEFINE I == {i \in 1..Len(l) : l[i].kind = "end"}
  <1>1. Len(l) \in Nat
    OBVIOUS
  <1>2. CASE I = {}
    BY <1>1, <1>2 DEF Used, SelectInSeq
  <1>3. CASE I # {}
    <2>1. Min(I) \in I
      <3>1. I \subseteq Nat
        BY <1>1
      <3> HIDE DEF I
      <3> QED BY <1>3, <3>1, LeastNat DEF Min
    <2> QED BY <1>1, <1>3, <2>1 DEF Used, SelectInSeq
  <1> QED BY <1>2, <1>3

LEMMA PrefixRefl == ASSUME NEW S, NEW s \in Seq(S) PROVE IsPrefix(s, s)
  BY DEF IsPrefix

LEMMA PrefixAppend ==
  ASSUME NEW S, NEW s \in Seq(S), NEW t \in Seq(S), NEW x \in S, IsPrefix(s, t)
  PROVE  IsPrefix(s, Append(t, x))
  <1>1. Len(s) \in Nat /\ Len(t) \in Nat /\ Len(Append(t, x)) = Len(t) + 1
    OBVIOUS
  <1>2. SubSeq(t, 1, Len(s)) = SubSeq(Append(t, x), 1, Len(s))
    BY <1>1 DEF IsPrefix
  <1> QED BY <1>1, <1>2 DEF IsPrefix

-----------------------------------------------------------------------------
(* The registers and the log                                               *)

\* What the firmware has measured is four registers.
LEMMA BootType ==
  ASSUME NEW l \in Logs
  PROVE  /\ l \in Seq(Entry) /\ Len(l) \in Nat /\ Used(l) \in 0..Len(l)
         /\ \A n \in 0..Len(l) : Boot[l][n] \in [Registers -> Seq(Fits)]
  <1>1. l \in Seq(Entry)
    BY MeasureAssumption
  <1>2. \A n \in 0..Len(l) : Boot[l][n] \in [Registers -> Seq(Fits)]
    BY FirmwareAssumption
  <1> QED BY <1>1, <1>2, UsedType

LEMMA Bounds == AreaLength \in Nat /\ MaxExtends \in Nat
  BY MeasureAssumption

\* In the initial states nothing was read and the registers are as booted.
LEMMA InitInv ==
  ASSUME Init
  PROVE  IInv
  <1> USE DEF Init
  <1>1. Boot[log][Used(log)] \in [Registers -> Seq(Fits)] /\ log \in Seq(Entry) /\ Len(log) \in Nat
    BY BootType
  <1>2. rtmr = Boot[log][Used(log)]
    BY <1>1 DEF Booted
  <1>3. TypeOK
    <2>1. 0 \in 0..MaxExtends /\ 0 \in 0..AreaLength /\ 3 \in Registers
      BY Bounds DEF Registers
    <2>2. unlogged \in [Registers -> 0..MaxExtends] /\ touched \in [Registers -> 0..MaxExtends]
      BY <2>1
    <2>3. /\ DOMAIN ima = {"pc", "todo", "index", "failed"}
          /\ ima.pc = "idle" /\ ima.index = 3 /\ ima.failed = FALSE
      OBVIOUS
    <2>4. events \in Seq(Event) /\ Len(events) = 0
      OBVIOUS
    <2>5. verdict \in [Registers -> {"none", "passed", "failed"}]
      BY DEF NoVerdict
    <2>6. Len(events) <= index
      BY <2>4
    <2> QED BY <1>1, <1>2, <2>4, <2>1, <2>2, <2>3, <2>5, <2>6 DEF TypeOK
  <1>4. Beyond(rtmr, unlogged)
    <2> SUFFICES ASSUME NEW i \in Registers
                 PROVE  Len(rtmr[i]) = Len(Booted(i)) + unlogged[i] /\ rtmr[i] = Booted(i)
      BY DEF Beyond
    <2>1. rtmr[i] = Booted(i) /\ rtmr[i] \in Seq(Fits) /\ unlogged[i] = 0
      BY <1>1, <1>2
    <2> QED BY <2>1
  <1>5. EventsInv
    <2>1. \A i \in Registers : Boot[log][0][i] = Zero
      BY FirmwareAssumption DEF Zeros
    <2>2. Len(events) = 0
      OBVIOUS
    <2> QED BY <1>1, <2>1, <2>2, ReplaysNothing DEF EventsInv
  <1>6. ProcessInv /\ VerifyInv /\ VerdictExact
    BY DEF ProcessInv, VerifyInv, VerdictExact, NoVerdict
  <1> QED BY <1>3, <1>4, <1>5, <1>6 DEF IInv

\* The programs that read depend on the log and on their own variables.
LEMMA ExtendFrame ==
  ASSUME IInv, UNCHANGED <<log, actorVars>>, Beyond(rtmr, unlogged)',
         rtmr' \in [Registers -> Seq(Fits)], unlogged' \in [Registers -> 0..MaxExtends],
         extended' \in {"none", "success", "failure", "wrong", "raised"},
         DOMAIN ima' = {"pc", "todo", "index", "failed"},
         ima'.pc \in {"idle", "extend", "done"}, ima'.index \in Registers, ima'.failed \in BOOLEAN
  PROVE  IInv'
  <1> USE DEF IInv, actorVars, logVars
  <1>1. TypeOK'
    BY DEF TypeOK
  <1>2. EventsInv'
    BY DEF EventsInv
  <1>3. ProcessInv' /\ VerifyInv' /\ VerdictExact'
    BY DEF ProcessInv, VerifyInv, VerdictExact, Beyond, Booted
  <1> QED BY <1>1, <1>2, <1>3

\* An extension is counted, and what a register held stays in front.
LEMMA IoctlInv ==
  ASSUME IInv, UNCHANGED log, NEW i \in Registers, NEW data \in Fits, ioctl(i, data)
  PROVE  /\ rtmr' \in [Registers -> Seq(Fits)] /\ unlogged' \in [Registers -> 0..MaxExtends]
         /\ Beyond(rtmr, unlogged)'
  <1>1. rtmr \in [Registers -> Seq(Fits)] /\ unlogged \in [Registers -> 0..MaxExtends] /\ log \in Logs
    BY DEF IInv, TypeOK
  <1>2. rtmr' = [rtmr EXCEPT ![i] = Append(@, data)] /\ unlogged' = [unlogged EXCEPT ![i] = @ + 1]
    BY DEF ioctl
  <1>3. \A k \in Registers : unlogged[k] \in Nat
    BY <1>1, Bounds
  <1>4. unlogged[i] + 1 \in 0..MaxExtends
    <2>1. unlogged[0] + unlogged[1] + unlogged[2] + unlogged[3] < MaxExtends
      BY DEF ioctl
    <2>2. unlogged[0] \in Nat /\ unlogged[1] \in Nat /\ unlogged[2] \in Nat /\ unlogged[3] \in Nat
      BY <1>3 DEF Registers
    <2>3. i = 0 \/ i = 1 \/ i = 2 \/ i = 3
      BY DEF Registers
    <2> QED BY <2>1, <2>2, <2>3, Bounds
  <1>5. rtmr[i] \in Seq(Fits) /\ Append(rtmr[i], data) \in Seq(Fits)
        /\ Len(Append(rtmr[i], data)) = Len(rtmr[i]) + 1
    BY <1>1
  <1>6. Beyond(rtmr, unlogged)'
    <2> SUFFICES ASSUME NEW k \in Registers
                 PROVE  /\ Len(rtmr'[k]) = Len(Booted(k)) + unlogged'[k]
                        /\ unlogged'[k] = 0 => rtmr'[k] = Booted(k)
      BY DEF Beyond, Booted
    <2>1. /\ Len(rtmr[k]) = Len(Booted(k)) + unlogged[k]
          /\ unlogged[k] = 0 => rtmr[k] = Booted(k)
      BY DEF IInv, Beyond
    <2>2. Booted(k) \in Seq(Fits) /\ Len(Booted(k)) \in Nat
      BY <1>1, BootType DEF Booted
    <2>3. CASE k = i
      <3>1. rtmr'[k] = Append(rtmr[i], data) /\ unlogged'[k] = unlogged[i] + 1
        BY <1>1, <1>2, <2>3
      <3> QED BY <1>3, <1>5, <2>1, <2>2, <2>3, <3>1
    <2>4. CASE k # i
      BY <1>1, <1>2, <2>1, <2>4
    <2> QED BY <2>3, <2>4
  <1> QED BY <1>1, <1>2, <1>4, <1>5, <1>6

\* tdx_extend_rtmr and extend_ima.py keep the invariant.
LEMMA ExtendStep ==
  ASSUME IInv,
         \/ \E r \in Requests : extend_rtmr(r)
         \/ \E i \in Registers : fetch_ima_measurements(i)
         \/ extend_measurement
  PROVE  IInv'
  <1>1. /\ rtmr \in [Registers -> Seq(Fits)] /\ unlogged \in [Registers -> 0..MaxExtends]
        /\ extended \in {"none", "success", "failure", "wrong", "raised"}
        /\ DOMAIN ima = {"pc", "todo", "index", "failed"}
        /\ ima.pc \in {"idle", "extend", "done"} /\ ima.index \in Registers /\ ima.failed \in BOOLEAN
        /\ Beyond(rtmr, unlogged)
    BY DEF IInv, TypeOK
  <1>2. UNCHANGED <<log, regVars>> => Beyond(rtmr, unlogged)'
    BY <1>1 DEF Beyond, Booted, regVars
  <1>3. ASSUME NEW r \in Requests, extend_rtmr(r)
        PROVE  IInv'
    <2> DEFINE data == extend_data(r.raw, r.str, r.digest)
    <2>1. UNCHANGED <<log, ima, actorVars>>
      BY <1>3 DEF extend_rtmr
    <2>2. r.index \in Registers
      BY MeasureAssumption
    <2> HIDE DEF data
    <2>3. CASE data \in Fits /\ ioctl(r.index, data) /\ extended' = "success"
      BY <1>1, <2>1, <2>2, <2>3, IoctlInv, ExtendFrame
    <2>4. CASE UNCHANGED regVars /\ extended' \in {"wrong", "failure", "raised"}
      BY <1>1, <1>2, <2>1, <2>4, ExtendFrame DEF regVars
    <2> QED BY <1>3, <2>3, <2>4 DEF extend_rtmr, data
  <1>4. ASSUME NEW i \in Registers, fetch_ima_measurements(i)
        PROVE  IInv'
    <2>1. /\ UNCHANGED <<log, regVars, extended, actorVars>>
          /\ \E where \in {"done", "extend"} : \E lines :
               ima' = [pc |-> where, todo |-> lines, index |-> i, failed |-> FALSE]
      BY <1>4 DEF fetch_ima_measurements
    <2>2. /\ DOMAIN ima' = {"pc", "todo", "index", "failed"}
          /\ ima'.pc \in {"idle", "extend", "done"} /\ ima'.index \in Registers
          /\ ima'.failed \in BOOLEAN
      BY <2>1
    <2> QED BY <1>1, <1>2, <2>1, <2>2, ExtendFrame DEF regVars
  <1>5. ASSUME extend_measurement
        PROVE  IInv'
    <2>1. UNCHANGED <<log, extended, actorVars>>
      BY <1>5 DEF extend_measurement
    <2>2. /\ \/ ioctl(ima.index, Sha[""]) \/ UNCHANGED regVars
          /\ ImaDone(TRUE) \/ ImaDone(FALSE)
      BY <1>5 DEF extend_measurement, extend_data, None
    <2>3. /\ DOMAIN ima' = {"pc", "todo", "index", "failed"}
          /\ ima'.pc \in {"idle", "extend", "done"} /\ ima'.index \in Registers
          /\ ima'.failed \in BOOLEAN
      BY <1>1, <2>2 DEF ImaDone
    <2>4. Sha[""] \in Fits
      BY MeasureAssumption
    <2>5. CASE ioctl(ima.index, Sha[""])
      BY <1>1, <2>1, <2>3, <2>4, <2>5, IoctlInv, ExtendFrame
    <2>6. CASE UNCHANGED regVars
      BY <1>1, <1>2, <2>1, <2>3, <2>6, ExtendFrame DEF regVars
    <2> QED BY <2>2, <2>5, <2>6
  <1> QED BY <1>3, <1>4, <1>5

-----------------------------------------------------------------------------
(* The commands that read the log                                          *)

\* The type of what a command has of its own.
ActorType ==
  /\ pc \in {"idle", "process", "parse", "replay", "report", "compare"}
  /\ cmd \in {"none", "eventlogs", "verify"} /\ dumping \in BOOLEAN
  /\ index \in 0..AreaLength /\ specid \subseteq Algorithms
  /\ events \in Seq(Event) /\ Len(events) <= index
  /\ read \in BOOLEAN /\ touched \in [Registers -> 0..MaxExtends]
  /\ verdict \in [Registers -> {"none", "passed", "failed"}]
  /\ outcome \in {"none", "done", "raised"}

\* A command changes nothing but its own variables.
LEMMA ActorFrame ==
  ASSUME IInv, UNCHANGED others,
         ActorType', EventsInv', ProcessInv', VerifyInv', VerdictExact'
  PROVE  IInv'
  <1> USE DEF IInv, others, regVars
  <1>1. TypeOK'
    BY DEF TypeOK, ActorType
  <1>2. Beyond(rtmr, unlogged)'
    BY DEF Beyond, Booted
  <1> QED BY <1>1, <1>2

LEMMA ActorTypeOK == ASSUME IInv PROVE ActorType
  BY DEF IInv, TypeOK, ActorType

\* EventsInv depends on the log, the events and the index.
LEMMA EventsFrame == ASSUME EventsInv, UNCHANGED <<log, logVars>> PROVE EventsInv'
  BY DEF EventsInv, logVars

\* An actor that has read nothing has no events.
LEMMA EventsNone ==
  ASSUME log' \in Logs, events' = <<>>, index' = 0
  PROVE  EventsInv'
  <1>1. \A i \in Registers : Boot[log'][0][i] = Zero
    BY FirmwareAssumption DEF Zeros
  <1>2. log' \in Seq(Entry) /\ Len(log') \in Nat
    BY BootType
  <1>3. Len(events') = 0
    OBVIOUS
  <1> QED BY <1>1, <1>2, <1>3, ReplaysNothing DEF EventsInv

\* A command that ends with an exception.
LEMMA EndStep ==
  ASSUME IInv, End("raised"), pc # "idle"
  PROVE  IInv'
  <1>1. ActorType /\ ActorType'
    BY ActorTypeOK DEF ActorType, End, logVars
  <1>2. EventsInv'
    BY EventsFrame DEF IInv, End, others
  <1>3. ProcessInv' /\ VerifyInv' /\ VerdictExact'
    BY DEF IInv, ProcessInv, VerifyInv, VerdictExact, End, others, logVars
  <1> QED BY <1>1, <1>2, <1>3, ActorFrame DEF End

\* A command that begins has an actor of its own.
LEMMA RunStep ==
  ASSUME IInv, NEW c \in {"eventlogs", "verify"}, run(c)
  PROVE  IInv'
  <1>1. log \in Logs /\ UNCHANGED others
    BY DEF IInv, TypeOK, run
  <1>2. ActorType'
    <2>1. 0 \in 0..AreaLength /\ 0 \in 0..MaxExtends
      BY Bounds
    <2>2. touched' \in [Registers -> 0..MaxExtends]
      BY <2>1 DEF run
    <2>3. verdict' \in [Registers -> {"none", "passed", "failed"}]
      BY DEF run, NoVerdict
    <2>4. events' \in Seq(Event) /\ Len(events') = 0
      BY DEF run
    <2>5. Len(events') <= index'
      BY <2>4 DEF run
    <2> QED BY <2>4, <2>1, <2>2, <2>3, <2>5 DEF run, ActorType
  <1>3. EventsInv'
    BY <1>1, EventsNone DEF run, others
  <1>4. ProcessInv' /\ VerifyInv' /\ VerdictExact'
    BY DEF ProcessInv, VerifyInv, VerdictExact, run, NoVerdict
  <1> QED BY <1>1, <1>2, <1>3, <1>4, ActorFrame

\* process() begins, or has nothing to do.
LEMMA ProcessStep ==
  ASSUME IInv, Process \/ Processed
  PROVE  IInv'
  <1>1. ActorType /\ log \in Logs /\ pc = "process"
    BY ActorTypeOK DEF IInv, TypeOK, Process, Processed
  <1>2. CASE Process
    <2>1. UNCHANGED others /\ events' = <<>> /\ index' = 0
      BY <1>2 DEF Process, Goto, IInv, ProcessInv
    <2>2. ActorType'
      <3>1. 0 \in 0..AreaLength /\ Len(events') <= 0
        BY <2>1, Bounds
      <3> QED BY <1>1, <1>2, <2>1, <3>1 DEF Process, Goto, ActorType
    <2>3. EventsInv'
      BY <1>1, <2>1, EventsNone DEF others
    <2>4. ProcessInv' /\ VerifyInv' /\ VerdictExact'
      BY <1>1, <1>2, <2>1 DEF IInv, ProcessInv, VerifyInv, VerdictExact, Process, Goto, others, NoVerdict
    <2> QED BY <2>4, <2>1, <2>2, <2>3, ActorFrame
  <1>3. CASE End("raised")
    BY <1>1, <1>3, EndStep
  <1>4. CASE UNCHANGED logVars /\ Goto("replay")
    <2>1. UNCHANGED others
      BY <1>4 DEF Goto
    <2>2. ActorType'
      BY <1>1, <1>4 DEF Goto, ActorType, logVars
    <2>3. EventsInv'
      BY <1>4, EventsFrame DEF IInv, Goto, others
    <2>4. ProcessInv' /\ VerifyInv' /\ VerdictExact'
      BY <1>1, <1>4 DEF IInv, ProcessInv, VerifyInv, VerdictExact, Goto, others, logVars
    <2> QED BY <2>4, <2>1, <2>2, <2>3, ActorFrame
  <1> QED BY <1>2, <1>3, <1>4 DEF Processed

\* process() takes an entry: the header, or an event.
LEMMA EntryStep ==
  ASSUME IInv, SpecIdHeader \/ EventLogEntry
  PROVE  IInv'
  <1> DEFINE e == log[index + 1]
             next == Boot[log][index + 1]
  <1>1. ActorType /\ log \in Logs /\ log \in Seq(Entry) /\ Len(log) \in Nat
    BY ActorTypeOK, BootType DEF IInv, TypeOK
  <1>2. /\ pc = "parse" /\ pc' = "parse" /\ index < AreaLength /\ index < Len(log)
        /\ e.kind # "end" /\ index' = index + 1 /\ UNCHANGED <<read, others>>
        /\ UNCHANGED <<cmd, dumping, rtmrs, report, touched, verdict, outcome>>
    BY DEF SpecIdHeader, EventLogEntry, Goto
  <1>3. index \in Nat /\ index \in 0..Len(log) /\ index + 1 \in 1..Len(log) /\ index + 1 \in 0..Len(log)
        /\ (index + 1) - 1 = index /\ index + 1 \in 0..AreaLength
    BY <1>1, <1>2, Bounds DEF ActorType
  <1>4. e \in Entry
    BY <1>1, <1>3
  <1>5. Boot[log][index] \in [Registers -> Seq(Fits)] /\ next = Extended(Boot[log][index], e)
    BY <1>1, <1>3, BootType, FirmwareAssumption
  <1>6. \A n \in 1..index' : log'[n].kind # "end"
    <2>1. \A n \in 1..index : log[n].kind # "end"
      BY DEF IInv, EventsInv
    <2>2. \A n \in 1..(index + 1) : n = index + 1 \/ n \in 1..index
      BY <1>3
    <2> QED BY <1>2, <2>1, <2>2 DEF others
  <1>7. ProcessInv' /\ VerifyInv' /\ VerdictExact'
    BY <1>2 DEF IInv, ProcessInv, VerifyInv, VerdictExact, others
  <1>8. CASE SpecIdHeader
    <2>1. events' = events /\ specid' = e.algs /\ e.kind = "spec"
      BY <1>8 DEF SpecIdHeader
    <2>2. \A i \in Registers : next[i] = Boot[log][index][i]
      BY <1>5, <2>1 DEF Extended
    <2> HIDE DEF e, next
    <2>3. EventsInv'
      BY <1>2, <1>3, <1>6, <2>1, <2>2 DEF IInv, EventsInv, others, next
    <2>4. ActorType'
      <3>1. Len(events') <= index'
        BY <1>1, <1>2, <1>3, <2>1 DEF ActorType
      <3>2. specid' \subseteq Algorithms
        BY <1>4, <2>1 DEF Entry
      <3> QED BY <1>1, <1>2, <1>3, <2>1, <3>1, <3>2 DEF ActorType
    <2> QED BY <1>2, <1>7, <2>3, <2>4, ActorFrame
  <1>9. CASE EventLogEntry
    <2> DEFINE event == [rtmr |-> e.reg, digests |-> e.digests]
    <2>1. events' = Append(events, event) /\ specid' = specid /\ e.kind = "event"
      BY <1>9 DEF EventLogEntry
    <2>2. event \in Event /\ e.reg \in 0..5 /\ event.rtmr = e.reg /\ event.digests = e.digests
      BY <1>4 DEF Entry, Event
    <2>3. events \in Seq(Event) /\ Len(events) \in Nat /\ Len(events') = Len(events) + 1
          /\ events' \in Seq(Event)
      BY <1>1, <2>1, <2>2 DEF ActorType
    <2>4. ASSUME NEW i \in Registers
          PROVE  next[i] = IF event.rtmr - 1 = i
                           THEN Append(Boot[log][index][i], event.digests[1].digest)
                           ELSE Boot[log][index][i]
      <3>1. e.reg = i + 1 <=> event.rtmr - 1 = i
        BY <2>2 DEF Registers
      <3> HIDE DEF event
      <3> QED BY <1>5, <2>1, <2>2, <3>1 DEF Extended
    <2> HIDE DEF e, next, event
    <2>5. ASSUME NEW i \in Registers
          PROVE  ReplaysTo(events', i, next[i])
      <3>1. ReplaysTo(events, i, Boot[log][index][i])
        BY DEF IInv, EventsInv
      <3> QED BY <2>4, <2>1, <2>2, <2>3, <3>1, ReplaysAppend
    <2>6. EventsInv'
      BY <1>2, <1>3, <1>6, <2>5 DEF EventsInv, others, next
    <2>7. ActorType'
      <3>1. Len(events') <= index'
        BY <1>1, <1>2, <1>3, <2>3 DEF ActorType
      <3> QED BY <1>1, <1>2, <1>3, <2>1, <2>3, <3>1 DEF ActorType
    <2> QED BY <1>2, <1>7, <2>6, <2>7, ActorFrame
  <1> QED BY <1>8, <1>9

\* process() ends where the firmware did.
LEMMA ParseEndsStep ==
  ASSUME IInv, ParseEnds
  PROVE  IInv'
  <1>1. ActorType /\ log \in Logs /\ log \in Seq(Entry) /\ Len(log) \in Nat
    BY ActorTypeOK, BootType DEF IInv, TypeOK
  <1>2. /\ pc = "parse" /\ read
        /\ index >= AreaLength \/ (index < Len(log) /\ log[index + 1].kind = "end")
    BY DEF IInv, ProcessInv, ParseEnds
  <1>3. index = Used(log)
    <2>1. index \in Nat /\ index <= Len(log) /\ \A n \in 1..index : log[n].kind # "end"
      BY <1>1 DEF IInv, EventsInv
    <2>2. Len(log) <= AreaLength
      BY <1>1, FirmwareAssumption
    <2>3. index < Len(log) => log[index + 1].kind = "end"
      BY <1>1, <1>2, <2>1, <2>2, Bounds
    <2> QED BY <1>1, <2>1, <2>3, UsedEnd
  <1>4. CASE End("raised")
    BY <1>2, <1>4, EndStep
  <1>5. CASE (specid # {} /\ Dump) \/ (UNCHANGED logVars /\ Goto("replay"))
    <2>1. /\ UNCHANGED <<others, logVars, cmd, rtmrs, report, touched, verdict, outcome>>
          /\ dumping' \in BOOLEAN
          /\ pc' = "replay" \/ (pc' = "process" /\ specid # {})
      BY <1>1, <1>5 DEF Dump, Goto, ActorType
    <2>2. ActorType'
      BY <1>1, <2>1 DEF ActorType, logVars
    <2>3. EventsInv'
      BY <2>1, EventsFrame DEF IInv, others
    <2>4. ProcessInv' /\ VerifyInv' /\ VerdictExact'
      BY <1>2, <1>3, <2>1 DEF IInv, ProcessInv, VerifyInv, VerdictExact, others, logVars
    <2> QED BY <2>4, <2>1, <2>2, <2>3, ActorFrame
  <1> QED BY <1>4, <1>5 DEF ParseEnds

\* The events are replayed: to what the firmware had measured at that entry.
LEMMA ReplayStep ==
  ASSUME IInv, Replay
  PROVE  IInv'
  <1>1. ActorType /\ log \in Logs /\ pc = "replay"
    BY ActorTypeOK DEF IInv, TypeOK, Replay
  <1>2. Boot[log][index] \in [Registers -> Seq(Fits)]
    BY <1>1, BootType DEF IInv, EventsInv
  <1>3. \A i \in Registers : ReplaySingle(i) = Boot[log][index][i]
    BY ReplaySingleIs DEF IInv, EventsInv
  <1>4. rtmrs' = Boot[log][index]
    BY <1>2, <1>3 DEF Replay
  <1>5. UNCHANGED <<others, logVars, report, touched, verdict>>
    BY DEF Replay
  <1>6. ActorType'
    BY <1>1 DEF Replay, ActorType, logVars
  <1>7. EventsInv'
    BY <1>5, EventsFrame DEF IInv, others
  <1>8. read => index = Used(log)
    BY <1>1 DEF IInv, ProcessInv
  <1>9. ProcessInv' /\ VerifyInv' /\ VerdictExact'
    BY <1>1, <1>4, <1>5, <1>8 DEF IInv, ProcessInv, VerifyInv, VerdictExact, Replay, others, logVars, NoVerdict
  <1> QED BY <1>5, <1>6, <1>7, <1>9, ActorFrame

\* The report is of the registers of the moment.
LEMMA ReportStep ==
  ASSUME IInv, GetTdReport
  PROVE  IInv'
  <1>1. /\ ActorType /\ pc = "report" /\ pc' = "compare"
        /\ rtmr \in [Registers -> Seq(Fits)] /\ unlogged \in [Registers -> 0..MaxExtends]
    BY ActorTypeOK DEF IInv, TypeOK, GetTdReport
  <1>2. UNCHANGED <<others, logVars, cmd, dumping, rtmrs, verdict, outcome>>
        /\ report' = rtmr /\ touched' = unlogged
    BY DEF GetTdReport
  <1>3. ActorType'
    BY <1>1, <1>2 DEF ActorType, logVars
  <1>4. EventsInv'
    BY <1>2, EventsFrame DEF IInv, others
  <1>5. Beyond(report, touched)'
    BY <1>2 DEF IInv, Beyond, Booted, others
  <1>6. verdict = NoVerdict
    BY <1>1 DEF IInv, VerifyInv
  <1>7. ProcessInv' /\ VerifyInv' /\ VerdictExact'
    BY <1>1, <1>2, <1>5, <1>6 DEF IInv, ProcessInv, VerifyInv, VerdictExact, others, logVars, NoVerdict
  <1> QED BY <1>2, <1>3, <1>4, <1>7, ActorFrame

\* The comparison is exact: a register is longer by what it was extended.
LEMMA CompareStep ==
  ASSUME IInv, Compare
  PROVE  IInv'
  <1>1. ActorType /\ pc = "compare" /\ log \in Logs
    BY ActorTypeOK DEF IInv, TypeOK, Compare
  <1>2. /\ UNCHANGED <<others, logVars, cmd, dumping, rtmrs, report, touched>>
        /\ pc' = "idle" /\ outcome' = "done"
        /\ verdict' = [i \in Registers |-> IF rtmrs[i] = report[i] THEN "passed" ELSE "failed"]
    BY DEF Compare
  <1>3. /\ report \in [Registers -> Seq(Fits)] /\ Beyond(report, touched)
        /\ rtmrs = Boot[log][index] /\ (read => index = Used(log)) /\ (~read => index = 0)
    BY <1>1 DEF IInv, VerifyInv, ProcessInv
  <1>4. ActorType'
    <2>1. verdict' \in [Registers -> {"none", "passed", "failed"}]
      BY <1>2
    <2> QED BY <1>1, <1>2, <2>1 DEF ActorType, logVars
  <1>5. EventsInv'
    BY <1>2, EventsFrame DEF IInv, others
  <1>6. ASSUME NEW i \in Registers
        PROVE  /\ verdict'[i] = "passed" => touched[i] = 0
               /\ verdict'[i] = "failed" /\ read => touched[i] > 0
    <2>1. /\ touched[i] \in Nat /\ Booted(i) \in Seq(Fits) /\ Len(Booted(i)) \in Nat
          /\ Len(report[i]) = Len(Booted(i)) + touched[i]
          /\ touched[i] = 0 => report[i] = Booted(i)
      BY <1>1, <1>3, BootType, Bounds DEF ActorType, Beyond, Booted
    <2>2. CASE read
      <3>1. rtmrs[i] = Booted(i)
        BY <1>3, <2>2 DEF Booted
      <3> QED BY <1>2, <2>1, <2>2, <3>1
    <2>3. CASE ~read
      <3>1. rtmrs[i] = Zero
        BY <1>1, <1>3, <2>3, FirmwareAssumption DEF Zeros
      <3>2. Len(Zero) = 0
        BY DEF Zero
      <3> QED BY <1>2, <2>1, <2>3, <3>1, <3>2
    <2> QED BY <2>2, <2>3
  <1>7. VerdictExact'
    BY <1>2, <1>6 DEF VerdictExact, logVars
  <1>8. ProcessInv' /\ VerifyInv'
    BY <1>1, <1>2, <1>3 DEF IInv, ProcessInv, VerifyInv, others, logVars
  <1> QED BY <1>2, <1>4, <1>5, <1>7, <1>8, ActorFrame

\* Every step of Measure keeps the invariant.
LEMMA NextInv ==
  ASSUME IInv, Next
  PROVE  IInv'
  <1>1. CASE Actor
    <2>1. CASE ParseRaises \/ ReplayRaises \/ ReportFails
      BY <2>1, EndStep DEF ParseRaises, ReplayRaises, ReportFails
    <2> QED BY <1>1, <2>1, ProcessStep, EntryStep, ParseEndsStep, ReplayStep, ReportStep,
               CompareStep DEF Actor
  <1> QED BY <1>1, ExtendStep, RunStep DEF Next

\* A step of somebody else.
LEMMA StutterInv ==
  ASSUME IInv, UNCHANGED vars
  PROVE  IInv'
  <1>1. UNCHANGED <<log, actorVars, rtmr, unlogged, extended, ima>>
    BY DEF vars, regVars
  <1>2. Beyond(rtmr, unlogged)'
    BY <1>1 DEF IInv, Beyond, Booted
  <1> QED BY <1>1, <1>2, ExtendFrame DEF IInv, TypeOK

\* What the invariant says of a command that has replayed the log.
LEMMA InvReplayIsBoot ==
  ASSUME IInv
  PROVE  ReplayIsBoot
  BY DEF IInv, VerifyInv, ReplayIsBoot, Booted

-----------------------------------------------------------------------------
(* The quote                                                               *)

\* A register keeps what it holds, and may be extended.
LEMMA RtmrGrows ==
  ASSUME IInv, Next, NEW i \in Registers
  PROVE  rtmr'[i] = rtmr[i] \/ \E d \in Fits : rtmr'[i] = Append(rtmr[i], d)
  <1>1. rtmr \in [Registers -> Seq(Fits)] /\ ima.index \in Registers
    BY DEF IInv, TypeOK
  <1>2. ASSUME NEW k \in Registers, NEW d \in Fits, ioctl(k, d)
        PROVE  rtmr'[i] = rtmr[i] \/ rtmr'[i] = Append(rtmr[i], d)
    BY <1>1, <1>2 DEF ioctl
  <1>3. ASSUME NEW r \in Requests, extend_rtmr(r)
        PROVE  rtmr'[i] = rtmr[i] \/ \E d \in Fits : rtmr'[i] = Append(rtmr[i], d)
    <2> DEFINE data == extend_data(r.raw, r.str, r.digest)
    <2>1. (data \in Fits /\ ioctl(r.index, data)) \/ rtmr' = rtmr
      BY <1>3 DEF extend_rtmr, regVars
    <2>2. r.index \in Registers
      BY MeasureAssumption
    <2> HIDE DEF data
    <2> QED BY <1>2, <2>1, <2>2
  <1>4. ASSUME extend_measurement
        PROVE  rtmr'[i] = rtmr[i] \/ \E d \in Fits : rtmr'[i] = Append(rtmr[i], d)
    <2>1. ioctl(ima.index, Sha[""]) \/ rtmr' = rtmr
      BY <1>4 DEF extend_measurement, extend_data, None, regVars
    <2>2. Sha[""] \in Fits
      BY MeasureAssumption
    <2> QED BY <1>1, <1>2, <2>1, <2>2
  <1>5. ASSUME \/ \E k \in Registers : fetch_ima_measurements(k)
               \/ \E c \in {"eventlogs", "verify"} : run(c)
               \/ Actor
        PROVE  rtmr' = rtmr
    BY <1>5 DEF fetch_ima_measurements, run, Actor, Process, Processed, SpecIdHeader, EventLogEntry,
       ParseEnds, ParseRaises, Replay, ReplayRaises, GetTdReport, ReportFails, Compare,
       Dump, Goto, End, others, regVars
  <1> QED BY <1>3, <1>4, <1>5 DEF Next

\* What was between the registers of the call's beginning and those of now stays so.
LEMMA BetweenStays ==
  ASSUME IInv, Next \/ UNCHANGED vars, UNCHANGED regs,
         NEW r \in [Registers -> Seq(Fits)], Between(r)
  PROVE  Between(r)'
  <1> SUFFICES ASSUME NEW i \in Registers
               PROVE  IsPrefix(regs[i], r[i]) /\ IsPrefix(r[i], rtmr'[i])
    BY DEF Between
  <1>1. r[i] \in Seq(Fits) /\ rtmr[i] \in Seq(Fits)
    BY DEF IInv, TypeOK
  <1>2. IsPrefix(regs[i], r[i]) /\ IsPrefix(r[i], rtmr[i])
    BY DEF Between
  <1>3. rtmr'[i] = rtmr[i] \/ \E d \in Fits : rtmr'[i] = Append(rtmr[i], d)
    BY RtmrGrows DEF vars, regVars
  <1> QED BY <1>1, <1>2, <1>3, PrefixAppend

\* The beginning of the call is before now.
LEMMA BetweenNow ==
  ASSUME IInv, Next \/ UNCHANGED vars, UNCHANGED regs,
         regs \in [Registers -> Seq(Fits)], Between(rtmr)
  PROVE  Between(rtmr)'
  <1>1. IInv'
    BY NextInv, StutterInv
  <1> SUFFICES ASSUME NEW i \in Registers
               PROVE  IsPrefix(regs[i], rtmr'[i])
    <2>1. \A k \in Registers : IsPrefix(rtmr'[k], rtmr'[k])
      BY <1>1, PrefixRefl DEF IInv, TypeOK
    <2> QED BY <2>1 DEF Between
  <1>2. rtmr[i] \in Seq(Fits) /\ regs[i] \in Seq(Fits) /\ IsPrefix(regs[i], rtmr[i])
    BY DEF IInv, TypeOK, Between
  <1>3. rtmr'[i] = rtmr[i] \/ \E d \in Fits : rtmr'[i] = Append(rtmr[i], d)
    BY RtmrGrows DEF vars, regVars
  <1> QED BY <1>2, <1>3, PrefixAppend

\* Texts that the driver and the service make are texts.
LEMMA ContentsMade ==
  /\ NoBytes \in Contents /\ Empty \in Contents /\ Bytes("old", None, Zeros) \in Contents
  /\ \A r \in Asked, v \in [Registers -> Seq(Fits)] : Bytes("report", r.data, v) \in Contents
  /\ \A b \in Contents : [b EXCEPT !.what = "request"] \in Contents
  /\ \A b \in Contents : [b EXCEPT !.what = "quote"] \in Contents
  /\ Other \in Contents /\ \A b \in Contents : Cut(b) \in Contents
  <1>1. Zeros \in [Registers -> Seq(Fits)]
    BY DEF Zeros, Zero
  <1>2. None \in {r.data : r \in Asked}
    <2>1. NoCall.report_data \in Asked
      BY DEF Asked
    <2>2. NoCall.report_data.data = None
      BY DEF NoCall
    <2> QED BY <2>1, <2>2
  <1> QED BY <1>1, <1>2 DEF Contents, Bytes, NoBytes, Empty, Other, Cut

LEMMA TdInitInv ==
  ASSUME TdInit
  PROVE  TdInv
  <1>1. IInv
    BY InitInv DEF TdInit
  <1>2. QuoteTypeOK
    <2>1. Zeros \in [Registers -> Seq(Fits)]
      BY DEF Zeros, Zero
    <2>2. NoCall.report_data \in Asked
      BY DEF Asked
    <2>3. buffer.body = NoBytes
      BY DEF TdInit, QuoteInit, NoMessage, Message
    <2>4. {buffer.body, quote, output} \subseteq Contents
      BY <2>3, ContentsMade DEF TdInit, QuoteInit
    <2> QED BY <2>1, <2>2, <2>4, ContentsMade DEF TdInit, QuoteInit, QuoteTypeOK, NoCall
  <1>3. BufferInv /\ call.pc = "unused"
    BY DEF TdInit, QuoteInit, BufferInv, NoCall
  <1> QED BY <1>1, <1>2, <1>3 DEF TdInv

\* The programs of Measure go on while a quote is asked for.
LEMMA BesideStep ==
  ASSUME TdInv, Next \/ UNCHANGED vars, UNCHANGED quoteVars
  PROVE  TdInv'
  <1> USE DEF quoteVars
  <1>1. IInv /\ IInv'
    BY NextInv, StutterInv DEF TdInv
  <1>2. QuoteTypeOK'
    BY DEF TdInv, QuoteTypeOK
  <1>3. (call.pc # "unused" => Between(rtmr))'
    BY <1>1, BetweenNow DEF TdInv, QuoteTypeOK
  <1>4. ASSUME ReportInv
        PROVE  ReportInv'
    BY <1>1, <1>4, BetweenStays DEF ReportInv
  <1>5. BufferInv'
    BY <1>4 DEF TdInv, BufferInv
  <1> QED BY <1>1, <1>2, <1>3, <1>5 DEF TdInv

\* get_quote begins.
LEMMA AskStep ==
  ASSUME TdInv, UNCHANGED vars,
         NEW r \in ReportDatas, NEW d \in Devices, NEW f \in BOOLEAN, get_quote(r, d, f)
  PROVE  TdInv'
  <1>1. IInv /\ IInv' /\ rtmr' = rtmr /\ rtmr \in [Registers -> Seq(Fits)]
    BY StutterInv DEF TdInv, IInv, TypeOK, vars, regVars
  <1>2. /\ call' = [NoCall EXCEPT !.pc = "report", !.device = d, !.report_data = r, !.to_file = f]
        /\ regs' = rtmr /\ buffer' = NoMessage /\ quote' = NoBytes /\ output' = output
    BY DEF get_quote
  <1>3. /\ call'.pc = "report" /\ call'.outcome = "none"
        /\ call' \in [pc : {"unused", "report", "send", "wait", "unpack", "open", "write", "done"},
                      device : Devices \cup {None}, report_data : Asked, report : Contents,
                      to_file : BOOLEAN, outcome : {"none", "quote", "nothing", "raised"}]
    <2>1. r \in Asked
      BY DEF Asked
    <2> QED BY <1>2, <2>1, ContentsMade DEF NoCall
  <1>4. {buffer'.body, quote', output'} \subseteq Contents
    BY <1>2, ContentsMade DEF TdInv, QuoteTypeOK, NoMessage, Message
  <1>5. QuoteTypeOK'
    BY <1>1, <1>2, <1>3, <1>4 DEF QuoteTypeOK
  <1>6. Between(rtmr)'
    BY <1>1, <1>2, PrefixRefl DEF Between
  <1>7. BufferInv'
    BY <1>2, <1>3 DEF BufferInv
  <1> QED BY <1>1, <1>5, <1>6, <1>7 DEF TdInv

\* The rest of get_quote leaves the arguments and the registers of the
\* beginning alone, so that only the buffer is to be looked at.
LEMMA QuoteFrame ==
  ASSUME TdInv, UNCHANGED vars, UNCHANGED regs, call.pc # "unused",
         QuoteTypeOK', BufferInv'
  PROVE  TdInv'
  <1>1. IInv' /\ Between(rtmr)'
    BY StutterInv DEF TdInv, Between, vars, regVars
  <1> QED BY <1>1 DEF TdInv

\* The call ends without a quote.
LEMMA QuoteEnds ==
  ASSUME TdInv, UNCHANGED vars, UNCHANGED <<regs, quote>>, call.pc # "unused",
         buffer' = buffer, output' \in Contents,
         NEW how \in {"nothing", "raised"}, EndQuote(how),
         how = "nothing" => quote = NoBytes
  PROVE  TdInv'
  <1>1. /\ call'.pc = "done" /\ call'.outcome = how
        /\ call' \in [pc : {"unused", "report", "send", "wait", "unpack", "open", "write", "done"},
                      device : Devices \cup {None}, report_data : Asked, report : Contents,
                      to_file : BOOLEAN, outcome : {"none", "quote", "nothing", "raised"}]
    BY DEF EndQuote, TdInv, QuoteTypeOK
  <1>2. QuoteTypeOK'
    BY <1>1 DEF TdInv, QuoteTypeOK
  <1>3. BufferInv'
    BY <1>1 DEF BufferInv
  <1> QED BY <1>2, <1>3, QuoteFrame

\* The report is made of the registers of the moment.
LEMMA QuoteReportStep ==
  ASSUME TdInv, UNCHANGED vars, QuoteReport \/ QuoteReportFails
  PROVE  TdInv'
  <1>1. /\ call.pc = "report" /\ quote = NoBytes /\ UNCHANGED <<regs, buffer, quote, output>>
        /\ rtmr \in [Registers -> Seq(Fits)] /\ rtmr' = rtmr
    BY DEF TdInv, IInv, TypeOK, BufferInv, QuoteReport, QuoteReportFails, vars, regVars
  <1>2. CASE EndQuote("raised") \/ EndQuote("nothing")
    BY <1>1, <1>2, QuoteEnds DEF TdInv, QuoteTypeOK
  <1>3. CASE /\ ~(call.report_data.length > REPORTDATA_LEN)
             /\ call' = [call EXCEPT !.pc = "send",
                           !.report = Bytes("report", call.report_data.data, rtmr)]
    <2>1. call.report_data \in Asked /\ call.report_data.length \in Nat
      BY QuoteAssumption DEF TdInv, QuoteTypeOK, Asked, NoCall
    <2>2. Bytes("report", call.report_data.data, rtmr) \in Contents
      BY <1>1, <2>1, ContentsMade
    <2>3. /\ call'.pc = "send" /\ call'.outcome = call.outcome /\ call'.report_data = call.report_data
          /\ call'.report = Bytes("report", call.report_data.data, rtmr)
          /\ call' \in [pc : {"unused", "report", "send", "wait", "unpack", "open", "write", "done"},
                        device : Devices \cup {None}, report_data : Asked, report : Contents,
                        to_file : BOOLEAN, outcome : {"none", "quote", "nothing", "raised"}]
      BY <1>3, <2>2 DEF TdInv, QuoteTypeOK
    <2>4. QuoteTypeOK' /\ call'.outcome = "none"
      BY <1>1, <2>3 DEF TdInv, QuoteTypeOK
    <2>5. ReportInv'
      <3>1. Between(rtmr)
        BY <1>1 DEF TdInv
      <3>2. call.report_data.length <= REPORTDATA_LEN
        BY <1>3, <2>1 DEF REPORTDATA_LEN
      <3>3. call'.report.rtmr = rtmr
        BY <2>3 DEF Bytes
      <3> QED BY <1>1, <2>3, <3>1, <3>2, <3>3 DEF ReportInv, Between
    <2>6. BufferInv'
      BY <1>1, <2>3, <2>4, <2>5 DEF BufferInv
    <2> QED BY <1>1, <2>4, <2>6, QuoteFrame
  <1> QED BY <1>2, <1>3 DEF QuoteReport, QuoteReportFails

\* The request is put in the buffer.
LEMMA QuoteSendStep ==
  ASSUME TdInv, UNCHANGED vars, QuoteSend
  PROVE  TdInv'
  <1>1. call.pc = "send" /\ quote = NoBytes /\ UNCHANGED <<regs, quote, output>> /\ ReportInv
    BY DEF TdInv, BufferInv, QuoteSend
  <1>2. CASE (EndQuote("raised") \/ EndQuote("nothing")) /\ buffer' = buffer
    BY <1>1, <1>2, QuoteEnds DEF TdInv, QuoteTypeOK
  <1>3. CASE buffer' = create_tdx_quote_req(call.report) /\ call' = [call EXCEPT !.pc = "wait"]
    <2>1. /\ call'.pc = "wait" /\ call'.outcome = call.outcome /\ call'.report = call.report
          /\ call'.report_data = call.report_data
          /\ call' \in [pc : {"unused", "report", "send", "wait", "unpack", "open", "write", "done"},
                        device : Devices \cup {None}, report_data : Asked, report : Contents,
                        to_file : BOOLEAN, outcome : {"none", "quote", "nothing", "raised"}]
      BY <1>3 DEF TdInv, QuoteTypeOK
    <2>2. buffer'.body \in Contents
      <3>1. call.report \in Contents
        BY DEF TdInv, QuoteTypeOK
      <3> QED BY <1>3, <3>1, ContentsMade DEF create_tdx_quote_req, Message
    <2>3. QuoteTypeOK' /\ call'.outcome = "none"
      BY <1>1, <2>1, <2>2 DEF TdInv, QuoteTypeOK
    <2>4. ReportInv'
      BY <1>1, <2>1 DEF ReportInv, Between, vars, regVars
    <2>5. BufferInv'
      BY <1>1, <1>3, <2>1, <2>3, <2>4 DEF BufferInv
    <2> QED BY <1>1, <2>3, <2>5, QuoteFrame
  <1> QED BY <1>2, <1>3 DEF QuoteSend

\* The bodies of answers are texts.
LEMMA AnswerBody ==
  ASSUME NEW m, m.body \in Contents, NEW b \in Answers(m)
  PROVE  b.body \in Contents
  BY ContentsMade DEF Answers, Message

\* The service answers, or the request stays in the buffer.
LEMMA QuoteAnsweredStep ==
  ASSUME TdInv, UNCHANGED vars, QuoteAnswered
  PROVE  TdInv'
  <1>1. /\ call.pc = "wait" /\ quote = NoBytes /\ UNCHANGED <<regs, quote, output>> /\ ReportInv
        /\ buffer = create_tdx_quote_req(call.report)
    BY DEF TdInv, BufferInv, QuoteAnswered
  <1>2. CASE EndQuote("nothing") /\ buffer' = buffer
    BY <1>1, <1>2, QuoteEnds DEF TdInv, QuoteTypeOK
  <1>3. CASE buffer' \in Answers(buffer) \cup {buffer} /\ call' = [call EXCEPT !.pc = "unpack"]
    <2>1. /\ call'.pc = "unpack" /\ call'.outcome = call.outcome /\ call'.report = call.report
          /\ call'.report_data = call.report_data
          /\ call' \in [pc : {"unused", "report", "send", "wait", "unpack", "open", "write", "done"},
                        device : Devices \cup {None}, report_data : Asked, report : Contents,
                        to_file : BOOLEAN, outcome : {"none", "quote", "nothing", "raised"}]
      BY <1>3 DEF TdInv, QuoteTypeOK
    <2>2. buffer'.body \in Contents
      BY <1>3, AnswerBody DEF TdInv, QuoteTypeOK
    <2>3. QuoteTypeOK' /\ call'.outcome = "none"
      BY <1>1, <2>1, <2>2 DEF TdInv, QuoteTypeOK
    <2>4. ReportInv'
      BY <1>1, <2>1 DEF ReportInv, Between, vars, regVars
    <2>5. BufferInv'
      BY <1>1, <1>3, <2>1, <2>3, <2>4 DEF BufferInv
    <2> QED BY <1>1, <2>3, <2>5, QuoteFrame
  <1> QED BY <1>2, <1>3 DEF QuoteAnswered

\* Only an answer is unpacked to something: the lengths of a request disagree.
LEMMA RequestIsNoQuote ==
  ASSUME NEW b
  PROVE  get_tdquote_bytes_from_req(create_tdx_quote_req(b)) = NoBytes
  BY DEF get_tdquote_bytes_from_req, create_tdx_quote_req, Message, HEADER_LEN, REPORT_LEN

\* A quote is unpacked: it is kept for the file, returned, or there is none.
LEMMA QuoteUnpackStep ==
  ASSUME TdInv, UNCHANGED vars, QuoteUnpack
  PROVE  TdInv'
  <1> DEFINE b == get_tdquote_bytes_from_req(buffer)
             request == create_tdx_quote_req(call.report)
  <1>1. /\ call.pc = "unpack" /\ UNCHANGED <<regs, buffer, output>> /\ quote' = b /\ ReportInv
        /\ buffer \in Answers(request) \cup {request}
        /\ call.outcome = "none"
    BY DEF TdInv, QuoteTypeOK, BufferInv, QuoteUnpack
  <1>2. b # NoBytes => buffer \in Answers(request)
    BY <1>1, RequestIsNoQuote
  <1>3. b \in Contents
    BY ContentsMade DEF get_tdquote_bytes_from_req, qgs_msg_quote_resp, TdInv, QuoteTypeOK
  <1>4. \E where \in {"open", "done"}, how \in {"none", "quote", "nothing"} :
          /\ call' = [call EXCEPT !.pc = where, !.outcome = how]
          /\ how = "nothing" <=> b = NoBytes
          /\ how # "none" => where = "done"
          /\ where = "open" => call.to_file /\ b # NoBytes
          /\ how = "quote" => ~call.to_file
    BY <1>1 DEF QuoteUnpack, EndQuote, TdInv, QuoteTypeOK
  <1> HIDE DEF b, request
  <1>5. /\ call'.pc \in {"open", "done"} /\ call'.outcome \in {"none", "quote", "nothing"}
        /\ call'.outcome = "nothing" <=> b = NoBytes
        /\ call'.outcome # "none" => call'.pc = "done"
        /\ call'.pc = "open" => call'.to_file /\ b # NoBytes
        /\ call'.outcome = "quote" => ~call'.to_file
        /\ call'.report = call.report /\ call'.report_data = call.report_data
        /\ call' \in [pc : {"unused", "report", "send", "wait", "unpack", "open", "write", "done"},
                      device : Devices \cup {None}, report_data : Asked, report : Contents,
                      to_file : BOOLEAN, outcome : {"none", "quote", "nothing", "raised"}]
    BY <1>4 DEF TdInv, QuoteTypeOK
  <1>6. QuoteTypeOK'
    BY <1>1, <1>3, <1>5 DEF TdInv, QuoteTypeOK
  <1>7. ReportInv'
    BY <1>1, <1>5 DEF ReportInv, Between, vars, regVars
  <1>8. BufferInv'
    BY <1>1, <1>2, <1>5, <1>7 DEF BufferInv, b, request
  <1> QED BY <1>1, <1>6, <1>8, QuoteFrame

\* tdx_quote opens its file and writes the quote, or cannot.
LEMMA QuoteFileStep ==
  ASSUME TdInv, UNCHANGED vars, QuoteOpen \/ QuoteWrite
  PROVE  TdInv'
  <1>1. /\ call.pc \in {"open", "write"} /\ UNCHANGED <<regs, buffer, quote>> /\ ReportInv
        /\ call.to_file /\ call.outcome = "none" /\ {quote, output} \subseteq Contents
    BY DEF TdInv, QuoteTypeOK, BufferInv, QuoteOpen, QuoteWrite
  <1>2. CASE EndQuote("raised") /\ output' \in {output, Cut(quote)}
    <2>1. output' \in Contents
      BY <1>1, <1>2, ContentsMade
    <2> QED BY <1>1, <1>2, <2>1, QuoteEnds
  <1>3. CASE \/ output' = Empty /\ call' = [call EXCEPT !.pc = "write"]
             \/ output' = quote /\ EndQuote("quote")
    <2>1. /\ call'.pc = "write" \/ (call'.pc = "done" /\ call'.outcome = "quote")
          /\ call'.outcome = "none" \/ (call'.pc = "done" /\ call'.outcome = "quote")
          /\ call'.report = call.report /\ call'.report_data = call.report_data
          /\ call'.to_file = call.to_file /\ (call'.outcome = "quote" => output' = quote)
          /\ call' \in [pc : {"unused", "report", "send", "wait", "unpack", "open", "write", "done"},
                        device : Devices \cup {None}, report_data : Asked, report : Contents,
                        to_file : BOOLEAN, outcome : {"none", "quote", "nothing", "raised"}]
      BY <1>1, <1>3 DEF TdInv, QuoteTypeOK, EndQuote
    <2>2. output' \in Contents
      BY <1>1, <1>3, ContentsMade
    <2>3. QuoteTypeOK'
      BY <1>1, <2>1, <2>2 DEF TdInv, QuoteTypeOK
    <2>4. ReportInv'
      BY <1>1, <2>1 DEF ReportInv, Between, vars, regVars
    <2>5. BufferInv'
      BY <1>1, <2>1, <2>4 DEF TdInv, BufferInv
    <2> QED BY <1>1, <2>3, <2>5, QuoteFrame
  <1> QED BY <1>2, <1>3 DEF QuoteOpen, QuoteWrite

-----------------------------------------------------------------------------
(* The theorems                                                            *)

\* The invariant holds in every state of the registers, the commands that read
\* the log and get_quote side by side.
THEOREM TdInvariance == TdSpec => []TdInv
  <1>1. TdInit => TdInv
    BY TdInitInv
  <1>2. TdInv /\ [TdNext]_TdVars => TdInv'
    <2> SUFFICES ASSUME TdInv, [TdNext]_TdVars
                 PROVE  TdInv'
      OBVIOUS
    <2>1. CASE Next /\ UNCHANGED quoteVars
      BY <2>1, BesideStep
    <2>2. CASE UNCHANGED TdVars
      BY <2>2, BesideStep DEF TdVars
    <2>3. ASSUME UNCHANGED vars,
                 NEW r \in ReportDatas, NEW d \in Devices, NEW f \in BOOLEAN, get_quote(r, d, f)
          PROVE  TdInv'
      BY <2>3, AskStep
    <2>4. CASE QuoteStep /\ UNCHANGED vars
      BY <2>4, QuoteReportStep, QuoteSendStep, QuoteAnsweredStep, QuoteUnpackStep, QuoteFileStep
         DEF QuoteStep
    <2> QED BY <2>4, <2>1, <2>2, <2>3 DEF TdNext
  <1> QED BY <1>1, <1>2, PTL DEF TdSpec

\* tdx_verify_rtmr, whoever extends registers meanwhile and whatever the log: a
\* register passes only if nobody had extended it when the report was made, and
\* when the log could be read it fails only if somebody had.
THEOREM VerdictCorrect == TdSpec => []VerdictExact
  <1>1. TdInv => VerdictExact
    BY DEF TdInv, IInv
  <1> QED BY <1>1, TdInvariance, PTL

\* What tdx_eventlogs and tdx_verify_rtmr replay is what the firmware measured,
\* for every log it may have left.
THEOREM ReplayCorrect == TdSpec => []ReplayIsBoot
  <1>1. TdInv => ReplayIsBoot
    BY InvReplayIsBoot DEF TdInv
  <1> QED BY <1>1, TdInvariance, PTL

\* What get_quote returns is no request; it is the answer to its request, with
\* the caller's report data and the registers of one moment of the call, if the
\* message has the version and type of an answer and no error code.
THEOREM QuoteCorrect == TdSpec => []QuoteIsAnswer
  <1>1. TdInv => QuoteIsAnswer
    <2> SUFFICES ASSUME TdInv, call.outcome = "quote"
                 PROVE  /\ quote.what # "request" /\ buffer.body.what # "request"
                        /\ buffer.right /\ ~buffer.error =>
                             /\ quote.what = "quote" /\ quote.data = call.report_data.data
                             /\ call.report_data.length <= REPORTDATA_LEN
                             /\ quote.rtmr = call.report.rtmr /\ Between(quote.rtmr)
      BY DEF QuoteIsAnswer
    <2> DEFINE body == [create_tdx_quote_req(call.report).body EXCEPT !.what = "quote"]
    <2>1. /\ ReportInv /\ buffer \in Answers(create_tdx_quote_req(call.report))
          /\ quote = get_tdquote_bytes_from_req(buffer) /\ quote # NoBytes
      BY DEF TdInv, BufferInv
    <2>2. /\ body.what = "quote" /\ body.data = call.report_data.data
          /\ body.rtmr = call.report.rtmr /\ body # Empty
      <3> DEFINE data == call.report_data.data
                 now == call.report.rtmr
      <3>1. call.report = Bytes("report", data, now)
        BY <2>1 DEF ReportInv
      <3>2. create_tdx_quote_req(call.report).body = [call.report EXCEPT !.what = "request"]
        BY DEF create_tdx_quote_req, Message
      <3> HIDE DEF data, now
      <3>3. [call.report EXCEPT !.what = "request"] = Bytes("request", data, now)
        BY <3>1 DEF Bytes
      <3>4. body = Bytes("quote", data, now)
        <4>1. [Bytes("request", data, now) EXCEPT !.what = "quote"] = Bytes("quote", data, now)
          BY DEF Bytes
        <4> QED BY <3>2, <3>3, <4>1
      <3>5. body # Empty
        BY <3>4 DEF Bytes, Empty
      <3> QED BY <3>4, <3>5 DEF Bytes, data, now
    <2> HIDE DEF body
    <2>3. \/ buffer = Message(HEADER_LEN + 1 + 4, HEADER_LEN + 1, TRUE, FALSE, 1, body)
          \/ buffer = Message(HEADER_LEN + 1, HEADER_LEN + 1, TRUE, FALSE, 1, body)
          \/ \E w \in {<<TRUE, TRUE>>, <<FALSE, TRUE>>, <<FALSE, FALSE>>} :
               \/ buffer = Message(HEADER_LEN + 4, HEADER_LEN, w[1], w[2], 0, NoBytes)
               \/ buffer = Message(HEADER_LEN + 1 + 4, HEADER_LEN + 1, w[1], w[2], 1, Other)
      BY <2>1 DEF Answers, body
    <2>4. CASE buffer = Message(HEADER_LEN + 1 + 4, HEADER_LEN + 1, TRUE, FALSE, 1, body)
      <3>1. quote = body /\ buffer.body = body
        BY <2>1, <2>4 DEF get_tdquote_bytes_from_req, qgs_msg_quote_resp, Message, HEADER_LEN
      <3> QED BY <2>1, <2>2, <3>1 DEF ReportInv
    <2>5. CASE buffer = Message(HEADER_LEN + 1, HEADER_LEN + 1, TRUE, FALSE, 1, body)
      BY <2>1, <2>5 DEF get_tdquote_bytes_from_req, Message, HEADER_LEN
    <2>6. ASSUME NEW w \in {<<TRUE, TRUE>>, <<FALSE, TRUE>>, <<FALSE, FALSE>>},
                 \/ buffer = Message(HEADER_LEN + 4, HEADER_LEN, w[1], w[2], 0, NoBytes)
                 \/ buffer = Message(HEADER_LEN + 1 + 4, HEADER_LEN + 1, w[1], w[2], 1, Other)
          PROVE  /\ quote.what # "request" /\ buffer.body.what # "request"
                 /\ ~(buffer.right /\ ~buffer.error)
      <3>1. ~(w[1] /\ ~w[2])
        <4>1. CASE w = <<TRUE, TRUE>>
          <5>1. w[2] = TRUE
            BY <4>1
          <5> QED BY <5>1
        <4>2. CASE w = <<FALSE, TRUE>>
          <5>1. w[1] = FALSE
            BY <4>2
          <5> QED BY <5>1
        <4>3. CASE w = <<FALSE, FALSE>>
          <5>1. w[1] = FALSE
            BY <4>3
          <5> QED BY <5>1
        <4> QED BY <2>6, <4>1, <4>2, <4>3
      <3>2. buffer.right = w[1] /\ buffer.error = w[2] /\ buffer.body \in {NoBytes, Other}
        BY <2>6 DEF Message
      <3>3. quote \in {NoBytes, Empty, Other}
        BY <2>1, <3>2 DEF get_tdquote_bytes_from_req, qgs_msg_quote_resp
      <3> QED BY <3>1, <3>2, <3>3 DEF NoBytes, Empty, Other, Bytes
    <2> QED BY <2>6, <2>5, <2>4, <2>3
  <1> QED BY <1>1, TdInvariance, PTL

\* tdx_quote touches its output file only when there is a quote, and puts
\* nothing else there than that quote or, when it raises, nothing or a part of
\* it; when it ends well the file is what get_quote returned.
THEOREM OutputCorrect == TdSpec => OutputIsQuote
  <1> DEFINE Step ==
        /\ output' # output => /\ call.to_file /\ quote # NoBytes
                               /\ output' \in {Empty, Cut(quote), quote}
        /\ call.to_file /\ call'.outcome = "quote" => output' = quote
  <1>1. TdInv /\ [TdNext]_TdVars => [Step]_TdVars
    <2> SUFFICES ASSUME TdInv, TdNext
                 PROVE  Step
      OBVIOUS
    <2>1. CASE UNCHANGED quoteVars
      BY <2>1 DEF quoteVars, TdInv, BufferInv
    <2>2. CASE \E r \in ReportDatas, d \in Devices, f \in BOOLEAN : get_quote(r, d, f)
      BY <2>2 DEF get_quote, NoCall
    <2>3. CASE QuoteReport \/ QuoteReportFails \/ QuoteSend \/ QuoteAnswered
      BY <2>3 DEF QuoteReport, QuoteReportFails, QuoteSend, QuoteAnswered, EndQuote,
         TdInv, QuoteTypeOK
    <2>4. CASE QuoteUnpack
      BY <2>4 DEF QuoteUnpack, EndQuote, TdInv, QuoteTypeOK
    <2>5. CASE QuoteOpen \/ QuoteWrite
      BY <2>5 DEF QuoteOpen, QuoteWrite, EndQuote, TdInv, QuoteTypeOK, BufferInv
    <2> QED BY <2>5, <2>4, <2>3, <2>2, <2>1 DEF TdNext, QuoteStep
  <1> QED BY <1>1, TdInvariance, PTL DEF TdSpec, OutputIsQuote

-----------------------------------------------------------------------------
(* How far a reader may go on.  The log is gone through at most once, since  *)
(* process() reads only for an actor without a header and is called again    *)
(* only with one.                                                            *)

\* Steps that a command may still take.
StepsLeft ==
  CASE pc = "idle" -> 0
    [] pc = "compare" -> 1
    [] pc = "report" -> 2
    [] pc = "replay" -> 3
    [] pc = "process" /\ specid # {} -> 4
    [] pc = "parse" -> 5 + (AreaLength - index)
    [] pc = "process" /\ specid = {} -> 6 + AreaLength

\* Steps that get_quote and tdx_quote may still take.
QuoteLeft ==
  CASE call.pc \in {"unused", "done"} -> 0
    [] call.pc = "write" -> 1
    [] call.pc = "open" -> 2
    [] call.pc = "unpack" -> 3
    [] call.pc = "wait" -> 4
    [] call.pc = "send" -> 5
    [] call.pc = "report" -> 6

\* A command that has begun is left alone or comes nearer to its end.
Nearer == pc # "idle" => UNCHANGED actorVars \/ StepsLeft' < StepsLeft

\* So does get_quote, and it does not begin again.
QuoteNearer == call.pc # "unused" => UNCHANGED quoteVars \/ QuoteLeft' < QuoteLeft

LEMMA StepsLeftType == IInv => StepsLeft \in Nat /\ StepsLeft <= AreaLength + 6
  <1> SUFFICES ASSUME IInv PROVE StepsLeft \in Nat /\ StepsLeft <= AreaLength + 6
    OBVIOUS
  <1>1. /\ pc \in {"idle", "process", "parse", "replay", "report", "compare"}
        /\ index \in 0..AreaLength /\ AreaLength \in Nat
    BY Bounds DEF IInv, TypeOK
  <1>2. CASE pc = "process"
    BY <1>1, <1>2 DEF StepsLeft
  <1>3. CASE pc = "parse"
    BY <1>1, <1>3 DEF StepsLeft
  <1>4. CASE pc \in {"idle", "replay", "report", "compare"}
    BY <1>1, <1>4 DEF StepsLeft
  <1> QED BY <1>1, <1>2, <1>3, <1>4

\* Every step of a command brings its end nearer, whatever the log holds.
LEMMA ActorNearer == ASSUME IInv, Actor PROVE StepsLeft' < StepsLeft
  <1>1. /\ pc \in {"idle", "process", "parse", "replay", "report", "compare"}
        /\ index \in 0..AreaLength /\ AreaLength \in Nat
    BY Bounds DEF IInv, TypeOK
  <1>2. CASE pc # "idle" /\ pc' = "idle"
    <2>1. CASE pc = "parse"
      BY <1>1, <1>2, <2>1 DEF StepsLeft
    <2>2. CASE pc = "process"
      BY <1>1, <1>2, <2>2 DEF StepsLeft
    <2> QED BY <1>1, <1>2, <2>1, <2>2 DEF StepsLeft
  <1>3. CASE Process
    <2>1. pc = "process" /\ specid = {} /\ pc' = "parse" /\ index' = 0
      BY <1>3 DEF Process, Goto
    <2> QED BY <1>1, <2>1 DEF StepsLeft
  <1>4. CASE SpecIdHeader \/ EventLogEntry
    <2>1. pc = "parse" /\ pc' = "parse" /\ index' = index + 1
      BY <1>4 DEF SpecIdHeader, EventLogEntry, Goto
    <2> QED BY <1>1, <2>1 DEF StepsLeft
  <1>5. CASE Processed
    <2>1. pc = "process" /\ pc' \in {"replay", "idle"}
      BY <1>5 DEF Processed, Goto, End
    <2> QED BY <1>1, <1>2, <2>1 DEF StepsLeft
  <1>6. CASE ParseEnds
    <2>1. /\ pc = "parse"
          /\ pc' \in {"replay", "idle"} \/ (pc' = "process" /\ specid' = specid /\ specid # {})
      BY <1>6 DEF ParseEnds, Dump, Goto, End, logVars
    <2>2. CASE pc' = "replay"
      BY <1>1, <2>1, <2>2 DEF StepsLeft
    <2>3. CASE pc' = "process" /\ specid' # {}
      BY <1>1, <2>1, <2>3 DEF StepsLeft
    <2> QED BY <1>2, <2>1, <2>2, <2>3
  <1>7. CASE ParseRaises \/ ReplayRaises \/ ReportFails \/ Compare
    <2>1. pc # "idle" /\ pc' = "idle"
      BY <1>7 DEF ParseRaises, ReplayRaises, ReportFails, Compare, End
    <2> QED BY <1>2, <2>1
  <1>8. CASE Replay
    <2>1. pc = "replay" /\ pc' \in {"report", "idle"}
      BY <1>8 DEF Replay
    <2> QED BY <1>2, <2>1 DEF StepsLeft
  <1>9. CASE GetTdReport
    BY <1>9 DEF GetTdReport, StepsLeft
  <1> QED BY <1>3, <1>4, <1>5, <1>6, <1>7, <1>8, <1>9 DEF Actor

\* Whoever extends a register leaves a command alone, and one begins only
\* after the last has ended.
LEMMA NextNearer == ASSUME IInv, Next PROVE Nearer
  <1>1. CASE \E r \in Requests : extend_rtmr(r)
    BY <1>1 DEF extend_rtmr, Nearer
  <1>2. CASE extend_measurement \/ \E i \in Registers : fetch_ima_measurements(i)
    BY <1>2 DEF extend_measurement, fetch_ima_measurements, Nearer
  <1>3. CASE \E c \in {"eventlogs", "verify"} : run(c)
    BY <1>3 DEF run, Nearer
  <1>4. CASE Actor
    BY <1>4, ActorNearer DEF Nearer
  <1> QED BY <1>1, <1>2, <1>3, <1>4 DEF Next

\* Every step of get_quote comes later in it than the one before, whatever the
\* service answers.
LEMMA QuoteStepNearer == ASSUME QuoteTypeOK, QuoteStep PROVE QuoteLeft' < QuoteLeft
  <1>1. call.pc \in {"unused", "report", "send", "wait", "unpack", "open", "write", "done"}
    BY DEF QuoteTypeOK
  <1>2. ASSUME NEW to, call' = [call EXCEPT !.pc = to] PROVE call'.pc = to
    BY <1>2 DEF QuoteTypeOK
  <1>3. ASSUME NEW how, EndQuote(how) PROVE call'.pc = "done"
    BY <1>3 DEF EndQuote, QuoteTypeOK
  <1>4. CASE QuoteReport \/ QuoteReportFails
    <2>1. call.pc = "report" /\ call'.pc \in {"send", "done"}
      BY <1>3, <1>4 DEF QuoteReport, QuoteReportFails, QuoteTypeOK
    <2> QED BY <2>1 DEF QuoteLeft
  <1>5. CASE QuoteSend
    <2>1. call.pc = "send" /\ call'.pc \in {"wait", "done"}
      BY <1>2, <1>3, <1>5 DEF QuoteSend
    <2> QED BY <2>1 DEF QuoteLeft
  <1>6. CASE QuoteAnswered
    <2>1. call.pc = "wait" /\ call'.pc \in {"unpack", "done"}
      BY <1>2, <1>3, <1>6 DEF QuoteAnswered
    <2> QED BY <2>1 DEF QuoteLeft
  <1>7. CASE QuoteUnpack
    <2>1. call.pc = "unpack" /\ call'.pc \in {"open", "done"}
      BY <1>2, <1>3, <1>7 DEF QuoteUnpack
    <2> QED BY <2>1 DEF QuoteLeft
  <1>8. CASE QuoteOpen
    <2>1. call.pc = "open" /\ call'.pc \in {"write", "done"}
      BY <1>2, <1>3, <1>8 DEF QuoteOpen
    <2> QED BY <2>1 DEF QuoteLeft
  <1>9. CASE QuoteWrite
    <2>1. call.pc = "write" /\ call'.pc = "done"
      BY <1>3, <1>9 DEF QuoteWrite
    <2> QED BY <2>1 DEF QuoteLeft
  <1> QED BY <1>4, <1>5, <1>6, <1>7, <1>8, <1>9 DEF QuoteStep

\* A command ends after at most AreaLength + 6 steps of its own, whatever log the
\* firmware has left and whoever extends registers meanwhile, although
\* tdx_eventlogs has the log processed twice; get_quote and tdx_quote end after
\* at most six, whatever the quote service does.
THEOREM ReadersAreBounded ==
  TdSpec => /\ [][Nearer /\ QuoteNearer]_TdVars
            /\ [](StepsLeft \in 0..(AreaLength + 6) /\ QuoteLeft \in 0..6)
  <1>1. TdInv /\ [TdNext]_TdVars => [Nearer /\ QuoteNearer]_TdVars
    <2> SUFFICES ASSUME TdInv, TdNext
                 PROVE  Nearer /\ QuoteNearer
      BY DEF TdVars
    <2>1. CASE Next /\ UNCHANGED quoteVars
      BY <2>1, NextNearer DEF TdInv, QuoteNearer
    <2>2. UNCHANGED vars => Nearer
      BY DEF vars, Nearer
    <2>3. (\E r \in ReportDatas, d \in Devices, f \in BOOLEAN : get_quote(r, d, f)) => QuoteNearer
      BY DEF get_quote, QuoteNearer
    <2>4. QuoteStep => QuoteNearer
      BY QuoteStepNearer DEF TdInv, QuoteNearer
    <2> QED BY <2>4, <2>3, <2>2, <2>1 DEF TdNext
  <1>2. TdInv => StepsLeft \in 0..(AreaLength + 6)
    BY StepsLeftType, Bounds DEF TdInv
  <1>3. TdInv => QuoteLeft \in 0..6
    BY DEF TdInv, QuoteTypeOK, QuoteLeft
  <1> QED BY <1>1, <1>2, <1>3, TdInvariance, PTL DEF TdSpec

=============================================================================
