------------------------------ MODULE Measure ------------------------------
(***************************************************************************)
(* pytdxattest in a TD: the four measurement registers, the event log that *)
(* the firmware left in the CCEL area, and three programs that run side by *)
(* side.  tdx_extend_rtmr and extend_ima.py extend registers, which leaves *)
(* no trace in the log; tdx_eventlogs and tdx_verify_rtmr read the log,    *)
(* replay it and, to verify, compare the result with a TD report.  SHA-384 *)
(* has no collisions here: a register is the sequence of the digests it    *)
(* was extended with.                                                      *)
(***************************************************************************)
EXTENDS Naturals, SequencesExt

CONSTANTS
  Algorithms,   \* hash algorithms
  Data,         \* raw data, and digests that are hexadecimal
  Fits,         \* those of 48 bytes
  Sha,          \* Sha[s]: the SHA-384 digest of string s
  Logs,         \* contents of the CCEL area
  Boot,         \* Boot[l][n]: the registers when the firmware has logged n entries of l
  AreaLength,   \* log_area_minimum_length, in entries
  Requests,     \* arguments of tdx_extend_rtmr
  Measured,     \* lines of ascii_runtime_measurements
  MaxExtends    \* bound: extensions while the model runs

VARIABLES
  log,        \* the data of the CCEL area
  rtmr,       \* the registers
  unlogged,   \* history: extensions of each register since the TD has booted
  extended,   \* what extend_rtmr returned to tdx_extend_rtmr
  ima,        \* extend_ima.py: where it is, its lines and register, and a failure
  pc,         \* where tdx_eventlogs or tdx_verify_rtmr is
  cmd,        \* which of the two
  dumping,    \* process() was called by dump_td_event_logs
  index,      \* entries that process() has passed
  specid,     \* the algorithms of _specid_header, {} for None
  events,     \* _event_logs
  read,       \* history: _read() has returned the data
  rtmrs,      \* _rtmrs
  report,     \* the registers in the TD report
  touched,    \* history: unlogged when the report was made
  verdict,    \* what was logged of each register
  outcome     \* how the command ended

logVars   == <<index, specid, events, read>>
actorVars == <<pc, cmd, dumping, logVars, rtmrs, report, touched, verdict, outcome>>
regVars   == <<rtmr, unlogged>>
vars      == <<log, regVars, extended, ima, actorVars>>

Registers == 0..3      \* RTMR_COUNT
Zero      == <<>>      \* bytearray(RTMR_LENGTH_BY_BYTES)
None      == "None"

\* The contents of an entry.  "spec" is an event of type EV_NO_ACTION, "end" the
\* register index 0xFFFFFFFF.  size 0 is an event without data.
Entry ==
  [kind : {"spec", "event", "end"}, reg : 0..5, algs : SUBSET Algorithms,
   digests : Seq([alg : Algorithms, digest : Data]), size : 0..1]

\* An event that process() has kept.
Event == [rtmr : 0..5, digests : Seq([alg : Algorithms, digest : Data])]

ASSUME MeasureAssumption ==
  /\ AreaLength \in Nat /\ MaxExtends \in Nat /\ Fits \subseteq Data
  /\ "" \in DOMAIN Sha /\ \A s \in DOMAIN Sha : Sha[s] \in Fits
  /\ \A l \in Logs : l \in Seq(Entry)
  /\ \A r \in Requests : r.index \in Registers

-----------------------------------------------------------------------------
(* What the firmware does: it extends a register with the digest of each   *)
(* event that it logs for it, up to the end mark.                          *)

Extended(r, e) ==
  [i \in Registers |-> IF e.kind = "event" /\ e.reg = i + 1
                       THEN Append(r[i], e.digests[1].digest) ELSE r[i]]

Zeros == [i \in Registers |-> Zero]

\* The data is that of the area, or what there is of it.
ASSUME FirmwareAssumption ==
  \A l \in Logs :
    /\ Len(l) <= AreaLength
    /\ Boot[l] \in [0..Len(l) -> [Registers -> Seq(Fits)]]
    /\ Boot[l][0] = Zeros
    /\ \A n \in 1..Len(l) : Boot[l][n] = Extended(Boot[l][n - 1], l[n])

\* The entries in front of the end mark.
Used(l) ==
  LET end == SelectInSeq(l, LAMBDA e : e.kind = "end")
  IN  IF end = 0 THEN Len(l) ELSE end - 1

Booted(i) == Boot[log][Used(log)][i]

TypeOK ==
  /\ log \in Logs
  /\ rtmr \in [Registers -> Seq(Fits)]
  /\ unlogged \in [Registers -> 0..MaxExtends] /\ touched \in [Registers -> 0..MaxExtends]
  /\ extended \in {"none", "success", "failure", "wrong", "raised"}
  /\ DOMAIN ima = {"pc", "todo", "index", "failed"}
  /\ ima.pc \in {"idle", "extend", "done"} /\ ima.index \in Registers /\ ima.failed \in BOOLEAN
  /\ pc \in {"idle", "process", "parse", "replay", "report", "compare"}
  /\ cmd \in {"none", "eventlogs", "verify"} /\ dumping \in BOOLEAN
  /\ index \in 0..AreaLength /\ specid \subseteq Algorithms
  /\ events \in Seq(Event) /\ Len(events) <= index
  /\ read \in BOOLEAN
  /\ verdict \in [Registers -> {"none", "passed", "failed"}]
  /\ outcome \in {"none", "done", "raised"}

NoVerdict == [i \in Registers |-> "none"]

Init ==
  /\ log \in Logs
  /\ rtmr = [i \in Registers |-> Booted(i)]
  /\ unlogged = [i \in Registers |-> 0] /\ touched = unlogged
  /\ extended = "none"
  /\ ima = [pc |-> "idle", todo |-> <<>>, index |-> 3, failed |-> FALSE]
  /\ pc = "idle" /\ cmd = "none" /\ dumping = FALSE
  /\ index = 0 /\ specid = {} /\ events = <<>> /\ read = FALSE
  /\ rtmrs = Zeros /\ report = Zeros /\ verdict = NoVerdict /\ outcome = "none"

-----------------------------------------------------------------------------
(* RTMR.extend_rtmr and its two callers                                    *)

\* A string goes before a digest, and a digest before raw data.
extend_data(raw, str, digest) ==
  CASE str # None -> Sha[str]
    [] str = None /\ digest # None -> digest
    [] OTHER -> raw

\* The ioctl: the TDX module extends the register.
ioctl(i, data) ==
  /\ unlogged[0] + unlogged[1] + unlogged[2] + unlogged[3] < MaxExtends
  /\ rtmr' = [rtmr EXCEPT ![i] = Append(@, data)]
  /\ unlogged' = [unlogged EXCEPT ![i] = @ + 1]

\* A digest that is not hexadecimal raises, and so do three arguments of None.
extend_rtmr(r) ==
  LET data == extend_data(r.raw, r.str, r.digest) IN
  /\ \/ data \in Fits /\ ioctl(r.index, data) /\ extended' = "success"
     \/ data \in Data \ Fits /\ extended' = "wrong" /\ UNCHANGED regVars
     \/ data \notin Data /\ extended' = "raised" /\ UNCHANGED regVars
     \/ extended' = "failure" /\ UNCHANGED regVars
  /\ UNCHANGED <<log, ima, actorVars>>

\* fetch_ima_measurements leaves boot_aggregate out.
fetch_ima_measurements(i) ==
  LET lines == SelectSeq(Measured, LAMBDA m : ~m.boot_aggregate) IN
  /\ ima.pc = "idle"
  /\ ima' = [pc |-> IF lines = <<>> \/ i < 2 THEN "done" ELSE "extend",
             todo |-> lines, index |-> i, failed |-> FALSE]
  /\ UNCHANGED <<log, regVars, extended, actorVars>>

\* The next line of the loop; failed once a line was not extended.
ImaDone(ok) ==
  ima' = [ima EXCEPT !.todo = Tail(@), !.failed = @ \/ ~ok,
                     !.pc = IF Len(ima.todo) = 1 THEN "done" ELSE "extend"]

extend_measurement ==
  LET m    == Head(ima.todo)
      data == extend_data("", "", m.digest)
  IN
  /\ ima.pc = "extend"
  /\ \/ m.alg # "sha384" /\ ImaDone(TRUE) /\ UNCHANGED regVars
     \/ m.alg = "sha384" /\ ioctl(ima.index, data) /\ ImaDone(TRUE)
     \/ m.alg = "sha384" /\ ImaDone(FALSE) /\ UNCHANGED regVars
  /\ UNCHANGED <<log, extended, actorVars>>

-----------------------------------------------------------------------------
(* TDEventLogActor, VerifyActor and their commands                         *)

others == <<log, regVars, extended, ima>>

End(how) ==
  /\ pc' = "idle" /\ outcome' = how
  /\ UNCHANGED <<others, cmd, dumping, logVars, rtmrs, report, touched, verdict>>

Goto(where) ==
  /\ pc' = where
  /\ UNCHANGED <<others, cmd, dumping, rtmrs, report, touched, verdict, outcome>>

\* A command makes a new actor, unless there is no CCEL table.
run(c) ==
  /\ pc = "idle"
  /\ pc' \in {"process", "idle"} /\ cmd' = c /\ dumping' = (c = "eventlogs")
  /\ index' = 0 /\ specid' = {} /\ events' = <<>> /\ read' = FALSE
  /\ rtmrs' = Zeros /\ report' = Zeros /\ verdict' = NoVerdict /\ outcome' = "none"
  /\ touched' = [i \in Registers |-> 0]
  /\ UNCHANGED others

\* Mutant: process() reads the log again whenever it is called.
ProcessAgain ==
  /\ pc = "process"
  /\ index' = 0 /\ read' = TRUE /\ UNCHANGED <<specid, events>>
  /\ Goto("parse")

\* process() on an actor that has no header yet reads the area.
Process ==
  /\ pc = "process" /\ specid = {}
  /\ index' = 0 /\ read' = TRUE /\ UNCHANGED <<specid, events>>
  /\ Goto("parse")

\* dump_td_event_logs logs what there is; then dump_rtmrs calls replay().
Dump ==
  /\ pc' = "process" /\ dumping' = FALSE
  /\ UNCHANGED <<others, cmd, logVars, rtmrs, report, touched, verdict, outcome>>

\* process() has nothing to do, or _read() had no permission: then replay() goes
\* on without events.  It raises when there is no file, and so does
\* dump_td_event_logs when there is no header.
Processed ==
  /\ pc = "process"
  /\ \/ specid # {} /\ ~dumping /\ UNCHANGED logVars /\ Goto("replay")
     \/ specid = {} /\ End("raised")
     \/ specid = {} /\ ~dumping /\ UNCHANGED logVars /\ Goto("replay")

\* The area ends, by its length or by the end mark.
ParseEnds ==
  /\ pc = "parse"
  /\ \/ index >= AreaLength
     \/ index < Len(log) /\ log[index + 1].kind = "end"
  /\ \/ dumping /\ specid # {} /\ Dump
     \/ dumping /\ specid = {} /\ End("raised")
     \/ ~dumping /\ UNCHANGED logVars /\ Goto("replay")

SpecIdHeader ==
  /\ pc = "parse" /\ index < AreaLength /\ index < Len(log) /\ log[index + 1].kind = "spec"
  /\ specid' = log[index + 1].algs /\ index' = index + 1 /\ UNCHANGED <<events, read>>
  /\ Goto("parse")

\* TDEventLogEntry.parse fails on an algorithm that the header does not have
\* and on an event without data.
Parses(e) ==
  /\ \A d \in Range(e.digests) : d.alg \in specid
  /\ e.size > 0

EventLogEntry ==
  LET e == log[index + 1] IN
  /\ pc = "parse" /\ index < AreaLength /\ index < Len(log) /\ e.kind = "event"
  /\ Parses(e)
  /\ events' = Append(events, [rtmr |-> e.reg, digests |-> e.digests])
  /\ index' = index + 1 /\ UNCHANGED <<specid, read>>
  /\ Goto("parse")

\* The entry does not parse, or the data is shorter than the area.
ParseRaises ==
  /\ pc = "parse" /\ index < AreaLength
  /\ \/ index >= Len(log)
     \/ index < Len(log) /\ log[index + 1].kind = "event" /\ ~Parses(log[index + 1])
  /\ End("raised")

\* Mutant: the index in the log is taken for the index of the register.
ReplaySingleOff(i) ==
  LET value[n \in 0..Len(events)] ==
        IF n = 0 THEN Zero
        ELSE IF events[n].rtmr = i THEN Append(value[n - 1], events[n].digests[1].digest)
        ELSE value[n - 1]
  IN  value[Len(events)]

\* _replay_single_rtmr: the first digest of each event of the register.  An
\* event's rtmr is the index in the log less one.
ReplaySingle(i) ==
  LET value[n \in 0..Len(events)] ==
        IF n = 0 THEN Zero
        ELSE IF events[n].rtmr - 1 = i THEN Append(value[n - 1], events[n].digests[1].digest)
        ELSE value[n - 1]
  IN  value[Len(events)]

\* The dictionary of replay() has just the four registers.
Replayable == \A e \in Range(events) : e.rtmr - 1 \in Registers /\ e.digests # <<>>

Replay ==
  /\ pc = "replay" /\ Replayable
  /\ rtmrs' = [i \in Registers |-> ReplaySingle(i)]
  /\ IF cmd = "verify" THEN pc' = "report" /\ UNCHANGED outcome
     ELSE pc' = "idle" /\ outcome' = "done"
  /\ UNCHANGED <<others, cmd, dumping, logVars, report, touched, verdict>>

ReplayRaises == pc = "replay" /\ ~Replayable /\ End("raised")

\* One TD report has all four registers.
GetTdReport ==
  /\ pc = "report"
  /\ report' = rtmr /\ touched' = unlogged /\ pc' = "compare"
  /\ UNCHANGED <<others, cmd, dumping, logVars, rtmrs, verdict, outcome>>

ReportFails == pc = "report" /\ End("raised")

Compare ==
  /\ pc = "compare"
  /\ verdict' = [i \in Registers |-> IF rtmrs[i] = report[i] THEN "passed" ELSE "failed"]
  /\ pc' = "idle" /\ outcome' = "done"
  /\ UNCHANGED <<others, cmd, dumping, logVars, rtmrs, report, touched>>

Actor ==
  \/ Process \/ Processed \/ SpecIdHeader \/ EventLogEntry \/ ParseEnds \/ ParseRaises
  \/ Replay \/ ReplayRaises \/ GetTdReport \/ ReportFails \/ Compare

Next ==
  \/ \E r \in Requests : extend_rtmr(r)
  \/ \E i \in Registers : fetch_ima_measurements(i)
  \/ extend_measurement
  \/ \E c \in {"eventlogs", "verify"} : run(c)
  \/ Actor

\* A command that has begun goes on.
Spec == Init /\ [][Next]_vars /\ WF_vars(Actor)

-----------------------------------------------------------------------------
(* Properties                                                              *)

\* verify_rtmr, run while others extend: a register passes only if nobody had
\* extended it when the report was made, and if the log could be read it fails
\* only if somebody had.  All four verdicts are of the same moment.
VerdictExact ==
  \A i \in Registers :
    /\ verdict[i] = "passed" => touched[i] = 0
    /\ verdict[i] = "failed" /\ read => touched[i] > 0

\* What a command replays is what the firmware has measured, also when
\* tdx_eventlogs has had the log processed twice.
ReplayIsBoot ==
  outcome = "done" /\ read => \A i \in Registers : rtmrs[i] = Booted(i)

\* The registers are what the firmware measured, and more only where extended.
Beyond(r, n) ==
  \A i \in Registers :
    /\ Len(r[i]) = Len(Booted(i)) + n[i]
    /\ n[i] = 0 => r[i] = Booted(i)

\* f[n]: register i after the first n events of ev, as ReplaySingle has it.
Replays(f, ev, i) ==
  f = [n \in 0..Len(ev) |->
         IF n = 0 THEN Zero
         ELSE IF ev[n].rtmr - 1 = i THEN Append(f[n - 1], ev[n].digests[1].digest)
         ELSE f[n - 1]]

\* The replay of register i gives v.
ReplaysTo(ev, i, v) ==
  /\ \E f : Replays(f, ev, i)
  /\ \A f : Replays(f, ev, i) => f[Len(ev)] = v

\* The events so far replay to what the firmware had measured when it logged as
\* many entries as process() has passed.  No end mark was passed.
EventsInv ==
  /\ index \in 0..Len(log) /\ \A n \in 1..index : log[n].kind # "end"
  /\ \A i \in Registers : ReplaysTo(events, i, Boot[log][index][i])

\* Where process() is: not begun, or at its end.
ProcessInv ==
  /\ ~read => index = 0
  /\ pc = "parse" => read
  /\ pc = "process" /\ specid = {} => ~read /\ events = <<>>
  /\ pc = "process" /\ specid # {} => index = Used(log)
  /\ pc = "replay" /\ read => index = Used(log)

\* What is known once the events have been replayed.
VerifyInv ==
  /\ pc # "idle" => outcome = "none" /\ verdict = NoVerdict
  /\ pc \in {"report", "compare"} \/ outcome = "done" =>
       rtmrs = Boot[log][index] /\ (read => index = Used(log))
  /\ pc = "compare" => report \in [Registers -> Seq(Fits)] /\ Beyond(report, touched)

\* The inductive invariant: what holds of the registers, of the log and of the
\* commands that read it.
IInv ==
  /\ TypeOK /\ Beyond(rtmr, unlogged)
  /\ EventsInv /\ ProcessInv /\ VerifyInv /\ VerdictExact

-----------------------------------------------------------------------------
(* What the documentation says and the code does not do                    *)

\* extend_ima.py's "anchor IMA measurements into RTMR registers": when it has
\* gone through its lines without an error, the digests are in the register.
ImaAnchored ==
  ima.pc = "done" /\ ima.index >= 2 /\ ~ima.failed =>
    \A m \in Range(Measured) :
      m.alg = "sha384" /\ ~m.boot_aggregate => m.digest \in Range(rtmr[ima.index])

=============================================================================
