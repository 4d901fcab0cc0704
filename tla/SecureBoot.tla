----------------------------- MODULE SecureBoot -----------------------------
(***************************************************************************)
(* ovmfkeyenroll's secure_boot.py: main() and do_var_enroll().  A run      *)
(* copies the input FD to a temporary file, calls var_enroll() on it for   *)
(* every key that was given and for SecureBootEnable, and copies it to the *)
(* output.  Runs follow one another on the same files, and a run may be    *)
(* killed.                                                                 *)
(***************************************************************************)
EXTENDS VarStore

CONSTANTS
  Configs,   \* command lines: functions from variable names to GUID and file
  MaxFaults  \* bound: runs killed and opens, writes and copies that fail

VARIABLES
  phase,     \* where the run is
  sbconfig,  \* its sbconfig
  step,      \* the enrolment it is at
  outcome,   \* how the last run ended
  faults,    \* failures so far
  clean,     \* history: no open, write or copy of this run has failed
  outPath    \* output_fd: input_fd + ".sb" is the output for a name without extension

runVars == <<phase, sbconfig, step, outcome, faults, clean, outPath>>
sbVars  == <<vars, runVars>>

Order == <<"PK", "KEK", "db", "dbx", "SecureBootEnable">>
SbNames == {Order[i] : i \in 1..5}

ASSUME SbAssumption ==
  /\ Paths = {"input", "tmp", "output"}
  /\ SbNames \subseteq Names
  /\ \A c \in Configs : DOMAIN c \subseteq SbNames /\ "SecureBootEnable" \in DOMAIN c
  /\ MaxFaults \in Nat

\* Offsets within n units at which the variables of vs stand one behind the other.
Layouts(vs, n) ==
  {s \in [0..Len(vs) -> 0..n] : \A i \in 1..Len(vs) : s[i - 1] + Size(vs[i]) <= s[i]}

Fits(vs, n) == Layouts(vs, n) # {}

\* The tool checks no size: an image leaves room in its region for the five
\* variables of a run, which take two units each.
ASSUME RoomAssumption == \A fd \in Disk : Fits(fd.vars, Capacity - 10)

SbTypeOK ==
  /\ TypeOK
  /\ phase \in {"idle", "copyIn", "enroll", "calling", "copyOut", "remove"}
  /\ phase # "idle" => sbconfig \in Configs
  /\ step \in 1..5
  /\ outcome \in {"none", "true", "false", "raised", "killed"}
  /\ faults \in 0..MaxFaults /\ clean \in BOOLEAN /\ outPath \in {"tmp", "output"}

SbInit ==
  /\ Init /\ file["tmp"] = NoFile /\ file["output"] = NoFile
  /\ phase = "idle" /\ sbconfig = <<>> /\ step = 1 /\ outcome = "none"
  /\ faults = 0 /\ clean = TRUE /\ outPath \in {"tmp", "output"}

-----------------------------------------------------------------------------
End(o) == phase' = "idle" /\ outcome' = o

\* set_sbconfig refuses a GUID that is none and a file that is not there; then
\* main() wants the input, and the output directory to be writable.
Valid(c) ==
  \A n \in DOMAIN c : c[n].guid \in Guids /\ c[n].file \in Present

main(c) ==
  /\ phase = "idle"
  /\ sbconfig' = c /\ step' = 1 /\ clean' = TRUE
  /\ \/ Valid(c) /\ file["input"].form # "none" /\ phase' = "copyIn" /\ outcome' = "none"
     \/ ~Valid(c) /\ End("false")
     \/ (file["input"].form = "none" \/ IoFails) /\ End("false")
  /\ UNCHANGED <<vars, faults, outPath>>

\* Mutant: a temporary file that is there already is used as it is.
CopyInOnce ==
  /\ phase = "copyIn"
  /\ file' = IF file["tmp"].form = "none" THEN [file EXCEPT !["tmp"] = file["input"]] ELSE file
  /\ phase' = "enroll"
  /\ UNCHANGED <<toolVars, sbconfig, step, outcome, faults, clean, outPath>>

\* shutil.copyfile(input_fd, tmp_file)
CopyIn ==
  /\ phase = "copyIn"
  /\ file' = [file EXCEPT !["tmp"] = file["input"]]
  /\ phase' = "enroll"
  /\ UNCHANGED <<toolVars, sbconfig, step, outcome, faults, clean, outPath>>

\* The next key was not given.
Skip ==
  /\ phase = "enroll" /\ Order[step] \notin DOMAIN sbconfig
  /\ step' = step + 1
  /\ UNCHANGED <<vars, phase, sbconfig, outcome, faults, clean, outPath>>

\* Mutant: every key starts from the input again.
ArgsForAfresh(n) ==
  [operation |-> "add", name |-> n, guid |-> sbconfig[n].guid,
   data_file |-> sbconfig[n].file, attributes |-> n = "SecureBootEnable",
   input |-> "input", output |-> "tmp"]

ArgsFor(n) ==
  [operation |-> "add", name |-> n, guid |-> sbconfig[n].guid,
   data_file |-> sbconfig[n].file, attributes |-> n = "SecureBootEnable",
   input |-> "tmp", output |-> "tmp"]

Call ==
  /\ phase = "enroll" /\ Order[step] \in DOMAIN sbconfig
  /\ Start(ArgsFor(Order[step]))
  /\ phase' = "calling"
  /\ UNCHANGED <<sbconfig, step, outcome, faults, clean, outPath>>

\* The steps of the call.
Tool ==
  /\ phase = "calling" /\ Work
  /\ UNCHANGED runVars

ToolIoError ==
  /\ phase = "calling" /\ IoError
  /\ faults < MaxFaults /\ faults' = faults + 1 /\ clean' = FALSE
  /\ UNCHANGED <<phase, sbconfig, step, outcome, outPath>>

\* Mutant: a refused key is passed over.
ReturnedLenient ==
  /\ phase = "calling" /\ pc = "idle"
  /\ phase' = IF step = 5 THEN "copyOut" ELSE "enroll"
  /\ step' = IF step = 5 THEN 5 ELSE step + 1
  /\ UNCHANGED <<vars, sbconfig, faults, clean, outPath, outcome>>

\* Mutant: a refused key is tried again.
ReturnedRetries ==
  /\ phase = "calling" /\ pc = "idle"
  /\ phase' = IF result = "true" /\ step = 5 THEN "copyOut" ELSE "enroll"
  /\ step' = IF result = "true" /\ step < 5 THEN step + 1 ELSE step
  /\ UNCHANGED <<vars, sbconfig, faults, clean, outPath, outcome>>

\* A False is returned as it is and an exception passes through: the temporary
\* file stays.
Returned ==
  /\ phase = "calling" /\ pc = "idle"
  /\ IF result = "true"
     THEN /\ phase' = IF step = 5 THEN "copyOut" ELSE "enroll"
          /\ step' = IF step = 5 THEN 5 ELSE step + 1
          /\ UNCHANGED outcome
     ELSE End(result) /\ UNCHANGED step
  /\ UNCHANGED <<vars, sbconfig, faults, clean, outPath>>

\* shutil.copyfile(tmp_file, output_fd) raises when both are one file.
CopyOut ==
  /\ phase = "copyOut"
  /\ IF outPath = "tmp"
     THEN End("raised") /\ UNCHANGED file
     ELSE /\ file' = [file EXCEPT !["output"] = file["tmp"]]
          /\ phase' = "remove" /\ UNCHANGED outcome
  /\ UNCHANGED <<toolVars, sbconfig, step, faults, clean, outPath>>

Remove ==
  /\ phase = "remove"
  /\ file' = [file EXCEPT !["tmp"] = NoFile]
  /\ End("true")
  /\ UNCHANGED <<toolVars, sbconfig, step, faults, clean, outPath>>

\* os.remove() raises: the output is there, and the temporary file stays.
RemoveFails ==
  /\ IoFails /\ faults < MaxFaults /\ faults' = faults + 1
  /\ phase = "remove" /\ End("raised")
  /\ UNCHANGED <<vars, sbconfig, step, clean, outPath>>

\* Writing fd to p is cut off before p was opened or half way.
CutOff(p, fd) ==
  \/ UNCHANGED file
  \/ \E t \in Torn(fd) : file' = [file EXCEPT ![p] = t]

CopyFails ==
  /\ IoFails /\ faults < MaxFaults
  /\ \/ phase = "copyIn" /\ CutOff("tmp", file["input"])
     \/ phase = "copyOut" /\ outPath = "output" /\ CutOff("output", file["tmp"])
  /\ End("raised") /\ clean' = FALSE /\ faults' = faults + 1
  /\ UNCHANGED <<toolVars, sbconfig, step, outPath>>

\* The process dies; what it was writing is torn.
Kill ==
  /\ phase # "idle" /\ faults < MaxFaults /\ faults' = faults + 1
  /\ \/ UNCHANGED file
     \/ pc = "write" /\ CutOff("tmp", Buffer)
     \/ phase = "copyIn" /\ CutOff("tmp", file["input"])
     \/ phase = "copyOut" /\ outPath = "output" /\ CutOff("output", file["tmp"])
  /\ End("killed") /\ pc' = "idle" /\ result' = "none"
  /\ UNCHANGED <<args, fdData, cursor, begin, vars_list, sbconfig, step, clean, outPath>>

Run == CopyIn \/ Skip \/ Call \/ Tool \/ ToolIoError \/ Returned \/ CopyOut \/ Remove
  \/ RemoveFails \/ CopyFails

SbNext == (\E c \in Configs : main(c)) \/ Run \/ Kill

SbSpec == SbInit /\ [][SbNext]_sbVars /\ WF_sbVars(Run)

-----------------------------------------------------------------------------
(* Properties                                                              *)

\* The variables of m once those of names hold just what was given.
EnrolledOf(m, c, names) ==
  [k \in DOMAIN m |->
     IF \E n \in names : k = <<n, VendorGuid(n, c[n].guid)>>
     THEN <<[owner |-> IF k[1] \in {"PK", "KEK", "db"} THEN c[k[1]].guid ELSE "none",
             file  |-> c[k[1]].file]>>
     ELSE m[k]]

Enrolled(m, c) == EnrolledOf(m, c, DOMAIN c)

\* What lies behind the variable region is as in the input, too.
AllEnrolled(p) ==
  /\ Content(file[p]) = Enrolled(Content(file["input"]), sbconfig)
  /\ file[p].tail = file["input"].tail

\* When a run in which no write failed returns True, its output has every key
\* that was given, and every other variable and the code behind the region as
\* the input had them, whatever an earlier run, failed or killed, left in the
\* temporary file.
SuccessMeansEnrolled ==
  phase = "idle" /\ outcome = "true" /\ clean => AllEnrolled("output")

\* In a run whose opens and writes have all succeeded so far, killed or not, the
\* output is touched only when the temporary file is complete: secure boot is not
\* switched on in an output that lacks a key.  The exception is a run in which an
\* open or a write failed: var_enroll() drops the False of sync_to_file, the run
\* goes on without that key, and the output may lack it.  The input is never
\* touched, so the output can be made again.
OutputOnlyComplete ==
  [][/\ file'["output"] # file["output"] /\ clean => AllEnrolled("tmp")
     /\ file'["input"] = file["input"]]_sbVars

\* Each variable is missing, or as the input has it, or as it is to be enrolled.
OnlyGiven(m) ==
  \A k \in AllNames \X AllGuids :
    m[k] \in {<<>>, Content(file["input"])[k], Enrolled(Content(file["input"]), sbconfig)[k]}

\* Whatever has failed, in this run or in one before, a write half way included:
\* a variable that the output gets is as the input has it or as this run was told
\* to store it.  No key of a run that was killed or went wrong comes back.
OutputOnlyGiven ==
  [][file'["output"] # file["output"] => OnlyGiven(Content(file'["output"]))]_sbVars

\* A run ends unless a write has failed: then the next call may read a file
\* that find_var_info looks through for ever.
RunEnds == (phase # "idle") ~> (phase = "idle" \/ ~clean)

-----------------------------------------------------------------------------
(* The inductive invariant                                                 *)

\* Whatever fails: the files and the tool are sound, a call is made with the
\* arguments of the current key, and only while the run waits for it.
RunInv ==
  /\ SbTypeOK /\ IInv
  /\ phase # "idle" => Valid(sbconfig)
  /\ phase = "copyIn" => step = 1
  /\ phase # "calling" => pc = "idle"
  /\ phase = "calling" => Order[step] \in DOMAIN sbconfig /\ args = ArgsFor(Order[step])

\* The input with the keys before s enrolled.
UpTo(s) ==
  EnrolledOf(Content(file["input"]), sbconfig, {Order[i] : i \in 1..(s - 1)} \cap DOMAIN sbconfig)

\* The image has these variables and, behind the region, what the input has.
Progress(fd, s) == Content(fd) = UpTo(s) /\ fd.tail = file["input"].tail

\* As long as no write has failed, the temporary file has the keys it should
\* have at each step.
EnrolInv ==
  clean =>
    /\ phase = "enroll" => Progress(file["tmp"], step)
    /\ phase = "calling" /\ pc # "idle" => Progress(fdData, step)
    /\ phase = "calling" /\ pc = "idle" /\ result = "true" =>
         Progress(file["tmp"], step + 1)
    /\ phase = "copyOut" => AllEnrolled("tmp")
    /\ phase = "remove" => AllEnrolled("output")
    /\ phase = "idle" /\ outcome = "true" => AllEnrolled("output")

\* The same of the temporary file and of what a call has read of it, whatever
\* has failed.
GivenInv ==
  /\ phase \in {"enroll", "calling", "copyOut"} => OnlyGiven(Content(file["tmp"]))
  /\ phase = "calling" /\ pc # "idle" => OnlyGiven(Content(fdData))

\* The units that the input and the keys before s may take.
Room(s) == Capacity - 10 + 2 * (s - 1)

\* The tool has come to the entry at cursor of vs, at an offset within n units.
AtOffset(vs, n) ==
  cursor <= Len(vs) + 1 /\ \E s \in Layouts(vs, n) : begin <= s[cursor - 1]

\* The input leaves room for the keys, the temporary file for those that are
\* still to come, and the walk and the layout stay within it, failures or not.
RoomInv ==
  /\ Fits(file["input"].vars, Room(1))
  /\ phase = "enroll" => Fits(file["tmp"].vars, Room(step))
  /\ phase = "calling" => Fits(file["tmp"].vars, Room(step + 1))
  /\ pc = "walk" => AtOffset(fdData.vars, Room(step)) /\ Fits(vars_list, begin)
  /\ pc \in {"check", "process"} => Fits(vars_list, Room(step))
  /\ pc = "blob" => AtOffset(vars_list, Room(step + 1))
  /\ pc \in {"open", "write"} => Fits(vars_list, Room(step + 1)) /\ begin <= Room(step + 1)

=============================================================================
