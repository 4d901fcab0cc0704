------------------------------ MODULE VarStore ------------------------------
(***************************************************************************)
(* ovmfkeyenroll's var_enroll.py: one call of var_enroll() after another.  *)
(* A call reads the firmware image (FD), walks the variable region into    *)
(* vars_list, changes the list, lays it out again and writes the whole     *)
(* image.  Sizes are counted in units: a variable takes one unit for its   *)
(* header and name and one for each payload in its data.                   *)
(***************************************************************************)
EXTENDS Naturals, Sequences

CONSTANTS
  Paths,      \* files that hold an image
  Names,      \* variable names given on the command line
  Guids,      \* GUIDs given on the command line
  Files,      \* data files given on the command line
  Present,    \* those that exist
  AuthFiles,  \* those that start with a valid EFI_VARIABLE_AUTHENTICATION_2
  Requests,   \* the calls that are made
  Capacity,   \* units in the variable region: VariableStore.size less its header
  Disk,       \* the images the files may hold at first
  IoFails,    \* whether opening or writing the output may fail
  MaxData     \* bound: nothing is appended once a variable has more payloads

ASSUME VarAssumption ==
  /\ Capacity \in Nat
  /\ Present \subseteq Files /\ AuthFiles \subseteq Present
  /\ IoFails \in BOOLEAN
  /\ MaxData \in Nat

VARIABLES
  file,      \* file[p]: the image in file p
  pc,        \* where the running call is
  args,      \* its arguments
  fdData,    \* the image it has read
  cursor,    \* the entry its loop looks at
  begin,     \* offset of that entry in the region
  vars_list, \* VariableStore.vars_list
  result     \* what the last call returned: "raised" for an exception

toolVars == <<pc, args, fdData, cursor, begin, vars_list, result>>
vars     == <<file, toolVars>>

\* GUIDs of the code's own: EFI_GLOBAL_VARIABLE, EFI_IMAGE_SECURITY_DATABASE_GUID.
Global == "global"
Image  == "image"

KeyNames == {"PK", "KEK", "db", "dbx"}
AllNames == Names \cup KeyNames
AllGuids == Guids \cup {Global, Image}

\* A variable in memory.  A payload is the file it comes from with, in a
\* signature list, the GUID of its owner.
Payload == [owner : AllGuids \cup {"none"}, file : Files]
Var     == [name : AllNames, guid : AllGuids, data : Seq(Payload)]

\* A variable in the region; added tells State = VAR_ADDED from the deleted ones.
Entry == [name : AllNames, guid : AllGuids, data : Seq(Payload), added : BOOLEAN]

\* An image.  form: "none" for no file, "empty" for one without a store header,
\* "bad" when it does not begin with an NVRAM volume, "foreign" when the store in
\* that volume has a signature check_type() does not support.  stop: what follows
\* the last entry, erased flash, the first bytes of a header, or the end of the
\* file.  tail: the part of the FD behind the variable region.
FD == [form : {"none", "empty", "bad", "foreign", "fd"}, vars : Seq(Entry),
       stop : {"erased", "stub", "eof"}, tail : {"intact", "overwritten", "cut"}]

NoFile  == [form |-> "none", vars |-> <<>>, stop |-> "eof", tail |-> "cut"]
EmptyFd == [NoFile EXCEPT !.form = "empty"]

Ops  == {"add", "append", "delete", "update"}
Args == [operation : Ops, name : Names, guid : Guids, data_file : Files,
         attributes : BOOLEAN, input : Paths, output : Paths]

NoArgs == [operation |-> "none", name |-> "none", guid |-> "none", data_file |-> "none",
           attributes |-> FALSE, input |-> "none", output |-> "none"]

TypeOK ==
  /\ file \in [Paths -> FD]
  /\ pc \in {"idle", "spin", "walk", "check", "process", "blob", "open", "write"}
  /\ args \in Args \/ (args = NoArgs /\ pc = "idle")
  /\ fdData \in FD
  /\ cursor \in Nat \ {0} /\ begin \in Nat
  /\ vars_list \in Seq(Var)
  /\ result \in {"none", "true", "false", "raised"}

Key(v) == <<v.name, v.guid>>

\* No two live variables of an image have the same name and GUID.
UniqueIn(fd) ==
  \A i, j \in 1..Len(fd.vars) :
    fd.vars[i].added /\ fd.vars[j].added /\ Key(fd.vars[i]) = Key(fd.vars[j]) => i = j

\* A PK is a single signature list.
PkSingle(vs) ==
  \A i \in 1..Len(vs) : vs[i].name = "PK" /\ vs[i].guid = Global => Len(vs[i].data) = 1

\* A variable has data: storing none deletes it.
Filled(vs) == \A i \in 1..Len(vs) : vs[i].data # <<>>

\* The firmware wrote the images the tool starts from.
ASSUME InputAssumption ==
  /\ Disk \subseteq FD
  /\ \A fd \in Disk : UniqueIn(fd) /\ PkSingle(fd.vars) /\ Filled(fd.vars)
  /\ Requests \subseteq Args

Init ==
  /\ file \in [Paths -> Disk]
  /\ pc = "idle" /\ args = NoArgs /\ fdData = NoFile
  /\ cursor = 1 /\ begin = 0 /\ vars_list = <<>> /\ result = "none"

-----------------------------------------------------------------------------
(* The list of variables                                                   *)

Size(v) == 1 + Len(v.data)

Matches(vs, name, guid) ==
  {i \in 1..Len(vs) : vs[i].name = name /\ vs[i].guid = guid}

\* find_var_in_list: the first match
find_var_in_list(vs, name, guid) ==
  CHOOSE i \in Matches(vs, name, guid) :
    \A j \in Matches(vs, name, guid) : i <= j

\* VariableTimeBasedAuth.parse_body and blob
parse_body(e) == [name |-> e.name, guid |-> e.guid, data |-> e.data]
blob(v) == [name |-> v.name, guid |-> v.guid, data |-> v.data, added |-> TRUE]

\* VariableStore.del_variable on a list that has the variable
Without(vs, i) == [j \in 1..(Len(vs) - 1) |-> IF j < i THEN vs[j] ELSE vs[j + 1]]

\* Mutant: the time-based variable is created without looking for an old one.
AddBlindly(vs, name, guid, payload, append) ==
  Append(vs, [name |-> name, guid |-> guid, data |-> <<payload>>])

\* VariableTimeBasedAuth.update
Updated(data, payload, append) == IF append THEN Append(data, payload) ELSE <<payload>>

\* VariableStore.add_variable
AddVariable(vs, name, guid, payload, append) ==
  IF Matches(vs, name, guid) = {}
  THEN Append(vs, [name |-> name, guid |-> guid, data |-> <<payload>>])
  ELSE [vs EXCEPT ![find_var_in_list(vs, name, guid)].data =
          Updated(@, payload, append)]

\* name.lower() picks one of the key enrolments, which store under a fixed
\* name and vendor GUID; the GUID given is then the owner of the signature.
Canonical(name) ==
  CASE name \in {"PK", "Pk", "pK", "pk"} -> "PK"
    [] name \in {"KEK", "KEk", "KeK", "Kek", "kEK", "kEk", "keK", "kek"} -> "KEK"
    [] name \in {"DB", "Db", "dB", "db"} -> "db"
    [] name \in {"DBX", "DBx", "DbX", "Dbx", "dBX", "dBx", "dbX", "dbx"} -> "dbx"
    [] OTHER -> name

VendorGuid(name, guid) ==
  CASE Canonical(name) \in {"PK", "KEK"} -> Global
    [] Canonical(name) \in {"db", "dbx"} -> Image
    [] OTHER                             -> guid

PayloadOf(a) ==
  [owner |-> IF Canonical(a.name) \in {"PK", "KEK", "db"} THEN a.guid ELSE "none",
   file  |-> a.data_file]

\* Mutant: a PK is appended like any other key.
AddRaisesNeverForPK(a, append) ==
  Canonical(a.name) = "dbx" /\ a.data_file \notin AuthFiles

\* add_variable() raises: PK is never appended, a dbx file must parse.
AddRaises(a, append) ==
  \/ Canonical(a.name) = "PK" /\ append
  \/ Canonical(a.name) = "dbx" /\ a.data_file \notin AuthFiles

\* The enrolment functions, from enroll_platform_key to enroll_variable.
Enroll(vs, a, append) ==
  AddVariable(vs, Canonical(a.name), VendorGuid(a.name, a.guid), PayloadOf(a), append)

-----------------------------------------------------------------------------
(* One call                                                                *)

Return(r) == pc' = "idle" /\ result' = r

\* Mutant: the walk starts at the header of the store.
StartAtHeader(a) ==
  LET fd == file[a.input] IN
  /\ pc = "idle"
  /\ args' = a /\ fdData' = fd
  /\ cursor' = 0 /\ begin' = 0 /\ vars_list' = <<>>
  /\ fd.form = "fd" /\ pc' = "walk" /\ result' = "none"
  /\ UNCHANGED file

\* var_enroll() reads the input and find_var_info() looks for the variable
\* volume.  The offset of its search never moves: an image that begins with
\* anything else is looked at for ever.
Start(a) ==
  LET fd == file[a.input] IN
  /\ pc = "idle"
  /\ args' = a /\ fdData' = fd
  /\ cursor' = 1 /\ begin' = 0 /\ vars_list' = <<>>
  /\ \/ fd.form \in {"none", "foreign"} /\ Return("false")
     \/ fd.form = "empty" /\ Return("raised")
     \/ fd.form = "bad"   /\ pc' = "spin" /\ result' = "none"
     \/ fd.form = "fd"    /\ pc' = "walk" /\ result' = "none"
  /\ UNCHANGED file

Spin == pc = "spin" /\ UNCHANGED vars

\* Mutant: a deleted variable is passed over before begin is moved on.
WalkEntryContinueEarly ==
  LET e == fdData.vars[cursor] IN
  /\ pc = "walk" /\ begin < Capacity /\ cursor <= Len(fdData.vars)
  /\ IF e.added
     THEN /\ cursor' = cursor + 1 /\ begin' = begin + Size(e)
          /\ vars_list' = Append(vars_list, parse_body(e))
     ELSE UNCHANGED <<cursor, begin, vars_list>>
  /\ UNCHANGED <<file, pc, args, fdData, result>>

\* sync_to_vars_list: one turn of its loop, or its end.
WalkEntry ==
  LET e == fdData.vars[cursor] IN
  /\ pc = "walk" /\ begin < Capacity /\ cursor <= Len(fdData.vars)
  /\ cursor' = cursor + 1 /\ begin' = begin + Size(e)
  /\ vars_list' =
       IF e.added THEN Append(vars_list, parse_body(e)) ELSE vars_list
  /\ UNCHANGED <<file, pc, args, fdData, result>>

WalkEnds ==
  /\ pc = "walk" /\ (begin >= Capacity \/ cursor > Len(fdData.vars))
  /\ IF begin < Capacity /\ fdData.stop = "eof"
     THEN Return("raised")
     ELSE pc' = "check" /\ UNCHANGED result
  /\ UNCHANGED <<file, args, fdData, cursor, begin, vars_list>>

check_args ==
  /\ pc = "check"
  /\ \/ args.operation = "delete"
     \/ /\ args.data_file \in Present
        /\ Canonical(args.name) \in KeyNames \/ args.attributes
  /\ pc' = "process"
  /\ UNCHANGED <<file, args, fdData, cursor, begin, vars_list, result>>

ArgsInvalid ==
  /\ pc = "check" /\ args.operation # "delete"
  /\ \/ args.data_file \notin Present
     \/ Canonical(args.name) \notin KeyNames /\ ~args.attributes
  /\ Return("false")
  /\ UNCHANGED <<file, args, fdData, cursor, begin, vars_list>>

\* process_var once the operation has changed the list: lay it out.
Sync(vs) ==
  /\ vars_list' = vs /\ pc' = "blob" /\ cursor' = 1 /\ begin' = 0
  /\ UNCHANGED <<file, args, fdData, result>>

\* The exception is caught in var_enroll().
Raise ==
  /\ Return("false")
  /\ UNCHANGED <<file, args, fdData, cursor, begin, vars_list>>

\* The operation returns False: process_var() writes nothing, and var_enroll()
\* drops that result and returns True.
NothingDone ==
  /\ Return("true")
  /\ UNCHANGED <<file, args, fdData, cursor, begin, vars_list>>

Add ==
  LET append == args.operation = "append" IN
  /\ pc = "process" /\ args.operation \in {"add", "append"}
  /\ IF AddRaises(args, append) THEN Raise
     ELSE Sync(Enroll(vars_list, args, append))

\* del_variable takes name and GUID as given.
Delete ==
  LET found == Matches(vars_list, args.name, args.guid) IN
  /\ pc = "process" /\ args.operation = "delete"
  /\ IF found = {} THEN NothingDone
     ELSE Sync(Without(vars_list, find_var_in_list(vars_list, args.name, args.guid)))

\* Mutant: the variable is not deleted first.
UpdateAppends ==
  LET found == Matches(vars_list, args.name, args.guid) IN
  /\ pc = "process" /\ args.operation = "update"
  /\ \/ found = {} /\ NothingDone
     \/ found # {} /\ AddRaises(args, TRUE) /\ Raise
     \/ found # {} /\ ~AddRaises(args, TRUE) /\ Sync(Enroll(vars_list, args, TRUE))

\* update_variable finds and deletes by the GUID as given and then appends.
Update ==
  LET found == Matches(vars_list, args.name, args.guid)
      rest  == Without(vars_list, find_var_in_list(vars_list, args.name, args.guid))
  IN
  /\ pc = "process" /\ args.operation = "update"
  /\ \/ found = {} /\ NothingDone
     \/ found # {} /\ AddRaises(args, TRUE) /\ Raise
     \/ found # {} /\ ~AddRaises(args, TRUE) /\ Sync(Enroll(rest, args, TRUE))

\* sync_to_file: the loop that concatenates the variables.
BlobEntry ==
  /\ pc = "blob" /\ cursor <= Len(vars_list)
  /\ cursor' = cursor + 1 /\ begin' = begin + Size(vars_list[cursor])
  /\ UNCHANGED <<file, pc, args, fdData, vars_list, result>>

BlobEnds ==
  /\ pc = "blob" /\ cursor > Len(vars_list)
  /\ pc' = "open"
  /\ UNCHANGED <<file, args, fdData, cursor, begin, vars_list, result>>

\* The image in memory: the region is erased, then the blob is copied to its
\* start whatever the blob's size; the rest is the image that was read.
Buffer ==
  [form |-> "fd",
   vars |-> [i \in 1..Len(vars_list) |-> blob(vars_list[i])],
   stop |-> "erased",
   tail |-> IF begin > Capacity THEN "overwritten" ELSE fdData.tail]

\* open(output_file, 'wb') empties the file.
OpenOutput ==
  /\ pc = "open"
  /\ file' = [file EXCEPT ![args.output] = EmptyFd]
  /\ pc' = "write"
  /\ UNCHANGED <<args, fdData, cursor, begin, vars_list, result>>

WriteOutput ==
  /\ pc = "write"
  /\ file' = [file EXCEPT ![args.output] = Buffer]
  /\ Return("true")
  /\ UNCHANGED <<args, fdData, cursor, begin, vars_list>>

\* What a write that stops half way leaves: nothing, part of the volume header,
\* some of the variables, or everything up to a place behind the region.
Torn(fd) ==
  {EmptyFd, [NoFile EXCEPT !.form = "bad"]}
    \cup {[form |-> "fd", vars |-> SubSeq(fd.vars, 1, n), stop |-> s, tail |-> "cut"] :
            n \in 0..Len(fd.vars), s \in {"eof", "stub"}}
    \cup {[fd EXCEPT !.tail = "cut"]}

\* sync_to_file swallows the error and returns False; var_enroll() returns True.
OpenFails ==
  /\ IoFails /\ pc = "open"
  /\ Return("true")
  /\ UNCHANGED <<file, args, fdData, cursor, begin, vars_list>>

WriteFails ==
  /\ IoFails /\ pc = "write"
  /\ \E fd \in Torn(Buffer) : file' = [file EXCEPT ![args.output] = fd]
  /\ Return("true")
  /\ UNCHANGED <<args, fdData, cursor, begin, vars_list>>

\* The steps of a call behind its start.
Work ==
  \/ Spin \/ WalkEntry \/ WalkEnds \/ check_args \/ ArgsInvalid
  \/ Add \/ Delete \/ Update
  \/ BlobEntry \/ BlobEnds \/ OpenOutput \/ WriteOutput

IoError == OpenFails \/ WriteFails

Step == Work \/ IoError

\* Somebody runs the tool.
Invoke ==
  \E a \in Requests :
    /\ a.operation \in {"append", "update"} =>
         \A i \in 1..Len(file[a.input].vars) : Len(file[a.input].vars[i].data) <= MaxData
    /\ Start(a)

Next == Invoke \/ Step

Spec == Init /\ [][Next]_vars /\ WF_vars(Step)

-----------------------------------------------------------------------------
(* Properties                                                              *)

\* No variable is twice in the list, however it was read, added or updated:
\* find_var_in_list and the firmware only ever see the first.
NoDuplicates ==
  \A i, j \in 1..Len(vars_list) : Key(vars_list[i]) = Key(vars_list[j]) => i = j

\* The same for the variables a file holds, torn or not, at every moment of a
\* call: a variable that was replaced does not stay behind.
FilesUnique == \A p \in Paths : UniqueIn(file[p])

\* add_variable() and enroll_platform_key keep one PK, whatever sequence of
\* adds, appends, updates and deletes was run.
OnePlatformKey == \A p \in Paths : PkSingle(file[p].vars)

FilesFilled == \A p \in Paths : Filled(file[p].vars)

\* What the loop of sync_to_vars_list has collected so far are the live entries
\* it has passed.
WalkInv ==
  pc = "walk" =>
    /\ \A i \in 1..Len(vars_list) : \E j \in 1..Len(fdData.vars) :
         /\ j < cursor /\ fdData.vars[j].added
         /\ parse_body(fdData.vars[j]) = vars_list[i]
    /\ \A j \in 1..Len(fdData.vars) : j < cursor /\ fdData.vars[j].added =>
         \E i \in 1..Len(vars_list) : parse_body(fdData.vars[j]) = vars_list[i]

\* The inductive invariant: the image that was read and the list are as sound
\* as the files.
IInv ==
  /\ TypeOK
  /\ FilesUnique /\ UniqueIn(fdData) /\ NoDuplicates
  /\ OnePlatformKey /\ PkSingle(fdData.vars) /\ PkSingle(vars_list)
  /\ FilesFilled /\ Filled(fdData.vars) /\ Filled(vars_list)
  /\ WalkInv

\* What a file says: the data of each variable, <<>> when it is not there.
Content(fd) ==
  [k \in AllNames \X AllGuids |->
     IF \E i \in 1..Len(fd.vars) : fd.vars[i].added /\ Key(fd.vars[i]) = k
     THEN fd.vars[CHOOSE i \in 1..Len(fd.vars) :
                    fd.vars[i].added /\ Key(fd.vars[i]) = k].data
     ELSE <<>>]

\* A file that is open for writing counts as written.
Stored(p) == Content(IF pc = "write" /\ args.output = p THEN Buffer ELSE file[p])

Abstract ==
  INSTANCE VarMap WITH map <- [p \in Paths |-> Stored(p)],
                       req <- args,
                       stage <- CASE pc = "idle"  -> "idle"
                                  [] pc = "write" -> "applied"
                                  [] OTHER        -> "asked"

\* Walking the region, changing the list and laying it out again does to the
\* variables of the files what VarMap says of the request, all at once: the
\* other variables survive, the input stays as it is.  A write that fails may
\* lose variables of the output and does nothing else.
ImplementsMap == Abstract!Spec

\* No image that is read has variables behind the region's end, where the loop
\* of sync_to_vars_list stops.
NeverFull == pc = "walk" /\ cursor <= Len(fdData.vars) => begin < Capacity

\* What a list says once it is laid out.
Data(vs) == Content([vars |-> [i \in 1..Len(vs) |-> blob(vs[i])]])

\* A running call still works on what its input holds; once walked, its list
\* says the same, and once changed, what the request makes of it.
CallInv ==
  /\ pc \in {"walk", "check", "process", "blob", "open"} => fdData = file[args.input]
  /\ pc \in {"check", "process"} => Data(vars_list) = Content(fdData)
  /\ pc \in {"blob", "open", "write"} =>
       /\ Data(vars_list) = Abstract!Applied(args, Content(fdData))
       /\ args.operation \in {"append", "update"} => Abstract!Target(args)[1] # "PK"
       /\ args.operation \in {"delete", "update"} =>
            Content(fdData)[Abstract!Spelled(args)] # <<>>

\* A call on an image that begins with the variable volume returns: the walk
\* ends whatever the states of the entries, and so does the layout.
CallReturns == (pc \notin {"idle", "spin"}) ~> (pc = "idle")

=============================================================================
