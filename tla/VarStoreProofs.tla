--------------------------- MODULE VarStoreProofs ---------------------------
(***************************************************************************)
(* Proofs about VarStore and SecureBoot, for any names, images, requests   *)
(* and capacity and with writes that fail: no variable is ever in a list   *)
(* or a file twice and a PK is a single key, also when runs are killed.    *)
(* As long as every image that is read fits its region (NeverFull), the    *)
(* tool implements VarMap and a run of secure_boot enrols what it says.    *)
(***************************************************************************)
EXTENDS SecureBoot, SequenceTheorems, TLAPS

\* No two variables of a list have the same name and GUID.
Uniq(vs) == \A i, j \in 1..Len(vs) : Key(vs[i]) = Key(vs[j]) => i = j

\* A list described element by element is a sequence.
LEMMA Described ==
  ASSUME NEW S, NEW n \in Nat, NEW f \in [1..n -> S]
  PROVE  f \in Seq(S) /\ Len(f) = n
OBVIOUS

\* In a list without duplicates find_var_in_list finds the match.
LEMMA FindMatches ==
  ASSUME NEW vs, Len(vs) \in Nat, Uniq(vs), NEW name, NEW guid,
         Matches(vs, name, guid) # {}
  PROVE  find_var_in_list(vs, name, guid) \in Matches(vs, name, guid)
<1>1. PICK i \in Matches(vs, name, guid) : TRUE
  OBVIOUS
<1>2. \A j \in Matches(vs, name, guid) : i <= j
  BY <1>1 DEF Matches, Uniq, Key
<1> QED
  BY <1>1, <1>2 DEF find_var_in_list

\* Deleting a variable leaves a list with the same virtues.
LEMMA WithoutKeeps ==
  ASSUME NEW vs \in Seq(Var), Uniq(vs), PkSingle(vs), Filled(vs), NEW i \in 1..Len(vs)
  PROVE  LET rest == Without(vs, i) IN rest \in Seq(Var) /\ Uniq(rest) /\ PkSingle(rest) /\ Filled(rest)
<1> DEFINE rest == Without(vs, i)
           n == Len(vs) - 1
<1>1. n \in Nat /\ \A j \in 1..Len(vs) : vs[j] \in Var
  BY ElementOfSeq
<1>2. rest \in [1..n -> Var]
  BY <1>1 DEF Without
<1>3. rest \in Seq(Var) /\ Len(rest) = n
  BY <1>1, <1>2, Described
<1>4. \A j \in 1..n : rest[j] = IF j < i THEN vs[j] ELSE vs[j + 1]
  BY DEF Without
<1>5. Uniq(rest)
  BY <1>1, <1>3, <1>4, SMTT(30) DEF Uniq
<1>6. PkSingle(rest) /\ Filled(rest)
  BY <1>1, <1>3, <1>4, SMTT(30) DEF PkSingle, Filled
<1> QED
  BY <1>3, <1>5, <1>6

\* So does adding one, when nothing is appended to a PK.
LEMMA AddKeeps ==
  ASSUME NEW vs \in Seq(Var), Uniq(vs), PkSingle(vs), Filled(vs),
         NEW name \in AllNames, NEW guid \in AllGuids, NEW payload \in Payload,
         NEW append \in BOOLEAN, name = "PK" => ~append
  PROVE  LET new == AddVariable(vs, name, guid, payload, append)
         IN  new \in Seq(Var) /\ Uniq(new) /\ PkSingle(new) /\ Filled(new)
<1> DEFINE new == AddVariable(vs, name, guid, payload, append)
<1>0. \A j \in 1..Len(vs) : vs[j] \in Var
  BY ElementOfSeq
<1>01. <<payload>> \in Seq(Payload) /\ Len(<<payload>>) = 1
  OBVIOUS
<1>1. CASE Matches(vs, name, guid) = {}
  <2> DEFINE v == [name |-> name, guid |-> guid, data |-> <<payload>>]
  <2>1. v \in Var
    BY <1>01 DEF Var
  <2>2. new = Append(vs, v)
    BY <1>1 DEF AddVariable
  <2> HIDE DEF v
  <2>3. new \in Seq(Var) /\ Len(new) = Len(vs) + 1
    BY <2>1, <2>2, AppendProperties
  <2>4. /\ \A i \in 1..Len(vs) : new[i] = vs[i]
        /\ new[Len(vs) + 1] = v
    BY <2>1, <2>2, AppendProperties
  <2>5. \A i \in 1..Len(vs) : Key(vs[i]) # Key(v)
    BY <1>1 DEF Matches, Key, v
  <2>6. Uniq(new)
    BY <2>3, <2>4, <2>5 DEF Uniq
  <2>7. PkSingle(new)
    BY <2>3, <2>4, <1>01 DEF PkSingle, v
  <2>8. Filled(new)
    <3>1. v.data # <<>>
      BY DEF v
    <3> QED
      BY <2>3, <2>4, <3>1 DEF Filled
  <2> QED
    BY <2>8, <2>7, <2>6, <2>3
<1>2. CASE Matches(vs, name, guid) # {}
  <2> DEFINE i == find_var_in_list(vs, name, guid)
             d == IF append THEN Append(vs[i].data, payload) ELSE <<payload>>
             v == [vs[i] EXCEPT !.data = d]
  <2>1. i \in 1..Len(vs) /\ vs[i].name = name /\ vs[i].guid = guid
    BY <1>2, FindMatches DEF Matches
  <2>2. vs[i] \in Var /\ vs[i].data \in Seq(Payload)
    BY <2>1, <1>0 DEF Var
  <2>3. d \in Seq(Payload)
    BY <2>2, <1>01
  <2>4. new = [vs EXCEPT ![i] = v]
    BY <1>2, <2>1 DEF AddVariable, Updated
  <2> HIDE DEF i, d
  <2>5. v \in Var /\ v.name = name /\ v.guid = guid /\ v.data = d
    BY <2>1, <2>2, <2>3 DEF Var
  <2> HIDE DEF v, new
  <2>6. new \in Seq(Var) /\ Len(new) = Len(vs)
    BY <2>1, <2>4, <2>5, ExceptSeq
  <2>7. \A j \in 1..Len(vs) : new[j] = IF j = i THEN v ELSE vs[j]
    BY <2>1, <2>4, <2>5, ExceptSeq
  <2>8. \A j \in 1..Len(vs) : Key(new[j]) = Key(vs[j])
    BY <2>1, <2>5, <2>7 DEF Key
  <2>9. Uniq(new)
    BY <2>6, <2>8 DEF Uniq
  <2>10. PkSingle(new)
    <3> SUFFICES ASSUME NEW j \in 1..Len(new), new[j].name = "PK", new[j].guid = Global
                 PROVE  Len(new[j].data) = 1
      BY DEF PkSingle
    <3>1. CASE j = i
      BY <3>1, <2>1, <2>5, <2>6, <2>7, <1>01 DEF d
    <3>2. CASE j # i
      BY <3>2, <2>6, <2>7 DEF PkSingle
    <3> QED
      BY <3>1, <3>2
  <2>11. Filled(new)
    <3>1. d # <<>>
      <4>1. Append(vs[i].data, payload) # <<>>
        BY <2>2, AppendProperties, EmptySeq
      <4> QED
        BY <4>1 DEF d
    <3> QED
      BY <2>5, <2>6, <2>7, <3>1 DEF Filled
  <2> QED
    BY <2>11, <2>10, <2>9, <2>6 DEF new
<1> QED
  BY <1>1, <1>2

\* The enrolment functions keep the virtues of the list when they do not raise.
LEMMA EnrollKeeps ==
  ASSUME NEW vs \in Seq(Var), Uniq(vs), PkSingle(vs), Filled(vs), NEW a \in Args,
         NEW append \in BOOLEAN, ~AddRaises(a, append)
  PROVE  LET new == Enroll(vs, a, append)
         IN  new \in Seq(Var) /\ Uniq(new) /\ PkSingle(new) /\ Filled(new)
<1>1. Canonical(a.name) \in AllNames
  BY DEF Args, Canonical, AllNames, KeyNames
<1>2. VendorGuid(a.name, a.guid) \in AllGuids
  BY DEF Args, VendorGuid, AllGuids
<1>3. PayloadOf(a) \in Payload
  BY DEF Args, PayloadOf, Payload, AllGuids
<1>4. Canonical(a.name) = "PK" => ~append
  BY DEF AddRaises
<1> QED
  BY <1>1, <1>2, <1>3, <1>4, AddKeeps DEF Enroll

\* A file is written whole, cut off, or empty: it is never less unique than
\* the list.
LEMMA BufferKeeps ==
  ASSUME vars_list \in Seq(Var), fdData \in FD, NoDuplicates, PkSingle(vars_list), Filled(vars_list)
  PROVE  Buffer \in FD /\ UniqueIn(Buffer) /\ PkSingle(Buffer.vars) /\ Filled(Buffer.vars)
<1> DEFINE n == Len(vars_list)
           b == [i \in 1..n |-> blob(vars_list[i])]
<1>1. n \in Nat /\ \A i \in 1..n : vars_list[i] \in Var
  BY ElementOfSeq
<1>2. b \in [1..n -> Entry]
  BY <1>1 DEF Var, Entry, blob
<1>3. b \in Seq(Entry) /\ Len(b) = n
  BY <1>1, <1>2, Described
<1>4. \A i \in 1..n : /\ Key(b[i]) = Key(vars_list[i])
                      /\ b[i].name = vars_list[i].name /\ b[i].guid = vars_list[i].guid
                      /\ b[i].data = vars_list[i].data
  BY DEF Key, blob
<1>5. Buffer.vars = b
  BY DEF Buffer
<1> HIDE DEF b
<1>6. Buffer \in FD
  BY <1>3, <1>5 DEF Buffer, FD
<1>7. UniqueIn(Buffer)
  BY <1>1, <1>3, <1>4, <1>5 DEF UniqueIn, NoDuplicates
<1>8. PkSingle(Buffer.vars) /\ Filled(Buffer.vars)
  BY <1>1, <1>3, <1>4, <1>5 DEF PkSingle, Filled
<1> QED
  BY <1>6, <1>7, <1>8

\* The empty image.
LEMMA EmptyIsFd ==
  /\ NoFile \in FD /\ UniqueIn(NoFile) /\ PkSingle(NoFile.vars) /\ Filled(NoFile.vars)
  /\ EmptyFd \in FD /\ UniqueIn(EmptyFd) /\ PkSingle(EmptyFd.vars) /\ Filled(EmptyFd.vars)
  /\ [NoFile EXCEPT !.form = "bad"] \in FD
  /\ UniqueIn([NoFile EXCEPT !.form = "bad"])
  /\ PkSingle([NoFile EXCEPT !.form = "bad"].vars)
  /\ Filled([NoFile EXCEPT !.form = "bad"].vars)
<1>1. <<>> \in Seq(Entry) /\ Len(<<>>) = 0
  BY EmptySeq
<1>2. /\ NoFile \in FD /\ NoFile.vars = <<>>
      /\ EmptyFd \in FD /\ EmptyFd.vars = <<>>
      /\ [NoFile EXCEPT !.form = "bad"] \in FD
      /\ [NoFile EXCEPT !.form = "bad"].vars = <<>>
  BY <1>1 DEF NoFile, EmptyFd, FD
<1>3. \A fd : fd.vars = <<>> => UniqueIn(fd) /\ PkSingle(fd.vars) /\ Filled(fd.vars)
  BY <1>1 DEF UniqueIn, PkSingle, Filled
<1> QED
  BY <1>2, <1>3

\* What is left of an image after a failed write.
LEMMA TornKeeps ==
  ASSUME NEW fd \in FD, UniqueIn(fd), PkSingle(fd.vars), Filled(fd.vars), NEW t \in Torn(fd)
  PROVE  t \in FD /\ UniqueIn(t) /\ PkSingle(t.vars) /\ Filled(t.vars)
<1>0. fd.vars \in Seq(Entry) /\ Len(fd.vars) \in Nat
  BY LenProperties DEF FD
<1>1. CASE t \in {EmptyFd, [NoFile EXCEPT !.form = "bad"]}
  BY <1>1, EmptyIsFd
<1>2. CASE t = [fd EXCEPT !.tail = "cut"]
  BY <1>2 DEF FD, UniqueIn, PkSingle, Filled
<1>3. ASSUME NEW n \in 0..Len(fd.vars), NEW s \in {"eof", "stub"},
             t = [form |-> "fd", vars |-> SubSeq(fd.vars, 1, n), stop |-> s, tail |-> "cut"]
      PROVE  t \in FD /\ UniqueIn(t) /\ PkSingle(t.vars) /\ Filled(t.vars)
  <2> DEFINE u == SubSeq(fd.vars, 1, n)
  <2>1. \A i \in 1..n : fd.vars[i] \in Entry
    BY <1>0, ElementOfSeq
  <2>2. u \in Seq(Entry) /\ Len(u) = n /\ \A i \in 1..n : u[i] = fd.vars[i]
    BY <1>0, <2>1, SubSeqProperties
  <2>3. t.vars = u
    BY <1>3
  <2> HIDE DEF u
  <2>4. t \in FD
    BY <1>3, <2>2, <2>3 DEF FD
  <2>5. UniqueIn(t)
    BY <1>0, <2>2, <2>3 DEF UniqueIn
  <2>6. PkSingle(t.vars) /\ Filled(t.vars)
    BY <1>0, <2>2, <2>3 DEF PkSingle, Filled
  <2> QED
    BY <2>4, <2>5, <2>6
<1> QED
  BY <1>1, <1>2, <1>3 DEF Torn

\* Writing a sound image keeps the files sound.
LEMMA FileKeeps ==
  ASSUME file \in [Paths -> FD], FilesUnique, OnePlatformKey, FilesFilled,
         NEW p \in Paths, NEW fd \in FD, UniqueIn(fd), PkSingle(fd.vars), Filled(fd.vars),
         file' = [file EXCEPT ![p] = fd]
  PROVE  file' \in [Paths -> FD] /\ FilesUnique' /\ OnePlatformKey' /\ FilesFilled'
<1>1. file' \in [Paths -> FD]
  OBVIOUS
<1>2. \A q \in Paths : file'[q] = IF q = p THEN fd ELSE file[q]
  OBVIOUS
<1>3. \A q \in Paths : UniqueIn(file'[q]) /\ PkSingle(file'[q].vars) /\ Filled(file'[q].vars)
  BY <1>2 DEF FilesUnique, OnePlatformKey, FilesFilled
<1> QED
  BY <1>1, <1>3 DEF FilesUnique, OnePlatformKey, FilesFilled, UniqueIn, PkSingle, Filled

\* The initial states satisfy the invariant.
LEMMA InitHolds == Init => IInv
<1> SUFFICES ASSUME Init PROVE IInv
  OBVIOUS
<1>1. \A p \in Paths : file[p] \in Disk
  BY DEF Init
<1>2. TypeOK
  <2>1. file \in [Paths -> FD]
    BY InputAssumption DEF Init
  <2>2. vars_list \in Seq(Var) /\ fdData \in FD
    BY EmptyIsFd, EmptySeq DEF Init
  <2> QED
    BY <2>1, <2>2 DEF Init, TypeOK
<1>3. FilesUnique /\ OnePlatformKey /\ FilesFilled
  BY <1>1, InputAssumption DEF FilesUnique, OnePlatformKey, FilesFilled
<1>4. UniqueIn(fdData) /\ PkSingle(fdData.vars) /\ Filled(fdData.vars)
  BY EmptyIsFd DEF Init
<1>5. Len(vars_list) = 0
  BY DEF Init
<1>6. NoDuplicates /\ PkSingle(vars_list) /\ Filled(vars_list) /\ WalkInv
  BY <1>5 DEF NoDuplicates, PkSingle, Filled, WalkInv, Init
<1> QED
  BY <1>2, <1>3, <1>4, <1>6 DEF IInv

\* A step that keeps the files, the list and the image read keeps the
\* invariant when it does not enter the walk.
LEMMA QuietStep ==
  ASSUME IInv, UNCHANGED <<file, args, fdData, vars_list>>,
         pc' \in {"idle", "check", "process", "blob", "open"}, args \in Args,
         cursor' \in Nat \ {0}, begin' \in Nat, result' \in {"none", "true", "false", "raised"}
  PROVE  IInv'
<1> USE DEF IInv
<1>1. TypeOK'
  BY DEF TypeOK
<1>2. WalkInv'
  BY DEF WalkInv
<1> QED
  BY <1>1, <1>2 DEF FilesUnique, NoDuplicates, OnePlatformKey, FilesFilled, UniqueIn, PkSingle, Filled

\* A step that replaces the list by a sound one and goes on to the layout.
LEMMA SyncStep ==
  ASSUME IInv, NEW vs \in Seq(Var), Uniq(vs), PkSingle(vs), Filled(vs), args \in Args, Sync(vs)
  PROVE  IInv'
<1> USE DEF IInv, Sync
<1>1. TypeOK'
  BY DEF TypeOK
<1>2. WalkInv'
  BY DEF WalkInv
<1>3. NoDuplicates' /\ PkSingle(vars_list)' /\ Filled(vars_list)'
  BY DEF NoDuplicates, Uniq, PkSingle, Filled, Key
<1>4. UniqueIn(fdData)' /\ PkSingle(fdData.vars)' /\ Filled(fdData.vars)'
  BY DEF UniqueIn, PkSingle, Filled
<1>5. FilesUnique' /\ OnePlatformKey' /\ FilesFilled'
  BY DEF FilesUnique, OnePlatformKey, FilesFilled, UniqueIn, PkSingle, Filled
<1> QED
  BY <1>1, <1>2, <1>3, <1>4, <1>5

\* A step that writes a sound image.
LEMMA WriteStep ==
  ASSUME IInv, NEW p \in Paths, NEW fd \in FD, UniqueIn(fd), PkSingle(fd.vars), Filled(fd.vars),
         file' = [file EXCEPT ![p] = fd],
         UNCHANGED <<args, fdData, cursor, begin, vars_list>>,
         pc' = "idle" \/ (pc' = "write" /\ args \in Args), result' \in {"none", "true", "false", "raised"}
  PROVE  IInv'
<1> USE DEF IInv
<1>1. file \in [Paths -> FD]
  BY DEF TypeOK
<1>2. file' \in [Paths -> FD] /\ FilesUnique' /\ OnePlatformKey' /\ FilesFilled'
  BY <1>1, FileKeeps
<1>3. TypeOK'
  BY <1>2 DEF TypeOK
<1>4. WalkInv' /\ NoDuplicates' /\ PkSingle(vars_list)' /\ Filled(vars_list)'
  BY DEF WalkInv, NoDuplicates, PkSingle, Filled
<1>5. UniqueIn(fdData)' /\ PkSingle(fdData.vars)' /\ Filled(fdData.vars)'
  BY DEF UniqueIn, PkSingle, Filled
<1> QED
  BY <1>2, <1>3, <1>4, <1>5

\* The start of a call: the image read is one of the files.
LEMMA StartStep ==
  ASSUME IInv, NEW a \in Args, Start(a)
  PROVE  IInv'
<1> USE DEF IInv, Start, Return
<1>1. file[a.input] \in FD /\ UniqueIn(file[a.input]) /\ PkSingle(file[a.input].vars) /\ Filled(file[a.input].vars)
  BY DEF Args, TypeOK, FilesUnique, OnePlatformKey, FilesFilled
<1>2. vars_list' \in Seq(Var) /\ Len(vars_list') = 0
  BY EmptySeq
<1>3. TypeOK'
  BY <1>1, <1>2 DEF TypeOK
<1>4. WalkInv' /\ NoDuplicates' /\ PkSingle(vars_list)' /\ Filled(vars_list)'
  BY <1>2 DEF WalkInv, NoDuplicates, PkSingle, Filled
<1>5. UniqueIn(fdData)' /\ PkSingle(fdData.vars)' /\ Filled(fdData.vars)'
  BY <1>1 DEF UniqueIn, PkSingle, Filled
<1>6. FilesUnique' /\ OnePlatformKey' /\ FilesFilled'
  BY DEF FilesUnique, OnePlatformKey, FilesFilled, UniqueIn, PkSingle, Filled
<1> QED
  BY <1>3, <1>4, <1>5, <1>6

\* One turn of the walk: the entry it appends is new to the list because the
\* list comes from earlier entries and the image has no duplicates.
LEMMA WalkStep == IInv /\ WalkEntry => IInv'
<1> SUFFICES ASSUME IInv, WalkEntry PROVE IInv'
  OBVIOUS
<1> USE DEF IInv
<1> DEFINE e == fdData.vars[cursor]
           v == parse_body(e)
<1>1. /\ fdData.vars \in Seq(Entry) /\ Len(fdData.vars) \in Nat
      /\ vars_list \in Seq(Var) /\ Len(vars_list) \in Nat /\ cursor \in Nat
  BY LenProperties DEF TypeOK, FD
<1>2. cursor \in 1..Len(fdData.vars) /\ fdData \in FD
  BY <1>1 DEF WalkEntry, TypeOK
<1>3. e \in Entry /\ e.data \in Seq(Payload)
  <2>1. e \in Entry
    BY <1>1, <1>2, ElementOfSeq
  <2> HIDE DEF e
  <2> QED
    BY <2>1 DEF Entry
<1>4. v \in Var /\ Key(v) = Key(e) /\ v.name = e.name /\ v.guid = e.guid /\ v.data = e.data
  BY <1>3 DEF Entry, Var, Key, parse_body
<1>5. Size(e) \in Nat
  BY <1>3, LenProperties DEF Size
<1>6. UNCHANGED <<file, pc, args, fdData, result>> /\ cursor' = cursor + 1
      /\ begin' = begin + Size(e) /\ pc = "walk"
  BY DEF WalkEntry
<1>7. FilesUnique' /\ OnePlatformKey' /\ FilesFilled' /\ UniqueIn(fdData)' /\ PkSingle(fdData.vars)' /\ Filled(fdData.vars)'
  BY <1>6 DEF FilesUnique, OnePlatformKey, FilesFilled, UniqueIn, PkSingle, Filled
<1>8. CASE ~e.added
  <2>1. vars_list' = vars_list
    BY <1>8 DEF WalkEntry
  <2>2. TypeOK'
    BY <1>5, <1>6, <2>1 DEF TypeOK
  <2>3. NoDuplicates' /\ PkSingle(vars_list)' /\ Filled(vars_list)'
    BY <2>1 DEF NoDuplicates, PkSingle, Filled
  <2>4. WalkInv'
    BY <1>1, <1>2, <1>6, <1>8, <2>1, SMTT(30) DEF WalkInv
  <2> QED
    BY <1>7, <2>2, <2>3, <2>4
<1>9. CASE e.added
  <2>1. vars_list' = Append(vars_list, v)
    BY <1>9 DEF WalkEntry
  <2> HIDE DEF v
  <2>2. vars_list' \in Seq(Var) /\ Len(vars_list') = Len(vars_list) + 1
    BY <1>1, <1>4, <2>1, AppendProperties
  <2>3. /\ \A i \in 1..Len(vars_list) : vars_list'[i] = vars_list[i]
        /\ vars_list'[Len(vars_list) + 1] = v
    BY <1>1, <1>4, <2>1, AppendProperties
  <2>4. TypeOK'
    BY <1>5, <1>6, <2>2 DEF TypeOK
  <2>5. ASSUME NEW i \in 1..Len(vars_list), Key(vars_list[i]) = Key(v) PROVE FALSE
    <3>1. PICK j \in 1..Len(fdData.vars) :
            /\ j < cursor /\ fdData.vars[j].added
            /\ parse_body(fdData.vars[j]) = vars_list[i]
      BY <1>6 DEF WalkInv
    <3>2. Key(fdData.vars[j]) = Key(vars_list[i])
      BY <3>1 DEF parse_body, Key
    <3>3. j = cursor
      BY <1>2, <1>4, <1>9, <2>5, <3>1, <3>2 DEF UniqueIn
    <3> QED
      BY <1>1, <3>1, <3>3
  <2>6. NoDuplicates'
    BY <1>1, <2>2, <2>3, <2>5 DEF NoDuplicates
  <2>7. PkSingle(vars_list)' /\ Filled(vars_list)'
    <3>1. (e.name = "PK" /\ e.guid = Global => Len(e.data) = 1) /\ e.data # <<>>
      BY <1>2 DEF PkSingle, Filled
    <3> QED
      <4>1. PkSingle(vars_list)'
        BY <1>1, <1>4, <2>2, <2>3, <3>1, SMTT(30) DEF PkSingle
      <4>2. Filled(vars_list)'
        BY <1>1, <1>4, <2>2, <2>3, <3>1 DEF Filled
      <4> QED
        BY <4>1, <4>2
  <2>8. WalkInv'
    <3>1. ASSUME NEW i \in 1..Len(vars_list')
          PROVE  \E j \in 1..Len(fdData.vars) :
                   /\ j < cursor' /\ fdData.vars[j].added
                   /\ parse_body(fdData.vars[j]) = vars_list'[i]
      <4>1. CASE i \in 1..Len(vars_list)
        <5>1. PICK j \in 1..Len(fdData.vars) :
                /\ j < cursor /\ fdData.vars[j].added
                /\ parse_body(fdData.vars[j]) = vars_list[i]
          BY <1>6, <4>1 DEF WalkInv
        <5>2. j < cursor'
          BY <1>1, <1>6, <5>1
        <5>3. vars_list'[i] = vars_list[i]
          BY <2>3, <4>1
        <5> QED
          BY <5>1, <5>2, <5>3
      <4>2. CASE i = Len(vars_list) + 1
        BY <1>1, <1>2, <1>6, <1>9, <2>3, <4>2 DEF v
      <4> QED
        BY <1>1, <2>2, <4>1, <4>2
    <3>2. ASSUME NEW j \in 1..Len(fdData.vars), j < cursor', fdData.vars[j].added
          PROVE  \E i \in 1..Len(vars_list') : parse_body(fdData.vars[j]) = vars_list'[i]
      <4>1. CASE j < cursor
        <5>1. PICK i \in 1..Len(vars_list) : parse_body(fdData.vars[j]) = vars_list[i]
          BY <1>6, <3>2, <4>1 DEF WalkInv
        <5> QED
          BY <1>1, <2>2, <2>3, <5>1
      <4>2. CASE j = cursor
        <5>1. Len(vars_list) + 1 \in 1..Len(vars_list')
          BY <1>1, <2>2
        <5> QED
          BY <2>3, <4>2, <5>1 DEF v
      <4> QED
        BY <1>1, <1>6, <3>2, <4>1, <4>2
    <3> QED
      BY <1>6, <3>1, <3>2 DEF WalkInv
  <2> QED
    BY <1>7, <2>4, <2>6, <2>7, <2>8
<1> QED
  BY <1>8, <1>9

\* A step that changes nothing keeps the invariant.
LEMMA UnchangedHolds == IInv /\ UNCHANGED vars => IInv'
<1> QED
  BY DEF vars, toolVars, IInv, TypeOK, FilesUnique, NoDuplicates, OnePlatformKey, FilesFilled,
      UniqueIn, PkSingle, Filled, WalkInv

\* Every step of a call keeps the invariant.
LEMMA CallHolds == IInv /\ Step => IInv'
<1> SUFFICES ASSUME IInv, Step PROVE IInv'
  OBVIOUS
<1>1. pc # "idle" => args \in Args /\ args.output \in Paths
  BY DEF IInv, TypeOK, Args
<1>2. cursor \in Nat \ {0} /\ begin \in Nat /\ vars_list \in Seq(Var)
      /\ fdData \in FD /\ Uniq(vars_list) /\ PkSingle(vars_list) /\ Filled(vars_list) /\ NoDuplicates
      /\ result \in {"none", "true", "false", "raised"}
  BY DEF IInv, TypeOK, NoDuplicates, Uniq
<1>4. ASSUME WalkEntry PROVE IInv'
  BY <1>4, WalkStep
<1>5. ASSUME WalkEnds PROVE IInv'
  BY <1>1, <1>2, <1>5, QuietStep DEF WalkEnds, Return
<1>6. ASSUME check_args PROVE IInv'
  BY <1>1, <1>2, <1>6, QuietStep DEF check_args
<1>7. ASSUME ArgsInvalid PROVE IInv'
  BY <1>1, <1>2, <1>7, QuietStep DEF ArgsInvalid, Return
<1>8. ASSUME Raise \/ NothingDone, args \in Args PROVE IInv'
  BY <1>2, <1>8, QuietStep DEF Raise, NothingDone, Return
<1>9. ASSUME Add PROVE IInv'
  <2> DEFINE append == args.operation = "append"
  <2>1. args \in Args /\ append \in BOOLEAN
    BY <1>1, <1>9 DEF Add
  <2>2. CASE AddRaises(args, append)
    BY <1>8, <1>9, <2>1, <2>2 DEF Add
  <2>3. CASE ~AddRaises(args, append)
    <3>1. Sync(Enroll(vars_list, args, append))
      BY <1>9, <2>3 DEF Add
    <3> HIDE DEF append
    <3> QED
      BY <1>2, <2>1, <2>3, <3>1, EnrollKeeps, SyncStep
  <2> QED
    BY <2>2, <2>3
<1>10. ASSUME args \in Args, Matches(vars_list, args.name, args.guid) # {}
       PROVE  find_var_in_list(vars_list, args.name, args.guid) \in 1..Len(vars_list)
  BY <1>2, <1>10, FindMatches, LenProperties DEF Matches
<1>11. ASSUME Delete PROVE IInv'
  <2> DEFINE i == find_var_in_list(vars_list, args.name, args.guid)
  <2>1. args \in Args
    BY <1>1, <1>11 DEF Delete
  <2>2. CASE Matches(vars_list, args.name, args.guid) = {}
    BY <1>8, <1>11, <2>1, <2>2 DEF Delete
  <2>3. CASE Matches(vars_list, args.name, args.guid) # {}
    <3>1. Sync(Without(vars_list, i)) /\ i \in 1..Len(vars_list)
      BY <1>10, <1>11, <2>1, <2>3 DEF Delete
    <3> HIDE DEF i
    <3> QED
      BY <1>2, <2>1, <3>1, WithoutKeeps, SyncStep
  <2> QED
    BY <2>2, <2>3
<1>12. ASSUME Update PROVE IInv'
  <2> DEFINE i == find_var_in_list(vars_list, args.name, args.guid)
             rest == Without(vars_list, i)
  <2>1. args \in Args
    BY <1>1, <1>12 DEF Update
  <2>2. CASE Raise \/ NothingDone
    BY <1>8, <2>1, <2>2
  <2>3. CASE /\ Matches(vars_list, args.name, args.guid) # {}
             /\ ~AddRaises(args, TRUE) /\ Sync(Enroll(rest, args, TRUE))
    <3>1. i \in 1..Len(vars_list)
      BY <1>10, <2>1, <2>3
    <3> HIDE DEF i
    <3>2. rest \in Seq(Var) /\ Uniq(rest) /\ PkSingle(rest) /\ Filled(rest)
      BY <1>2, <3>1, WithoutKeeps
    <3> HIDE DEF rest
    <3> QED
      BY <2>1, <2>3, <3>2, EnrollKeeps, SyncStep
  <2> QED
    BY <1>12, <2>2, <2>3 DEF Update
<1>13. ASSUME BlobEntry PROVE IInv'
  <2>1. vars_list[cursor] \in Var
    BY <1>2, <1>13, LenProperties, ElementOfSeq DEF BlobEntry
  <2>2. Size(vars_list[cursor]) \in Nat
    BY <2>1, LenProperties DEF Size, Var
  <2> QED
    BY <1>1, <1>2, <1>13, <2>2, QuietStep DEF BlobEntry
<1>14. ASSUME BlobEnds PROVE IInv'
  BY <1>1, <1>2, <1>14, QuietStep DEF BlobEnds
<1>15. ASSUME OpenOutput PROVE IInv'
  BY <1>1, <1>2, <1>15, EmptyIsFd, WriteStep DEF OpenOutput
<1>16. ASSUME WriteOutput PROVE IInv'
  BY <1>1, <1>2, <1>16, BufferKeeps, WriteStep DEF WriteOutput, Return
<1>17. ASSUME OpenFails PROVE IInv'
  BY <1>1, <1>2, <1>17, QuietStep DEF OpenFails, Return
<1>18. ASSUME WriteFails PROVE IInv'
  BY <1>1, <1>2, <1>18, BufferKeeps, TornKeeps, WriteStep DEF WriteFails, Return
<1>19. ASSUME Spin PROVE IInv'
  BY <1>19, UnchangedHolds DEF Spin
<1> QED
  BY <1>4, <1>5, <1>6, <1>7, <1>9, <1>11, <1>12, <1>13, <1>14, <1>15, <1>16,
     <1>17, <1>18, <1>19 DEF Step, Work, IoError

\* Every step keeps the invariant.
LEMMA StepHolds == IInv /\ [Next]_vars => IInv'
<1> SUFFICES ASSUME IInv, [Next]_vars PROVE IInv'
  OBVIOUS
<1>1. ASSUME NEW a \in Requests, Start(a) PROVE IInv'
  BY <1>1, StartStep, InputAssumption
<1> QED
  BY <1>1, CallHolds, UnchangedHolds DEF Next, Invoke

\* The invariant holds for ever.
THEOREM Invariance == Spec => []IInv
<1> QED
  BY InitHolds, StepHolds, PTL DEF Spec

\* Type correctness of the tool's state and of the files.
THEOREM TypeCorrect == Spec => []TypeOK
<1>1. IInv => TypeOK
  BY DEF IInv
<1> QED
  BY <1>1, Invariance, PTL

\* No file ever holds a variable twice, with any requests, any capacity, and
\* writes that fail or tear: sync_to_file writes what add_variable,
\* del_variable and update_variable keep free of duplicates.
THEOREM FilesStayUnique == Spec => [](FilesUnique /\ NoDuplicates)
<1>1. IInv => FilesUnique /\ NoDuplicates
  BY DEF IInv
<1> QED
  BY <1>1, Invariance, PTL

\* A PK is a single signature list in every file at every moment.
THEOREM PlatformKeyIsSingle == Spec => []OnePlatformKey
<1>1. IInv => OnePlatformKey
  BY DEF IInv
<1> QED
  BY <1>1, Invariance, PTL

-----------------------------------------------------------------------------
(* What files and lists say                                                *)

Keys == AllNames \X AllGuids

\* m gives each variable of the list its data and every other key none.
Says(vs, m) ==
  /\ m = [k \in Keys |-> m[k]]
  /\ \A i \in 1..Len(vs) : m[Key(vs[i])] = vs[i].data
  /\ \A k \in Keys : (\A i \in 1..Len(vs) : Key(vs[i]) # k) => m[k] = <<>>

\* The same for the live entries of an image.
SaysIn(fd, m) ==
  /\ m = [k \in Keys |-> m[k]]
  /\ \A i \in 1..Len(fd.vars) : fd.vars[i].added => m[Key(fd.vars[i])] = fd.vars[i].data
  /\ \A k \in Keys : (\A i \in 1..Len(fd.vars) : fd.vars[i].added => Key(fd.vars[i]) # k)
                       => m[k] = <<>>

\* Content says what an image without duplicates says.
LEMMA ContentSays ==
  ASSUME NEW fd, Len(fd.vars) \in Nat, UniqueIn(fd),
         \A i \in 1..Len(fd.vars) : fd.vars[i].added => Key(fd.vars[i]) \in Keys
  PROVE  SaysIn(fd, Content(fd))
<1> DEFINE m == Content(fd)
<1>1. m = [k \in Keys |-> m[k]]
  BY DEF Content, Keys
<1>2. ASSUME NEW i \in 1..Len(fd.vars), fd.vars[i].added
      PROVE  m[Key(fd.vars[i])] = fd.vars[i].data
  <2> DEFINE k == Key(fd.vars[i])
             c == CHOOSE j \in 1..Len(fd.vars) : fd.vars[j].added /\ Key(fd.vars[j]) = k
  <2>1. c \in 1..Len(fd.vars) /\ fd.vars[c].added /\ Key(fd.vars[c]) = k
    BY <1>2
  <2>2. c = i
    BY <1>2, <2>1 DEF UniqueIn
  <2>3. m[k] = fd.vars[c].data
    BY <1>2 DEF Content, Keys
  <2> QED
    BY <2>2, <2>3
<1>3. ASSUME NEW k \in Keys, \A i \in 1..Len(fd.vars) : fd.vars[i].added => Key(fd.vars[i]) # k
      PROVE  m[k] = <<>>
  BY <1>3 DEF Content, Keys
<1> QED
  BY <1>1, <1>2, <1>3 DEF SaysIn

\* An image says one thing.
LEMMA SaysOnce ==
  ASSUME NEW fd, NEW m, NEW n, SaysIn(fd, m), SaysIn(fd, n)
  PROVE  m = n
<1>1. ASSUME NEW k \in Keys PROVE m[k] = n[k]
  <2>1. CASE \E i \in 1..Len(fd.vars) : fd.vars[i].added /\ Key(fd.vars[i]) = k
    BY <2>1 DEF SaysIn
  <2>2. CASE \A i \in 1..Len(fd.vars) : fd.vars[i].added => Key(fd.vars[i]) # k
    BY <2>2 DEF SaysIn
  <2> QED
    BY <2>1, <2>2
<1>2. m = [k \in Keys |-> m[k]] /\ n = [k \in Keys |-> n[k]]
  BY DEF SaysIn
<1> QED
  BY <1>1, <1>2

\* The keys of the entries of an image and of the variables of a list.
LEMMA KeysOf ==
  /\ \A v \in Var : Key(v) \in Keys /\ v.data \in Seq(Payload)
  /\ \A e \in Entry : Key(e) \in Keys /\ e.data \in Seq(Payload)
<1> QED
  BY DEF Var, Entry, Key, Keys

\* An image of the tool says its content.
LEMMA FdSays ==
  ASSUME NEW fd \in FD, UniqueIn(fd)
  PROVE  SaysIn(fd, Content(fd))
<1>1. fd.vars \in Seq(Entry) /\ Len(fd.vars) \in Nat
  BY LenProperties DEF FD
<1>2. \A i \in 1..Len(fd.vars) : Key(fd.vars[i]) \in Keys
  BY <1>1, ElementOfSeq, KeysOf
<1> QED
  BY <1>1, <1>2, ContentSays

\* A list that is laid out says what the list says.
LEMMA LaidOut ==
  ASSUME NEW vs \in Seq(Var), NEW m,
         NEW fd, fd.vars = [i \in 1..Len(vs) |-> blob(vs[i])]
  PROVE  /\ Says(vs, m) <=> SaysIn(fd, m)
         /\ Uniq(vs) => UniqueIn(fd)
         /\ Len(fd.vars) = Len(vs)
         /\ \A i \in 1..Len(vs) : Key(fd.vars[i]) = Key(vs[i])
<1>1. Len(vs) \in Nat /\ \A i \in 1..Len(vs) : vs[i] \in Var
  BY ElementOfSeq, LenProperties
<1>2. fd.vars \in [1..Len(vs) -> Entry]
  BY <1>1 DEF blob, Entry, Var
<1>3. Len(fd.vars) = Len(vs)
  BY <1>1, <1>2, Described
<1>4. \A i \in 1..Len(vs) : /\ fd.vars[i].added /\ Key(fd.vars[i]) = Key(vs[i])
                            /\ fd.vars[i].data = vs[i].data
  BY DEF blob, Key
<1>5. Says(vs, m) <=> SaysIn(fd, m)
  BY <1>3, <1>4 DEF Says, SaysIn
<1>6. Uniq(vs) => UniqueIn(fd)
  BY <1>3, <1>4 DEF Uniq, UniqueIn
<1> QED
  BY <1>3, <1>4, <1>5, <1>6

\* Data is what a list says.
LEMMA DataSays ==
  ASSUME NEW vs \in Seq(Var), Uniq(vs)
  PROVE  /\ Says(vs, Data(vs))
         /\ \A m : Says(vs, m) => m = Data(vs)
<1> DEFINE fd == [vars |-> [i \in 1..Len(vs) |-> blob(vs[i])]]
<1>0. fd.vars = [i \in 1..Len(vs) |-> blob(vs[i])]
  OBVIOUS
<1>1. Data(vs) = Content(fd)
  BY DEF Data
<1> HIDE DEF fd
<1>2. Len(vs) \in Nat /\ \A i \in 1..Len(vs) : Key(vs[i]) \in Keys
  BY ElementOfSeq, LenProperties, KeysOf
<1>3. UniqueIn(fd) /\ Len(fd.vars) \in Nat
      /\ \A i \in 1..Len(fd.vars) : Key(fd.vars[i]) \in Keys
  BY <1>0, <1>2, LaidOut
<1>4. SaysIn(fd, Content(fd))
  BY <1>3, ContentSays
<1>5. Says(vs, Data(vs))
  BY <1>0, <1>1, <1>4, LaidOut
<1>6. ASSUME NEW m, Says(vs, m) PROVE m = Data(vs)
  BY <1>0, <1>1, <1>4, <1>6, LaidOut, SaysOnce
<1> QED
  BY <1>5, <1>6

\* What is written is what the list says.
LEMMA BufferSays == vars_list \in Seq(Var) => Content(Buffer) = Data(vars_list)
<1> SUFFICES ASSUME vars_list \in Seq(Var) PROVE Content(Buffer) = Data(vars_list)
  OBVIOUS
<1>1. ASSUME NEW f, NEW g, f.vars = g.vars PROVE Content(f) = Content(g)
  BY <1>1 DEF Content
<1> DEFINE fd == [vars |-> [i \in 1..Len(vars_list) |-> blob(vars_list[i])]]
<1>2. Buffer.vars = fd.vars
  BY DEF Buffer
<1>3. Data(vars_list) = Content(fd)
  BY DEF Data
<1> HIDE DEF fd
<1> QED
  BY <1>1, <1>2, <1>3

\* The end of the walk: a list of all live entries says what the image says.
LEMMA WalkedSays ==
  ASSUME IInv, pc = "walk", cursor > Len(fdData.vars)
  PROVE  Data(vars_list) = Content(fdData)
<1>1. fdData \in FD /\ UniqueIn(fdData) /\ vars_list \in Seq(Var) /\ Uniq(vars_list)
      /\ cursor \in Nat /\ Len(fdData.vars) \in Nat
  BY LenProperties DEF IInv, TypeOK, NoDuplicates, Uniq, FD
<1>2. SaysIn(fdData, Content(fdData))
  BY <1>1, FdSays
<1> DEFINE m == Content(fdData)
<1> HIDE DEF m
<1>3. \A i \in 1..Len(vars_list) : \E j \in 1..Len(fdData.vars) :
        fdData.vars[j].added /\ parse_body(fdData.vars[j]) = vars_list[i]
  BY DEF IInv, WalkInv
<1>4. \A j \in 1..Len(fdData.vars) : fdData.vars[j].added =>
        \E i \in 1..Len(vars_list) : parse_body(fdData.vars[j]) = vars_list[i]
  BY <1>1 DEF IInv, WalkInv
<1>5. \A e : Key(parse_body(e)) = Key(e) /\ parse_body(e).data = e.data
  BY DEF parse_body, Key
<1>6. \A i \in 1..Len(vars_list) : m[Key(vars_list[i])] = vars_list[i].data
  BY <1>2, <1>3, <1>5 DEF SaysIn, m
<1>7. ASSUME NEW k \in Keys, \A i \in 1..Len(vars_list) : Key(vars_list[i]) # k
      PROVE  m[k] = <<>>
  <2>1. \A j \in 1..Len(fdData.vars) : fdData.vars[j].added => Key(fdData.vars[j]) # k
    BY <1>4, <1>5, <1>7
  <2> QED
    BY <1>2, <2>1 DEF SaysIn, m
<1>8. Says(vars_list, m)
  BY <1>2, <1>6, <1>7 DEF Says, SaysIn, m
<1> QED
  BY <1>1, <1>8, DataSays DEF m

\* A variable deleted from a list is no more in what it says.
LEMMA WithoutSays ==
  ASSUME NEW vs \in Seq(Var), Uniq(vs), PkSingle(vs), Filled(vs), NEW i \in 1..Len(vs)
  PROVE  Data(Without(vs, i)) = [Data(vs) EXCEPT ![Key(vs[i])] = <<>>]
<1> DEFINE rest == Without(vs, i)
           n == Len(vs) - 1
           m == [Data(vs) EXCEPT ![Key(vs[i])] = <<>>]
<1>1. Says(vs, Data(vs)) /\ \A j \in 1..Len(vs) : vs[j] \in Var
  BY DataSays, ElementOfSeq
<1>2. rest \in Seq(Var) /\ Uniq(rest)
  BY WithoutKeeps
<1>3. n \in Nat /\ Len(vs) \in Nat
  BY LenProperties
<1>4. Len(rest) = n
  <2>1. rest \in [1..n -> Var]
    BY <1>1, <1>3 DEF Without
  <2> QED
    BY <1>3, <2>1, Described
<1>5. \A j \in 1..n : rest[j] = IF j < i THEN vs[j] ELSE vs[j + 1]
  BY DEF Without
<1>6. \A j \in 1..Len(vs) : Key(vs[j]) \in Keys /\ (j # i => Key(vs[j]) # Key(vs[i]))
  BY <1>1, KeysOf DEF Uniq
<1> DEFINE d == Data(vs)
<1>7. d = [k \in Keys |-> d[k]]
  BY <1>1 DEF Says
<1> HIDE DEF d, rest
<1>8. m = [k \in Keys |-> m[k]] /\ \A k \in Keys : m[k] = IF k = Key(vs[i]) THEN <<>> ELSE d[k]
  BY <1>6, <1>7 DEF d
<1>9. \A j \in 1..Len(rest) : m[Key(rest[j])] = rest[j].data
  <2> SUFFICES ASSUME NEW j \in 1..Len(rest) PROVE m[Key(rest[j])] = rest[j].data
    OBVIOUS
  <2>1. PICK q \in 1..Len(vs) : q # i /\ rest[j] = vs[q]
    <3>1. CASE j < i
      BY <1>3, <1>4, <1>5, <3>1
    <3>2. CASE ~(j < i)
      <4>1. j + 1 \in 1..Len(vs) /\ j + 1 # i
        BY <1>3, <1>4, <3>2
      <4> QED
        BY <1>3, <1>4, <1>5, <3>2, <4>1
    <3> QED
      BY <3>1, <3>2
  <2> QED
    BY <1>1, <1>6, <1>8, <2>1 DEF Says, d
<1>10. ASSUME NEW k \in Keys, \A j \in 1..Len(rest) : Key(rest[j]) # k
       PROVE  m[k] = <<>>
  <2>1. CASE k = Key(vs[i])
    BY <1>8, <2>1
  <2>2. CASE k # Key(vs[i])
    <3>1. ASSUME NEW q \in 1..Len(vs), Key(vs[q]) = k PROVE FALSE
      <4>1. CASE q < i
        <5>1. q \in 1..n
          BY <1>3, <4>1
        <5> QED
          BY <1>4, <1>5, <1>10, <3>1, <4>1, <5>1
      <4>2. CASE q > i
        <5>1. q - 1 \in 1..n /\ ~(q - 1 < i) /\ (q - 1) + 1 = q
          BY <1>3, <4>2
        <5> QED
          BY <1>4, <1>5, <1>10, <3>1, <5>1
      <4> QED
        BY <1>3, <2>2, <3>1, <4>1, <4>2
    <3> QED
      BY <1>1, <1>8, <2>2, <3>1 DEF Says, d
  <2> QED
    BY <2>1, <2>2
<1>11. Says(rest, m)
  BY <1>8, <1>9, <1>10 DEF Says
<1> QED
  BY <1>2, <1>11, DataSays DEF rest

\* A variable stored in a list is the one change of what it says.
LEMMA AddSays ==
  ASSUME NEW vs \in Seq(Var), Uniq(vs), PkSingle(vs), Filled(vs),
         NEW name \in AllNames, NEW guid \in AllGuids, NEW payload \in Payload,
         NEW append \in BOOLEAN, name = "PK" => ~append
  PROVE  Data(AddVariable(vs, name, guid, payload, append)) =
           [Data(vs) EXCEPT ![<<name, guid>>] = Updated(@, payload, append)]
<1> DEFINE new == AddVariable(vs, name, guid, payload, append)
           key == <<name, guid>>
           u == Data(vs)
           m == [u EXCEPT ![key] = Updated(u[key], payload, append)]
<1>1. new \in Seq(Var) /\ Uniq(new)
  BY AddKeeps
<1>2. Says(vs, u)
  BY DataSays
<1>3. Len(vs) \in Nat /\ \A j \in 1..Len(vs) : vs[j] \in Var /\ Key(vs[j]) \in Keys
  BY ElementOfSeq, LenProperties, KeysOf
<1>4. u = [k \in Keys |-> u[k]] /\ key \in Keys
  BY <1>2 DEF Says, Keys
<1> HIDE DEF u
<1>5. /\ m = [k \in Keys |-> m[k]]
      /\ \A k \in Keys : m[k] = IF k = key THEN Updated(u[key], payload, append) ELSE u[k]
  BY <1>4
<1>6. ASSUME Says(new, m) PROVE Data(new) = m
  BY <1>1, <1>6, DataSays
<1> HIDE DEF m
<1>7. CASE Matches(vs, name, guid) = {}
  <2> DEFINE v == [name |-> name, guid |-> guid, data |-> <<payload>>]
  <2>1. v \in Var /\ Key(v) = key /\ v.data = <<payload>>
    BY DEF Var, Key
  <2>2. new = Append(vs, v)
    BY <1>7 DEF AddVariable
  <2> HIDE DEF v, new
  <2>3. /\ Len(new) = Len(vs) + 1
        /\ \A i \in 1..Len(vs) : new[i] = vs[i]
        /\ new[Len(vs) + 1] = v
    BY <2>1, <2>2, AppendProperties
  <2>4. \A i \in 1..Len(vs) : Key(vs[i]) # key
    BY <1>7 DEF Matches, Key
  <2>5. u[key] = <<>>
    BY <1>2, <1>4, <2>4 DEF Says
  <2>6. m[key] = <<payload>>
    <3>1. Append(<<>>, payload) = <<payload>>
      OBVIOUS
    <3>2. Updated(<<>>, payload, append) = <<payload>>
      BY <3>1 DEF Updated
    <3> QED
      BY <1>4, <1>5, <2>5, <3>2
  <2>7. \A i \in 1..Len(new) : m[Key(new[i])] = new[i].data
    <3>1. \A i \in 1..Len(vs) : m[Key(vs[i])] = vs[i].data
      BY <1>2, <1>3, <1>5, <2>4 DEF Says
    <3>2. m[Key(v)] = v.data
      BY <2>1, <2>6
    <3> QED
      BY <1>3, <2>3, <3>1, <3>2
  <2>8. ASSUME NEW k \in Keys, \A i \in 1..Len(new) : Key(new[i]) # k PROVE m[k] = <<>>
    <3>1. k # key
      BY <1>3, <2>1, <2>3, <2>8
    <3>2. \A i \in 1..Len(vs) : Key(vs[i]) # k
      BY <1>3, <2>3, <2>8
    <3> QED
      BY <1>2, <1>5, <3>1, <3>2 DEF Says
  <2>9. Says(new, m)
    BY <1>5, <2>7, <2>8 DEF Says
  <2> QED
    BY <1>6, <2>9 DEF new, m, u
<1>8. CASE Matches(vs, name, guid) # {}
  <2> DEFINE i == find_var_in_list(vs, name, guid)
             v == [vs[i] EXCEPT !.data = Updated(vs[i].data, payload, append)]
  <2>1. i \in 1..Len(vs) /\ vs[i].name = name /\ vs[i].guid = guid
    BY <1>3, <1>8, FindMatches DEF Matches
  <2>2. new = [vs EXCEPT ![i] = v]
    BY <1>8, <2>1 DEF AddVariable
  <2> HIDE DEF i, new
  <2>3. Key(vs[i]) = key /\ vs[i] \in Var
    BY <1>3, <2>1 DEF Key
  <2>4. v.data = Updated(vs[i].data, payload, append) /\ Key(v) = key
    BY <2>1, <2>3 DEF Var, Key
  <2> HIDE DEF v
  <2>5. Len(new) = Len(vs) /\ \A j \in 1..Len(vs) : new[j] = IF j = i THEN v ELSE vs[j]
    BY <2>1, <2>2
  <2>6. m[key] = v.data
    BY <1>2, <1>4, <1>5, <2>1, <2>3, <2>4 DEF Says
  <2>7. \A j \in 1..Len(vs) : j # i => Key(vs[j]) # key
    BY <2>1, <2>3 DEF Uniq
  <2>8. \A j \in 1..Len(new) : m[Key(new[j])] = new[j].data
    BY <1>2, <1>3, <1>5, <2>4, <2>5, <2>6, <2>7 DEF Says
  <2>9. ASSUME NEW k \in Keys, \A j \in 1..Len(new) : Key(new[j]) # k PROVE m[k] = <<>>
    <3>1. k # key
      BY <2>9, <2>5, <2>4, <2>1
    <3>2. \A j \in 1..Len(vs) : Key(vs[j]) # k
      BY <2>3, <2>5, <2>9, <3>1
    <3> QED
      BY <1>2, <1>5, <3>1, <3>2 DEF Says
  <2>10. Says(new, m)
    BY <1>5, <2>8, <2>9 DEF Says
  <2> QED
    BY <1>6, <2>10 DEF new, m, u
<1> QED
  BY <1>7, <1>8

\* A write that stops half way loses variables and changes none.
LEMMA TornSays ==
  ASSUME NEW fd \in FD, UniqueIn(fd), PkSingle(fd.vars), Filled(fd.vars), NEW t \in Torn(fd)
  PROVE  \A k \in Keys : Content(t)[k] \in {<<>>, Content(fd)[k]}
<1> SUFFICES ASSUME NEW k \in Keys PROVE Content(t)[k] \in {<<>>, Content(fd)[k]}
  OBVIOUS
<1>1. t \in FD /\ UniqueIn(t)
  BY TornKeeps
<1>2. SaysIn(t, Content(t)) /\ SaysIn(fd, Content(fd))
  BY <1>1, FdSays
<1>3. fd.vars \in Seq(Entry) /\ Len(fd.vars) \in Nat /\ t.vars \in Seq(Entry) /\ Len(t.vars) \in Nat
  BY <1>1, LenProperties DEF FD
<1>4. \A i \in 1..Len(t.vars) : i \in 1..Len(fd.vars) /\ t.vars[i] = fd.vars[i]
  <2>1. CASE t \in {EmptyFd, [NoFile EXCEPT !.form = "bad"]}
    BY <2>1 DEF EmptyFd, NoFile
  <2>2. CASE t = [fd EXCEPT !.tail = "cut"]
    BY <2>2 DEF FD
  <2>3. ASSUME NEW n \in 0..Len(fd.vars), t.vars = SubSeq(fd.vars, 1, n)
        PROVE  \A i \in 1..Len(t.vars) : i \in 1..Len(fd.vars) /\ t.vars[i] = fd.vars[i]
    <3>1. \A i \in 1..n : fd.vars[i] \in Entry
      BY <1>3, ElementOfSeq
    <3>2. Len(SubSeq(fd.vars, 1, n)) = n /\ \A i \in 1..n : SubSeq(fd.vars, 1, n)[i] = fd.vars[i]
      BY <1>3, <3>1, SubSeqProperties
    <3> QED
      BY <1>3, <2>3, <3>2
  <2>4. ASSUME NEW n \in 0..Len(fd.vars), NEW s,
               t = [form |-> "fd", vars |-> SubSeq(fd.vars, 1, n), stop |-> s, tail |-> "cut"]
        PROVE  \A i \in 1..Len(t.vars) : i \in 1..Len(fd.vars) /\ t.vars[i] = fd.vars[i]
    <3>1. t.vars = SubSeq(fd.vars, 1, n)
      BY <2>4
    <3> QED
      BY <2>3, <3>1
  <2> QED
    BY <2>1, <2>2, <2>4 DEF Torn
<1>5. CASE \E i \in 1..Len(t.vars) : t.vars[i].added /\ Key(t.vars[i]) = k
  BY <1>2, <1>4, <1>5 DEF SaysIn
<1>6. CASE \A i \in 1..Len(t.vars) : t.vars[i].added => Key(t.vars[i]) # k
  BY <1>2, <1>6 DEF SaysIn
<1> QED
  BY <1>5, <1>6

-----------------------------------------------------------------------------
(* What a call does                                                        *)

\* The enrolment functions store under the key that VarMap names.
LEMMA EnrollSays ==
  ASSUME NEW vs \in Seq(Var), Uniq(vs), PkSingle(vs), Filled(vs), NEW a \in Args,
         NEW append \in BOOLEAN, ~AddRaises(a, append)
  PROVE  Data(Enroll(vs, a, append)) =
           [Data(vs) EXCEPT ![Abstract!Target(a)] = Updated(@, PayloadOf(a), append)]
<1>1. Canonical(a.name) \in AllNames
  BY DEF Args, Canonical, AllNames, KeyNames
<1>2. VendorGuid(a.name, a.guid) \in AllGuids
  BY DEF Args, VendorGuid, AllGuids
<1>3. PayloadOf(a) \in Payload
  BY DEF Args, PayloadOf, Payload, AllGuids
<1>4. Canonical(a.name) = "PK" => ~append
  BY DEF AddRaises
<1> QED
  BY <1>1, <1>2, <1>3, <1>4, AddSays DEF Enroll, Abstract!Target

\* The start of a call.
LEMMA StartCall == ASSUME NEW a, Start(a) PROVE CallInv'
<1> QED
  BY DEF CallInv, Start, Return

\* A step that leaves the files, the list, the arguments and the image alone.
LEMMA QuietCall ==
  ASSUME CallInv, UNCHANGED <<file, args, fdData, vars_list>>,
         \/ pc' \in {"idle", "spin"}
         \/ pc \in {"check", "process"} /\ pc' \in {"check", "process"}
         \/ pc \in {"blob", "open"} /\ pc' \in {"blob", "open"}
         \/ pc' = "walk" /\ pc = "walk"
  PROVE  CallInv'
<1> QED
  BY DEF CallInv

\* A step that lays out what the request makes of the image.
LEMMA SyncCall ==
  ASSUME CallInv, NEW vs, Sync(vs), pc = "process",
         Data(vs) = Abstract!Applied(args, Content(fdData)),
         args.operation \in {"append", "update"} => Abstract!Target(args)[1] # "PK",
         args.operation \in {"delete", "update"} =>
           Content(fdData)[Abstract!Spelled(args)] # <<>>
  PROVE  CallInv'
<1>1. /\ vars_list' = vs /\ pc' = "blob" /\ UNCHANGED <<file, args, fdData>>
  BY DEF Sync
<1>2. fdData' = file'[args'.input]
  BY <1>1 DEF CallInv
<1>3. Data(vars_list') = Abstract!Applied(args', Content(fdData'))
  BY <1>1
<1> QED
  BY <1>1, <1>2, <1>3 DEF CallInv

\* The variable that is found has data.
LEMMA FoundSays ==
  ASSUME NEW vs \in Seq(Var), Uniq(vs), Filled(vs), NEW a \in Args,
         Matches(vs, a.name, a.guid) # {}
  PROVE  LET i == find_var_in_list(vs, a.name, a.guid)
         IN  /\ i \in 1..Len(vs) /\ Key(vs[i]) = Abstract!Spelled(a)
             /\ Data(vs)[Abstract!Spelled(a)] # <<>>
<1> DEFINE i == find_var_in_list(vs, a.name, a.guid)
<1>1. i \in Matches(vs, a.name, a.guid)
  BY FindMatches, LenProperties
<1>2. i \in 1..Len(vs) /\ Key(vs[i]) = Abstract!Spelled(a)
  BY <1>1 DEF Matches, Key, Abstract!Spelled
<1> HIDE DEF i
<1>3. Data(vs)[Key(vs[i])] = vs[i].data /\ vs[i].data # <<>>
  BY <1>2, DataSays DEF Says, Filled
<1> QED
  BY <1>2, <1>3 DEF i

\* The operations make of the list what VarMap makes of the map.
LEMMA ProcessCall ==
  ASSUME IInv, CallInv, pc = "process", Add \/ Delete \/ Update
  PROVE  CallInv'
<1> DEFINE m == Content(fdData)
           Payl == PayloadOf(args)
           T == Abstract!Target(args)
           S == Abstract!Spelled(args)
<1>1. args \in Args /\ vars_list \in Seq(Var) /\ Uniq(vars_list) /\ PkSingle(vars_list)
      /\ Filled(vars_list)
  BY DEF IInv, TypeOK, NoDuplicates, Uniq
<1>2. Data(vars_list) = m
  BY DEF CallInv
<1>3. /\ \A u, k, d : Abstract!Put(u, k, d) = [u EXCEPT ![k] = d]
      /\ \A u, k, d : Abstract!Grow(u, k, d) = [u EXCEPT ![k] = Append(u[k], d)]
  BY DEF Abstract!Put, Abstract!Grow
<1>4. \A d, x : Updated(d, x, TRUE) = Append(d, x)
  BY DEF Updated
<1>5. CASE Raise \/ NothingDone
  BY <1>5, QuietCall DEF Raise, NothingDone, Return
<1> HIDE DEF m, Payl, T, S
<1>6. ASSUME args.operation = "add" PROVE Abstract!Applied(args, m) = Abstract!Put(m, T, <<Payl>>)
  BY <1>6 DEF Abstract!Applied, T, Payl
<1>7. ASSUME args.operation = "append" PROVE Abstract!Applied(args, m) = Abstract!Grow(m, T, Payl)
  BY <1>7 DEF Abstract!Applied, T, Payl
<1>8. ASSUME args.operation = "delete" PROVE Abstract!Applied(args, m) = Abstract!Put(m, S, <<>>)
  BY <1>8 DEF Abstract!Applied, S
<1>9. ASSUME args.operation = "update"
      PROVE  Abstract!Applied(args, m) = Abstract!Grow(Abstract!Put(m, S, <<>>), T, Payl)
  BY <1>9 DEF Abstract!Applied, S, T, Payl
<1>10. ASSUME NEW append \in BOOLEAN, ~AddRaises(args, append), append PROVE T[1] # "PK"
  BY <1>10 DEF AddRaises, T, Abstract!Target
<1>11. CASE Add
  <2> DEFINE append == args.operation = "append"
  <2>1. append \in BOOLEAN /\ args.operation \in {"add", "append"}
    BY <1>11 DEF Add
  <2>2. CASE AddRaises(args, append)
    BY <1>5, <1>11, <2>2 DEF Add
  <2>3. CASE ~AddRaises(args, append)
    <3>1. Sync(Enroll(vars_list, args, append))
      BY <1>11, <2>3 DEF Add
    <3>2. Data(Enroll(vars_list, args, append)) = [m EXCEPT ![T] = Updated(m[T], Payl, append)]
      BY <1>1, <1>2, <2>1, <2>3, EnrollSays DEF T, Payl
    <3>3. Data(Enroll(vars_list, args, append)) = Abstract!Applied(args, m)
      <4>1. CASE args.operation = "add"
        <5>1. Updated(m[T], Payl, append) = <<Payl>>
          BY <4>1 DEF Updated
        <5>2. Abstract!Applied(args, m) = [m EXCEPT ![T] = <<Payl>>]
          BY <1>3, <1>6, <4>1
        <5> QED
          BY <3>2, <5>1, <5>2
      <4>2. CASE args.operation = "append"
        <5>1. Updated(m[T], Payl, append) = Append(m[T], Payl)
          BY <4>2 DEF Updated
        <5>2. Abstract!Applied(args, m) = [m EXCEPT ![T] = Append(m[T], Payl)]
          BY <1>3, <1>7, <4>2
        <5> QED
          BY <3>2, <5>1, <5>2
      <4> QED
        BY <2>1, <4>1, <4>2
    <3>4. args.operation \in {"append", "update"} => T[1] # "PK"
      BY <1>10, <2>1, <2>3
    <3> HIDE DEF append
    <3> QED
      BY <2>1, <3>1, <3>3, <3>4, SyncCall DEF m, T
  <2> QED
    BY <2>2, <2>3
<1>12. CASE Delete
  <2> DEFINE i == find_var_in_list(vars_list, args.name, args.guid)
  <2>1. args.operation = "delete"
    BY <1>12 DEF Delete
  <2>2. CASE Matches(vars_list, args.name, args.guid) = {}
    BY <1>5, <1>12, <2>2 DEF Delete
  <2>3. CASE Matches(vars_list, args.name, args.guid) # {}
    <3>1. Sync(Without(vars_list, i))
      BY <1>12, <2>3 DEF Delete
    <3>2. i \in 1..Len(vars_list) /\ Key(vars_list[i]) = S /\ m[S] # <<>>
      BY <1>1, <1>2, <2>3, FoundSays DEF S
    <3> HIDE DEF i
    <3>3. Data(Without(vars_list, i)) = [m EXCEPT ![S] = <<>>]
      BY <1>1, <1>2, <3>2, WithoutSays
    <3>4. Data(Without(vars_list, i)) = Abstract!Applied(args, m)
      BY <1>3, <1>8, <2>1, <3>3
    <3> QED
      BY <2>1, <3>1, <3>2, <3>4, SyncCall DEF m, S
  <2> QED
    BY <2>2, <2>3
<1>13. CASE Update
  <2> DEFINE i == find_var_in_list(vars_list, args.name, args.guid)
             rest == Without(vars_list, i)
  <2>1. args.operation = "update"
    BY <1>13 DEF Update
  <2>2. CASE Raise \/ NothingDone
    BY <1>5, <2>2
  <2>3. CASE /\ Matches(vars_list, args.name, args.guid) # {}
             /\ ~AddRaises(args, TRUE) /\ Sync(Enroll(rest, args, TRUE))
    <3>1. i \in 1..Len(vars_list) /\ Key(vars_list[i]) = S /\ m[S] # <<>>
      BY <1>1, <1>2, <2>3, FoundSays DEF S
    <3> HIDE DEF i
    <3>2. Data(rest) = [m EXCEPT ![S] = <<>>]
      BY <1>1, <1>2, <3>1, WithoutSays
    <3>3. rest \in Seq(Var) /\ Uniq(rest) /\ PkSingle(rest) /\ Filled(rest)
      BY <1>1, <3>1, WithoutKeeps
    <3> HIDE DEF rest
    <3>4. Data(Enroll(rest, args, TRUE)) = [Data(rest) EXCEPT ![T] = Updated(Data(rest)[T], Payl, TRUE)]
      BY <1>1, <2>3, <3>3, EnrollSays DEF T, Payl
    <3>5. Data(Enroll(rest, args, TRUE)) = Abstract!Applied(args, m)
      <4> DEFINE r == Data(rest)
      <4>1. Abstract!Put(m, S, <<>>) = r
        BY <1>3, <3>2
      <4> HIDE DEF r
      <4>2. Updated(r[T], Payl, TRUE) = Append(r[T], Payl)
        BY <1>4
      <4>3. Abstract!Applied(args, m) = [r EXCEPT ![T] = Append(r[T], Payl)]
        BY <1>3, <1>9, <2>1, <4>1
      <4> QED
        BY <3>4, <4>2, <4>3 DEF r
    <3>6. T[1] # "PK"
      BY <1>10, <2>3
    <3> QED
      BY <2>1, <2>3, <3>1, <3>5, <3>6, SyncCall DEF m, S, T
  <2> QED
    BY <1>13, <2>2, <2>3 DEF Update
<1> QED
  BY <1>11, <1>12, <1>13

\* Every step of a call whose input fits the region.
LEMMA CallGoesOn == IInv /\ CallInv /\ NeverFull /\ Step => CallInv'
<1> SUFFICES ASSUME IInv, CallInv, NeverFull, Step PROVE CallInv'
  OBVIOUS
<1>1. cursor \in Nat /\ begin \in Nat /\ Len(fdData.vars) \in Nat /\ Capacity \in Nat
  BY LenProperties, VarAssumption DEF IInv, TypeOK, FD
<1>2. CASE Spin
  BY <1>2 DEF Spin, vars, toolVars, CallInv
<1>3. CASE WalkEntry
  BY <1>3 DEF WalkEntry, CallInv
<1>4. CASE WalkEnds
  <2>1. pc = "walk" /\ UNCHANGED <<file, args, fdData, vars_list>> /\ pc' \in {"idle", "check"}
    BY <1>4 DEF WalkEnds, Return
  <2>2. cursor > Len(fdData.vars)
    BY <1>1, <1>4 DEF WalkEnds, NeverFull
  <2>3. Data(vars_list) = Content(fdData)
    BY <2>1, <2>2, WalkedSays
  <2> QED
    BY <2>1, <2>3 DEF CallInv
<1>5. CASE check_args \/ ArgsInvalid
  BY <1>5, QuietCall DEF check_args, ArgsInvalid, Return
<1>6. CASE Add \/ Delete \/ Update
  BY <1>6, ProcessCall DEF Add, Delete, Update
<1>7. CASE BlobEntry \/ BlobEnds
  BY <1>7, QuietCall DEF BlobEntry, BlobEnds
<1>8. CASE OpenOutput
  BY <1>8 DEF OpenOutput, CallInv
<1>9. CASE WriteOutput \/ OpenFails \/ WriteFails
  BY <1>9 DEF WriteOutput, OpenFails, WriteFails, Return, CallInv
<1> QED
  BY <1>2, <1>3, <1>4, <1>5, <1>6, <1>7, <1>8, <1>9 DEF Step, Work, IoError

-----------------------------------------------------------------------------
(* The tool implements VarMap                                              *)

\* The map and the stage that VarMap sees.
StoredMap == [p \in Paths |-> Stored(p)]
Stage == CASE pc = "idle"  -> "idle"
           [] pc = "write" -> "applied"
           [] OTHER        -> "asked"

\* A step that writes nothing shows the same map.
LEMMA MapStays ==
  ASSUME UNCHANGED file, pc # "write", pc' # "write"
  PROVE  StoredMap' = StoredMap
<1>1. \A p \in Paths : Stored(p)' = Stored(p)
  BY SMTT(30) DEF Stored, Content
<1> QED
  BY <1>1 DEF StoredMap

\* The steps that VarMap does not see.
LEMMA StepUnseen ==
  ASSUME WalkEntry \/ (WalkEnds /\ pc' = "check") \/ check_args
           \/ BlobEntry \/ BlobEnds \/ UNCHANGED vars
           \/ (pc = "process" /\ \E vs : Sync(vs))
  PROVE  UNCHANGED <<StoredMap, args, Stage>>
<1>1. CASE UNCHANGED vars
  <2>1. \A p \in Paths : Stored(p)' = Stored(p)
    BY <1>1 DEF Stored, Content, Buffer, vars, toolVars
  <2> QED
    BY <1>1, <2>1 DEF StoredMap, Stage, vars, toolVars
<1>2. CASE ~UNCHANGED vars
  <2>1. /\ pc \notin {"idle", "write"} /\ pc' \notin {"idle", "write"}
        /\ UNCHANGED <<file, args>>
    BY <1>2 DEF WalkEntry, WalkEnds, check_args, BlobEntry, BlobEnds, Sync
  <2> QED
    BY <2>1, MapStays DEF Stage
<1> QED
  BY <1>1, <1>2

\* The steps that answer without having stored anything.
LEMMA StepRefuses ==
  ASSUME pc \notin {"idle", "write"}, pc' = "idle", UNCHANGED <<file, args>>
  PROVE  Stage = "asked" /\ Stage' = "idle" /\ UNCHANGED <<StoredMap, args>>
<1> QED
  BY MapStays DEF Stage

\* Opening the output is the moment at which VarMap applies the request.
LEMMA OpenApplies ==
  ASSUME IInv, CallInv, OpenOutput
  PROVE  /\ Stage = "asked" /\ Stage' = "applied" /\ UNCHANGED args
         /\ args.operation \in {"append", "update"} => Abstract!Target(args)[1] # "PK"
         /\ args.operation \in {"delete", "update"} =>
              StoredMap[args.input][Abstract!Spelled(args)] # <<>>
         /\ StoredMap' =
              [StoredMap EXCEPT ![args.output] = Abstract!Applied(args, StoredMap[args.input])]
<1>1. /\ args \in Args /\ args.input \in Paths /\ args.output \in Paths
      /\ vars_list \in Seq(Var) /\ file \in [Paths -> FD]
  BY DEF IInv, TypeOK, Args, OpenOutput
<1>2. /\ pc = "open" /\ pc' = "write" /\ UNCHANGED <<args, fdData, begin, vars_list>>
      /\ \A p \in Paths : p # args.output => file'[p] = file[p]
  BY <1>1 DEF OpenOutput
<1>3. StoredMap[args.input] = Content(fdData)
  BY <1>1, <1>2 DEF StoredMap, Stored, CallInv
<1>4. Stored(args.output)' = Abstract!Applied(args, Content(fdData))
  <2>1. Stored(args.output)' = Content(Buffer)'
    BY <1>2 DEF Stored
  <2>2. Content(Buffer)' = Content(Buffer)
    BY <1>2 DEF Content, Buffer
  <2> QED
    BY <1>1, <1>2, <2>1, <2>2, BufferSays DEF CallInv
<1>5. \A p \in Paths : p # args.output => Stored(p)' = Stored(p)
  BY <1>2 DEF Stored
<1>6. \A p \in Paths : StoredMap'[p] = Stored(p)' /\ StoredMap[p] = Stored(p)
  BY DEF StoredMap
<1>7. StoredMap' = [StoredMap EXCEPT ![args.output] = Abstract!Applied(args, StoredMap[args.input])]
  <2> DEFINE new == Abstract!Applied(args, StoredMap[args.input])
  <2>1. Stored(args.output)' = new
    BY <1>3, <1>4
  <2> HIDE DEF new
  <2>2. StoredMap' = [p \in Paths |-> StoredMap'[p]] /\ StoredMap = [p \in Paths |-> StoredMap[p]]
    BY DEF StoredMap
  <2>3. \A p \in Paths : StoredMap'[p] = IF p = args.output THEN new ELSE StoredMap[p]
    BY <1>1, <1>2, <1>5, <1>6, <2>1
  <2> QED
    BY <1>1, <2>2, <2>3 DEF new
<1> QED
  BY <1>2, <1>3, <1>7 DEF Stage, CallInv

\* A write that succeeds shows what was already counted as stored.
LEMMA WriteShows ==
  ASSUME IInv, WriteOutput
  PROVE  Stage = "applied" /\ Stage' = "idle" /\ UNCHANGED <<StoredMap, args>>
<1>1. args.output \in Paths /\ file \in [Paths -> FD]
  BY DEF IInv, TypeOK, Args, WriteOutput
<1>2. /\ pc = "write" /\ pc' = "idle" /\ UNCHANGED args
      /\ \A p \in Paths : file'[p] = IF p = args.output THEN Buffer ELSE file[p]
  BY <1>1 DEF WriteOutput, Return
<1>3. \A p \in Paths : Stored(p)' = Stored(p)
  BY <1>2 DEF Stored
<1> QED
  BY <1>2, <1>3 DEF StoredMap, Stage

\* A write that fails only loses variables.
LEMMA FailLoses ==
  ASSUME IInv, WriteFails
  PROVE  /\ IoFails /\ Stage = "applied" /\ Stage' = "idle" /\ UNCHANGED args
         /\ DOMAIN StoredMap' = Paths
         /\ \A p \in Paths \ {args.output} : StoredMap'[p] = StoredMap[p]
         /\ \A k \in DOMAIN StoredMap[args.output] :
              StoredMap'[args.output][k] \in {<<>>, StoredMap[args.output][k]}
<1>1. args.output \in Paths /\ file \in [Paths -> FD]
  BY DEF IInv, TypeOK, Args, WriteFails
<1>2. PICK fd \in Torn(Buffer) : file' = [file EXCEPT ![args.output] = fd]
  BY DEF WriteFails
<1>3. pc = "write" /\ pc' = "idle" /\ UNCHANGED args /\ IoFails
  BY DEF WriteFails, Return
<1>4. \A p \in Paths : StoredMap'[p] = Content(IF p = args.output THEN fd ELSE file[p])
  BY <1>1, <1>2, <1>3 DEF StoredMap, Stored, Content
<1>5. \A p \in Paths : StoredMap[p] = Content(IF p = args.output THEN Buffer ELSE file[p])
  BY <1>1, <1>3 DEF StoredMap, Stored
<1>6. Buffer \in FD /\ UniqueIn(Buffer) /\ PkSingle(Buffer.vars) /\ Filled(Buffer.vars)
  BY BufferKeeps DEF IInv, TypeOK
<1>7. \A k \in Keys : Content(fd)[k] \in {<<>>, Content(Buffer)[k]}
  BY <1>6, TornSays
<1>8. DOMAIN StoredMap[args.output] = Keys
  BY <1>1, <1>5 DEF Content, Keys
<1>9. DOMAIN StoredMap' = Paths
  BY DEF StoredMap
<1> QED
  BY <1>1, <1>3, <1>4, <1>5, <1>7, <1>8, <1>9 DEF Stage

\* Every step of the tool is a step of VarMap or none.
LEMMA StepRefines ==
  ASSUME IInv, CallInv, [Next]_vars
  PROVE  [Abstract!Next]_<<StoredMap, args, Stage>>
<1>0. USE DEF Abstract!Next
<1>1. ASSUME NEW a \in Requests, Start(a) PROVE Abstract!Ask
  <2>1. pc = "idle" /\ pc' \in {"idle", "spin", "walk"} /\ args' = a /\ UNCHANGED file
    BY <1>1 DEF Start, Return
  <2>2. a \in Args
    BY InputAssumption
  <2>3. StoredMap' = StoredMap /\ Stage = "idle" /\ Stage' \in {"idle", "asked"}
    BY <2>1, MapStays DEF Stage
  <2> QED
    BY <2>1, <2>2, <2>3 DEF Abstract!Ask, StoredMap, Stage
<1>2. ASSUME pc \notin {"idle", "write"}, pc' = "idle", UNCHANGED <<file, args>>
      PROVE  Abstract!Refuse
  BY <1>2, StepRefuses DEF Abstract!Refuse, StoredMap, Stage
<1>3. ASSUME OpenOutput PROVE Abstract!Apply
  BY <1>3, OpenApplies DEF Abstract!Apply, StoredMap, Stage
<1>4. ASSUME WriteOutput PROVE Abstract!Written
  BY <1>4, WriteShows DEF Abstract!Written, StoredMap, Stage
<1>5. ASSUME WriteFails PROVE Abstract!Lose
  BY <1>5, FailLoses DEF Abstract!Lose, StoredMap, Stage
<1>6. CASE WalkEntry \/ check_args \/ BlobEntry \/ BlobEnds \/ UNCHANGED vars \/ Spin
  BY <1>6, StepUnseen DEF Spin
<1>7. CASE WalkEnds
  <2>1. CASE pc' = "check"
    BY <1>7, <2>1, StepUnseen
  <2>2. CASE pc' = "idle"
    BY <1>2, <1>7, <2>2 DEF WalkEnds
  <2> QED
    BY <1>7, <2>1, <2>2 DEF WalkEnds, Return
<1>8. CASE ArgsInvalid \/ OpenFails \/ (pc = "process" /\ (Raise \/ NothingDone))
  BY <1>2, <1>8 DEF ArgsInvalid, OpenFails, Raise, NothingDone, Return
<1>9. CASE pc = "process" /\ \E vs : Sync(vs)
  BY <1>9, StepUnseen
<1>10. CASE Add \/ Delete \/ Update
  BY <1>8, <1>9, <1>10 DEF Add, Delete, Update
<1> QED
  BY <1>1, <1>3, <1>4, <1>5, <1>6, <1>7, <1>8, <1>10 DEF Next, Invoke, Step, Work, IoError

\* The invariant of a call holds for ever when no input is larger than its region.
LEMMA CallInvariance == Spec /\ []NeverFull => []CallInv
<1>1. Init => CallInv
  BY DEF Init, CallInv
<1>2. ASSUME IInv, CallInv, NeverFull, [Next]_vars PROVE CallInv'
  <2>1. CASE UNCHANGED vars
    BY <1>2, <2>1 DEF vars, toolVars, CallInv
  <2> QED
    BY <1>2, <2>1, StartCall, CallGoesOn DEF Next, Invoke
<1> QED
  BY <1>1, <1>2, Invariance, PTL DEF Spec

\* var_enroll implements VarMap, for any images, requests and failing writes:
\* as long as every image that is read fits its region, walking, changing and
\* laying out the list again does to the variables what the request says, at
\* once, and a write that fails only loses variables.
THEOREM RefinesMap == Spec /\ []NeverFull => ImplementsMap
<1>1. Init => Abstract!Init
  BY DEF Init, Abstract!Init
<1>2. IInv /\ CallInv /\ [Next]_vars => [Abstract!Next]_<<StoredMap, args, Stage>>
  BY StepRefines
<1> QED
  BY <1>1, <1>2, Invariance, CallInvariance, PTL DEF Spec, ImplementsMap, Abstract!Spec, StoredMap, Stage

-----------------------------------------------------------------------------
(* Runs of secure_boot                                                     *)

\* The paths and the names of the keys.
LEMMA SbNamesAre ==
  /\ "input" \in Paths /\ "tmp" \in Paths /\ "output" \in Paths
  /\ \A i \in 1..5 : Order[i] \in SbNames
  /\ SbNames = {"PK", "KEK", "db", "dbx", "SecureBootEnable"}
  /\ \A n \in SbNames : n \in Names /\ Canonical(n) = n
<1>1. Order \in [1..5 -> {"PK", "KEK", "db", "dbx", "SecureBootEnable"}]
  BY DEF Order
<1>2. SbNames = {"PK", "KEK", "db", "dbx", "SecureBootEnable"}
  BY DEF SbNames, Order
<1>3. \A i \in 1..5 : Order[i] \in SbNames
  BY DEF SbNames
<1> QED
  BY <1>2, <1>3, SbAssumption DEF Canonical

\* The arguments of a call are those of a key that was given.
LEMMA ArgsForOk ==
  ASSUME sbconfig \in Configs, Valid(sbconfig), NEW n \in DOMAIN sbconfig
  PROVE  /\ ArgsFor(n) \in Args
         /\ ArgsFor(n).input = "tmp" /\ ArgsFor(n).output = "tmp"
         /\ ArgsFor(n).operation = "add"
<1>1. n \in SbNames
  BY SbAssumption
<1>2. sbconfig[n].guid \in Guids /\ sbconfig[n].file \in Files
  BY VarAssumption DEF Valid
<1> QED
  BY <1>1, <1>2, SbNamesAre DEF ArgsFor, Args, Ops

\* A step of a call keeps its arguments and the image it has read, and writes
\* to its output only.
LEMMA StepFrame ==
  ASSUME IInv, Step
  PROVE  /\ pc # "idle" /\ UNCHANGED <<args, fdData>>
         /\ \A p \in Paths : p # args.output => file'[p] = file[p]
<1>1. file \in [Paths -> FD]
  BY DEF IInv, TypeOK
<1>2. CASE Spin \/ WalkEntry \/ WalkEnds \/ check_args \/ ArgsInvalid
  BY <1>2 DEF Spin, vars, toolVars, WalkEntry, WalkEnds, check_args, ArgsInvalid
<1>3. CASE Add \/ Delete \/ Update
  BY <1>3 DEF Add, Delete, Update, Raise, NothingDone, Sync
<1>4. CASE BlobEntry \/ BlobEnds \/ OpenFails
  BY <1>4 DEF BlobEntry, BlobEnds, OpenFails
<1>5. CASE OpenOutput \/ WriteOutput \/ WriteFails
  BY <1>1, <1>5 DEF OpenOutput, WriteOutput, WriteFails
<1> QED
  BY <1>2, <1>3, <1>4, <1>5 DEF Step, Work, IoError

\* The initial states of a run.
LEMMA SbInitHolds == SbInit => RunInv /\ CallInv /\ EnrolInv
<1> SUFFICES ASSUME SbInit PROVE RunInv /\ CallInv /\ EnrolInv
  OBVIOUS
<1>1. IInv
  BY InitHolds DEF SbInit
<1>2. SbTypeOK
  BY <1>1, SbAssumption DEF SbInit, SbTypeOK, IInv
<1>3. RunInv
  BY <1>1, <1>2 DEF RunInv, SbInit, Init
<1>4. CallInv
  BY DEF CallInv, SbInit, Init
<1>5. EnrolInv
  BY DEF EnrolInv, SbInit
<1> QED
  BY <1>3, <1>4, <1>5

\* What every image of the tool has: it may be copied, torn or not.
LEMMA FilesSound ==
  ASSUME IInv, NEW p \in Paths
  PROVE  /\ file[p] \in FD /\ UniqueIn(file[p]) /\ PkSingle(file[p].vars) /\ Filled(file[p].vars)
         /\ \A t \in Torn(file[p]) :
              t \in FD /\ UniqueIn(t) /\ PkSingle(t.vars) /\ Filled(t.vars)
<1>1. file[p] \in FD /\ UniqueIn(file[p]) /\ PkSingle(file[p].vars) /\ Filled(file[p].vars)
  BY DEF IInv, TypeOK, FilesUnique, OnePlatformKey, FilesFilled
<1> QED
  BY <1>1, TornKeeps

\* A copy, finished or not, while no call runs.
LEMMA CopyHolds ==
  ASSUME IInv, pc = "idle", NEW p \in Paths, NEW q \in Paths,
         NEW fd \in {file[q], NoFile} \cup Torn(file[q]),
         file' = [file EXCEPT ![p] = fd], UNCHANGED toolVars
  PROVE  IInv'
<1>1. fd \in FD /\ UniqueIn(fd) /\ PkSingle(fd.vars) /\ Filled(fd.vars)
  BY FilesSound, EmptyIsFd
<1>2. result \in {"none", "true", "false", "raised"}
  BY DEF IInv, TypeOK
<1> QED
  BY <1>1, <1>2, WriteStep DEF toolVars

\* A killed run leaves sound files.
LEMMA KillHolds ==
  ASSUME RunInv, Kill
  PROVE  IInv'
<1>1. IInv /\ (phase # "calling" => pc = "idle")
  BY DEF RunInv
<1>2. pc' = "idle" /\ result' = "none" /\ UNCHANGED <<args, fdData, cursor, begin, vars_list>>
  BY DEF Kill
<1>3. ASSUME NEW p \in Paths, NEW fd \in FD, UniqueIn(fd), PkSingle(fd.vars), Filled(fd.vars),
             file' = [file EXCEPT ![p] = fd]
      PROVE  IInv'
  BY <1>1, <1>2, <1>3, WriteStep
<1>4. CASE UNCHANGED file
  <2>1. file \in [Paths -> FD] /\ "tmp" \in Paths
    BY <1>1, SbNamesAre DEF IInv, TypeOK
  <2>2. file' = [file EXCEPT !["tmp"] = file["tmp"]]
    BY <1>4, <2>1
  <2> QED
    BY <1>1, <1>3, <2>1, <2>2, FilesSound
<1>5. CASE \E fd \in Torn(Buffer) : file' = [file EXCEPT !["tmp"] = fd]
  <2>1. Buffer \in FD /\ UniqueIn(Buffer) /\ PkSingle(Buffer.vars) /\ Filled(Buffer.vars)
    BY <1>1, BufferKeeps DEF IInv, TypeOK
  <2> QED
    BY <1>3, <1>5, <2>1, TornKeeps, SbNamesAre
<1>6. CASE \E fd \in Torn(file["input"]) : file' = [file EXCEPT !["tmp"] = fd]
  BY <1>1, <1>3, <1>6, FilesSound, SbNamesAre
<1>7. CASE \E fd \in Torn(file["tmp"]) : file' = [file EXCEPT !["output"] = fd]
  BY <1>1, <1>3, <1>7, FilesSound, SbNamesAre
<1> QED
  BY <1>4, <1>5, <1>6, <1>7 DEF Kill, CutOff

\* Every step of a run keeps its invariant, whatever fails.
LEMMA RunHolds == RunInv /\ [SbNext]_sbVars => RunInv'
<1> SUFFICES ASSUME RunInv, [SbNext]_sbVars PROVE RunInv'
  OBVIOUS
<1>1. /\ SbTypeOK /\ IInv /\ (phase # "idle" => sbconfig \in Configs /\ Valid(sbconfig))
      /\ (phase # "calling" => pc = "idle") /\ (phase = "copyIn" => step = 1)
      /\ (phase = "calling" => Order[step] \in DOMAIN sbconfig /\ args = ArgsFor(Order[step]))
      /\ step \in 1..5 /\ faults \in 0..MaxFaults /\ MaxFaults \in Nat
  BY SbAssumption DEF RunInv, SbTypeOK
<1>2. ASSUME IInv' PROVE TypeOK'
  BY <1>2 DEF IInv
<1>3. CASE UNCHANGED sbVars
  <2>1. IInv'
    BY <1>1, <1>3, UnchangedHolds DEF sbVars
  <2> QED
    BY <1>1, <1>2, <1>3, <2>1 DEF RunInv, SbTypeOK, sbVars, runVars, vars, toolVars, ArgsFor, Valid
<1>4. ASSUME NEW c \in Configs, main(c) PROVE RunInv'
  <2>1. IInv' /\ UNCHANGED vars
    BY <1>1, <1>4, UnchangedHolds DEF main
  <2>2. SbTypeOK'
    BY <1>1, <1>2, <1>4, <2>1 DEF SbTypeOK, main, End
  <2>3. phase' \in {"idle", "copyIn"} /\ (phase' # "idle" => Valid(sbconfig)') /\ step' = 1
    BY <1>4 DEF main, End, Valid
  <2>4. pc' = "idle"
    BY <1>1, <1>4, <2>1 DEF main, vars, toolVars
  <2> QED
    BY <2>4, <2>1, <2>2, <2>3 DEF RunInv
<1>5. CASE CopyIn
  <2>1. IInv'
    BY <1>1, <1>5, CopyHolds, SbNamesAre DEF CopyIn
  <2>2. SbTypeOK'
    BY <1>1, <1>2, <1>5, <2>1 DEF SbTypeOK, CopyIn
  <2> QED
    BY <1>1, <1>5, <2>1, <2>2 DEF RunInv, CopyIn, toolVars, Valid
<1>6. CASE Skip
  <2>1. IInv' /\ pc' = pc
    BY <1>1, <1>6, UnchangedHolds DEF Skip, vars, toolVars
  <2>2. step # 5
    BY <1>1, <1>6, SbAssumption DEF Skip, Order
  <2>3. SbTypeOK'
    BY <1>1, <1>2, <1>6, <2>1, <2>2 DEF SbTypeOK, Skip
  <2> QED
    BY <1>1, <1>6, <2>1, <2>3 DEF RunInv, Skip, Valid
<1>7. CASE Call
  <2>1. ArgsFor(Order[step]) \in Args
    BY <1>1, <1>7, ArgsForOk DEF Call
  <2>2. IInv'
    BY <1>1, <1>7, <2>1, StartStep DEF Call
  <2>3. SbTypeOK'
    BY <1>1, <1>2, <1>7, <2>2 DEF SbTypeOK, Call
  <2>4. args' = ArgsFor(Order[step])'
    BY <1>7 DEF Call, Start, ArgsFor
  <2> QED
    BY <1>1, <1>7, <2>2, <2>3, <2>4 DEF RunInv, Call, Valid
<1>8. CASE Tool \/ ToolIoError
  <2>1. Step /\ phase = "calling" /\ UNCHANGED <<phase, sbconfig, step, outcome, outPath>>
        /\ faults' \in 0..MaxFaults /\ clean' \in BOOLEAN
    <3>1. clean \in BOOLEAN
      BY <1>1 DEF SbTypeOK
    <3>2. CASE Tool
      BY <1>1, <3>1, <3>2 DEF Tool, runVars, Step
    <3>3. CASE ToolIoError
      <4>1. faults' \in 0..MaxFaults
        BY <1>1, <3>3 DEF ToolIoError
      <4> QED
        BY <3>3, <4>1 DEF ToolIoError, Step
    <3> QED
      BY <1>8, <3>2, <3>3
  <2>2. IInv' /\ args' = args
    BY <1>1, <2>1, CallHolds, StepFrame
  <2>3. SbTypeOK'
    BY <1>1, <1>2, <2>1, <2>2 DEF SbTypeOK
  <2>4. args' = ArgsFor(Order[step])'
    BY <1>1, <2>1, <2>2 DEF ArgsFor
  <2> QED
    BY <1>1, <2>4, <2>1, <2>2, <2>3 DEF RunInv, Valid
<1>9. CASE Returned
  <2>1. IInv' /\ pc' = "idle" /\ result \in {"none", "true", "false", "raised"}
    BY <1>1, <1>9, UnchangedHolds DEF Returned, vars, toolVars, IInv, TypeOK
  <2>2. SbTypeOK'
    BY <1>1, <1>2, <1>9, <2>1 DEF SbTypeOK, Returned, End
  <2>3. phase' \in {"idle", "copyOut", "enroll"} /\ UNCHANGED sbconfig
    BY <1>9 DEF Returned, End
  <2> QED
    BY <1>1, <1>9, <2>1, <2>2, <2>3 DEF RunInv, Valid, Returned
<1>10. CASE CopyOut
  <2>1. IInv'
    <3>1. CASE outPath = "tmp"
      BY <1>1, <1>10, <3>1, UnchangedHolds DEF CopyOut, vars
    <3>2. CASE outPath # "tmp"
      BY <1>1, <1>10, <3>2, CopyHolds, SbNamesAre DEF CopyOut
    <3> QED
      BY <3>1, <3>2
  <2>2. SbTypeOK' /\ phase' \in {"idle", "remove"} /\ UNCHANGED <<pc, sbconfig>>
    BY <1>1, <1>2, <1>10, <2>1 DEF SbTypeOK, CopyOut, End, toolVars
  <2> QED
    BY <1>1, <1>10, <2>1, <2>2 DEF RunInv, Valid, CopyOut
<1>11. CASE Remove
  <2>1. IInv'
    BY <1>1, <1>11, CopyHolds, SbNamesAre DEF Remove
  <2>2. SbTypeOK' /\ phase' = "idle" /\ UNCHANGED <<pc, sbconfig>>
    BY <1>1, <1>2, <1>11, <2>1 DEF SbTypeOK, Remove, End, toolVars
  <2> QED
    BY <1>1, <1>11, <2>1, <2>2 DEF RunInv, Remove
<1>12. CASE CopyFails
  <2>1. IInv'
    <3>1. pc = "idle" /\ UNCHANGED toolVars
      BY <1>1, <1>12 DEF CopyFails
    <3>2. CASE \E fd \in Torn(file["input"]) : file' = [file EXCEPT !["tmp"] = fd]
      BY <1>1, <3>1, <3>2, CopyHolds, SbNamesAre
    <3>3. CASE \E fd \in Torn(file["tmp"]) : file' = [file EXCEPT !["output"] = fd]
      BY <1>1, <3>1, <3>3, CopyHolds, SbNamesAre
    <3>4. CASE UNCHANGED file
      BY <1>1, <3>1, <3>4, UnchangedHolds DEF vars
    <3> QED
      BY <1>12, <3>2, <3>3, <3>4 DEF CopyFails, CutOff
  <2>2. /\ phase' = "idle" /\ outcome' = "raised" /\ clean' = FALSE /\ faults' \in 0..MaxFaults
        /\ UNCHANGED <<pc, sbconfig, step, outPath>>
    <3>1. faults' \in 0..MaxFaults
      BY <1>1, <1>12 DEF CopyFails
    <3> QED
      BY <1>12, <3>1 DEF CopyFails, End, toolVars
  <2>3. SbTypeOK'
    BY <1>1, <1>2, <2>1, <2>2 DEF SbTypeOK
  <2> QED
    BY <1>1, <1>12, <2>1, <2>2, <2>3 DEF RunInv, CopyFails
<1>13. CASE Kill
  <2>1. IInv'
    BY <1>13, KillHolds
  <2>2. SbTypeOK' /\ phase' = "idle" /\ pc' = "idle"
    BY <1>1, <1>2, <1>13, <2>1 DEF SbTypeOK, Kill, End
  <2> QED
    BY <2>1, <2>2 DEF RunInv
<1>14. CASE RemoveFails
  <2>1. IInv'
    BY <1>1, <1>14, UnchangedHolds DEF RemoveFails
  <2>2. faults' \in 0..MaxFaults
    BY <1>1, <1>14 DEF RemoveFails
  <2>3. SbTypeOK' /\ phase' = "idle" /\ UNCHANGED <<pc, sbconfig>>
    BY <1>1, <1>2, <1>14, <2>1, <2>2 DEF SbTypeOK, RemoveFails, End, vars, toolVars
  <2> QED
    BY <1>1, <1>14, <2>1, <2>3 DEF RunInv, RemoveFails
<1> QED
  BY <1>3, <1>4, <1>5, <1>6, <1>7, <1>8, <1>9, <1>10, <1>11, <1>12, <1>13, <1>14 DEF SbNext, Run

\* A call works on what it should work on during a run, too.
LEMMA RunCalls == RunInv /\ CallInv /\ NeverFull /\ [SbNext]_sbVars => CallInv'
<1> SUFFICES ASSUME RunInv, CallInv, NeverFull, [SbNext]_sbVars PROVE CallInv'
  OBVIOUS
<1>1. IInv /\ (phase # "calling" => pc = "idle")
  BY DEF RunInv
<1>2. CASE UNCHANGED vars
  BY <1>2 DEF vars, toolVars, CallInv
<1>3. CASE pc' = "idle"
  BY <1>3 DEF CallInv
<1>4. CASE (\E c \in Configs : main(c)) \/ Skip \/ Returned \/ RemoveFails \/ UNCHANGED sbVars
  BY <1>2, <1>4 DEF main, Skip, Returned, RemoveFails, sbVars
<1>5. CASE CopyIn \/ CopyOut \/ Remove \/ CopyFails \/ Kill
  BY <1>1, <1>3, <1>5 DEF CopyIn, CopyOut, Remove, CopyFails, Kill, toolVars
<1>6. CASE Call
  BY <1>6, StartCall DEF Call
<1>7. CASE Tool \/ ToolIoError
  BY <1>1, <1>7, CallGoesOn DEF Tool, ToolIoError, Step
<1> QED
  BY <1>4, <1>5, <1>6, <1>7 DEF SbNext, Run

\* Enrolling one more key.
LEMMA EnrolMore ==
  ASSUME RunInv, phase = "calling"
  PROVE  Abstract!Applied(args, UpTo(step)) = UpTo(step + 1)
<1> DEFINE n == Order[step]
           c == sbconfig
           m == Content(file["input"])
           names == {Order[i] : i \in 1..(step - 1)} \cap DOMAIN sbconfig
           key == <<n, VendorGuid(n, c[n].guid)>>
           payload == [owner |-> IF n \in {"PK", "KEK", "db"} THEN c[n].guid ELSE "none",
                       file |-> c[n].file]
           f == EnrolledOf(m, c, names)
           g == EnrolledOf(m, c, names \cup {n})
<1>1. /\ step \in 1..5 /\ n \in DOMAIN sbconfig /\ args = ArgsFor(n)
      /\ sbconfig \in Configs /\ Valid(sbconfig)
  BY DEF RunInv, SbTypeOK
<1>2. n \in SbNames /\ Canonical(n) = n
  BY <1>1, SbNamesAre
<1>3. Abstract!Target(args) = key /\ PayloadOf(args) = payload /\ args.operation = "add"
  BY <1>1, <1>2 DEF Abstract!Target, PayloadOf, ArgsFor
<1>4. {Order[i] : i \in 1..((step + 1) - 1)} \cap DOMAIN sbconfig = names \cup {n}
  BY <1>1
<1>5. UpTo(step) = f /\ UpTo(step + 1) = g
  BY <1>4 DEF UpTo
<1>6. Abstract!Applied(args, f) = [f EXCEPT ![key] = <<payload>>]
  BY <1>3 DEF Abstract!Applied, Abstract!Put
<1> HIDE DEF names, m, c, n
<1>7. \A k \in DOMAIN m : g[k] = IF k = key THEN <<payload>> ELSE f[k]
  <2> SUFFICES ASSUME NEW k \in DOMAIN m PROVE g[k] = IF k = key THEN <<payload>> ELSE f[k]
    OBVIOUS
  <2>1. key[1] = n
    OBVIOUS
  <2>2. CASE k = key
    BY <2>1, <2>2 DEF EnrolledOf
  <2>3. CASE k # key
    BY <2>3 DEF EnrolledOf
  <2> QED
    BY <2>2, <2>3
<1>8. f = [k \in DOMAIN m |-> f[k]] /\ g = [k \in DOMAIN m |-> g[k]]
  BY DEF EnrolledOf
<1> HIDE DEF f, g, key, payload
<1>9. g = [f EXCEPT ![key] = <<payload>>]
  BY <1>7, <1>8
<1> QED
  BY <1>5, <1>6, <1>9

\* Before the first key nothing has changed, and after the last all are enrolled.
LEMMA EnrolEnds ==
  ASSUME sbconfig \in Configs
  PROVE  /\ UpTo(1) = Content(file["input"])
         /\ UpTo(6) = Enrolled(Content(file["input"]), sbconfig)
<1> DEFINE m == Content(file["input"])
<1>1. m = [k \in DOMAIN m |-> m[k]]
  BY DEF Content
<1> HIDE DEF m
<1>2. {Order[i] : i \in 1..(1 - 1)} \cap DOMAIN sbconfig = {}
  OBVIOUS
<1>3. {Order[i] : i \in 1..(6 - 1)} \cap DOMAIN sbconfig = DOMAIN sbconfig
  BY SbAssumption DEF SbNames
<1>4. EnrolledOf(m, sbconfig, {}) = m
  BY <1>1 DEF EnrolledOf
<1> QED
  BY <1>2, <1>3, <1>4 DEF UpTo, Enrolled, m

\* A key that was not given changes nothing.
LEMMA EnrolSkips ==
  ASSUME step \in 1..5, Order[step] \notin DOMAIN sbconfig
  PROVE  UpTo(step + 1) = UpTo(step)
<1>1. {Order[i] : i \in 1..((step + 1) - 1)} \cap DOMAIN sbconfig =
      {Order[i] : i \in 1..(step - 1)} \cap DOMAIN sbconfig
  OBVIOUS
<1> QED
  BY <1>1 DEF UpTo

\* A step of the call that returns True, no write having failed, has written
\* the image with the key, and nothing behind the region.
LEMMA CallEnrols ==
  ASSUME RunInv, CallInv, RoomInv, phase = "calling", Work, pc' = "idle", result' = "true"
  PROVE  /\ Content(file'["tmp"]) = Abstract!Applied(args, Content(fdData))
         /\ file'["tmp"].tail = fdData.tail
<1>1. /\ IInv /\ args.operation = "add" /\ args.output = "tmp" /\ file \in [Paths -> FD]
      /\ vars_list \in Seq(Var)
  BY ArgsForOk DEF RunInv, SbTypeOK, IInv, TypeOK
<1>2. WriteOutput
  BY <1>1 DEF Work, Spin, vars, toolVars, WalkEntry, WalkEnds, check_args, ArgsInvalid, Add,
     Delete, Update, Sync, Raise, BlobEntry, BlobEnds, OpenOutput, Return
<1>3. file'["tmp"] = Buffer /\ pc = "write"
  BY <1>1, <1>2, SbNamesAre DEF WriteOutput
<1>4. begin <= Capacity
  <2>1. begin \in Nat /\ step \in 1..5 /\ Capacity \in Nat /\ begin <= Room(step + 1)
    BY <1>3, VarAssumption DEF RunInv, SbTypeOK, IInv, TypeOK, RoomInv
  <2> QED
    BY <2>1 DEF Room
<1>5. Buffer.tail = fdData.tail
  <2>1. begin \in Nat /\ Capacity \in Nat
    BY VarAssumption DEF RunInv, IInv, TypeOK
  <2> QED
    BY <1>4, <2>1 DEF Buffer
<1> QED
  BY <1>1, <1>3, <1>5, BufferSays DEF CallInv

\* Every step of a run keeps the temporary file as it should be.
LEMMA RunEnrols == RunInv /\ CallInv /\ RoomInv /\ EnrolInv /\ [SbNext]_sbVars => EnrolInv'
<1> SUFFICES ASSUME RunInv, CallInv, RoomInv, EnrolInv, [SbNext]_sbVars, clean' PROVE EnrolInv'
  BY DEF EnrolInv
<1>1. /\ IInv /\ (phase # "idle" => sbconfig \in Configs /\ Valid(sbconfig))
      /\ (phase # "calling" => pc = "idle") /\ (phase = "copyIn" => step = 1)
      /\ (phase = "calling" => Order[step] \in DOMAIN sbconfig /\ args = ArgsFor(Order[step]))
      /\ step \in 1..5 /\ file \in [Paths -> FD]
  BY DEF RunInv, SbTypeOK, IInv, TypeOK
<1>2. ASSUME file'["input"] = file["input"], sbconfig' = sbconfig
      PROVE  \A s : UpTo(s)' = UpTo(s)
  BY <1>2 DEF UpTo
<1>3. ASSUME file'["input"] = file["input"], sbconfig' = sbconfig, NEW p,
             file'[p] = file[p], AllEnrolled(p)
      PROVE  AllEnrolled(p)'
  BY <1>3 DEF AllEnrolled
<1>4. CASE UNCHANGED sbVars
  BY <1>4 DEF sbVars, vars, toolVars, runVars, EnrolInv, Progress, UpTo, AllEnrolled
<1>5. CASE \E c \in Configs : main(c)
  BY <1>5 DEF main, End, EnrolInv
<1>6. CASE CopyIn
  <2>1. /\ file'["tmp"] = file["input"] /\ file'["input"] = file["input"]
        /\ UNCHANGED <<sbconfig, step>> /\ phase = "copyIn" /\ phase' = "enroll"
    BY <1>1, <1>6, SbNamesAre DEF CopyIn
  <2>2. Content(file'["tmp"]) = UpTo(step)
    BY <1>1, <2>1, EnrolEnds
  <2>3. Progress(file["tmp"], step)'
    BY <2>1, <2>2 DEF Progress, UpTo
  <2> QED
    BY <2>1, <2>3 DEF EnrolInv
<1>7. CASE Skip
  <2>1. UNCHANGED <<file, sbconfig>> /\ step' = step + 1 /\ phase = "enroll" /\ phase' = "enroll"
        /\ clean
    BY <1>7 DEF Skip, vars
  <2>2. Progress(file["tmp"], step + 1)
    BY <1>1, <1>7, <2>1, EnrolSkips DEF Skip, EnrolInv, Progress
  <2>3. Progress(file["tmp"], step)'
    BY <2>1, <2>2 DEF Progress, UpTo
  <2> QED
    BY <2>1, <2>3 DEF EnrolInv
<1>8. CASE Call
  <2>1. /\ UNCHANGED <<file, sbconfig, step>> /\ phase = "enroll" /\ phase' = "calling" /\ clean
        /\ fdData' = file["tmp"] /\ (pc' = "idle" => result' # "true")
    <3>1. ArgsFor(Order[step]).input = "tmp"
      BY DEF ArgsFor
    <3> QED
      BY <1>8, <3>1 DEF Call, Start, Return
  <2>2. Progress(fdData, step)'
    BY <2>1 DEF EnrolInv, Progress, UpTo
  <2> QED
    BY <2>1, <2>2 DEF EnrolInv
<1>9. CASE Tool
  <2>1. Work /\ UNCHANGED <<phase, sbconfig, step, clean>> /\ phase = "calling" /\ clean
    BY <1>9 DEF Tool, runVars
  <2>2. args.output = "tmp"
    BY <1>1, <2>1 DEF ArgsFor
  <2>3. pc # "idle" /\ fdData' = fdData /\ file'["input"] = file["input"]
    BY <1>1, <2>1, <2>2, StepFrame, SbNamesAre DEF Step
  <2>4. Progress(fdData, step)
    BY <2>1, <2>3 DEF EnrolInv
  <2>5. Progress(fdData, step)'
    BY <2>1, <2>3, <2>4 DEF Progress, UpTo
  <2>6. ASSUME pc' = "idle", result' = "true" PROVE Progress(file["tmp"], step + 1)'
    <3>1. Content(file'["tmp"]) = UpTo(step + 1) /\ file'["tmp"].tail = fdData.tail
      BY <2>1, <2>4, <2>6, CallEnrols, EnrolMore DEF Progress
    <3> QED
      BY <2>1, <2>3, <2>4, <3>1 DEF Progress, UpTo
  <2> QED
    BY <2>1, <2>5, <2>6 DEF EnrolInv
<1>10. CASE Returned
  <2>1. UNCHANGED <<file, sbconfig, result>> /\ clean /\ phase = "calling" /\ pc = "idle"
    BY <1>10 DEF Returned, vars, toolVars
  <2>2. CASE result # "true"
    BY <1>10, <2>2 DEF Returned, End, EnrolInv
  <2>3. CASE result = "true"
    <3>1. Progress(file["tmp"], step + 1)
      BY <2>1, <2>3 DEF EnrolInv
    <3>2. CASE step = 5
      <4>1. AllEnrolled("tmp")
        BY <1>1, <2>1, <3>1, <3>2, EnrolEnds DEF AllEnrolled, Progress
      <4>2. AllEnrolled("tmp")'
        BY <2>1, <4>1 DEF AllEnrolled
      <4>3. phase' = "copyOut"
        BY <1>10, <2>3, <3>2 DEF Returned
      <4> QED
        BY <4>2, <4>3 DEF EnrolInv
    <3>3. CASE step # 5
      <4>1. phase' = "enroll" /\ step' = step + 1
        BY <1>10, <2>3, <3>3 DEF Returned
      <4>2. Progress(file["tmp"], step)'
        BY <2>1, <3>1, <4>1 DEF Progress, UpTo
      <4> QED
        BY <4>1, <4>2 DEF EnrolInv
    <3> QED
      BY <3>2, <3>3
  <2> QED
    BY <2>2, <2>3
<1>11. CASE CopyOut
  <2>1. CASE outPath = "tmp"
    BY <1>11, <2>1 DEF CopyOut, End, EnrolInv
  <2>2. CASE outPath # "tmp"
    <3>1. /\ file'["output"] = file["tmp"] /\ file'["input"] = file["input"]
          /\ UNCHANGED sbconfig /\ phase = "copyOut" /\ phase' = "remove" /\ clean
      BY <1>1, <1>11, <2>2, SbNamesAre DEF CopyOut
    <3>2. AllEnrolled("tmp")
      BY <3>1 DEF EnrolInv
    <3>3. AllEnrolled("output")'
      BY <3>1, <3>2 DEF AllEnrolled
    <3> QED
      BY <3>1, <3>3 DEF EnrolInv
  <2> QED
    BY <2>1, <2>2
<1>12. CASE Remove
  <2>1. /\ file'["output"] = file["output"] /\ file'["input"] = file["input"]
        /\ UNCHANGED sbconfig /\ phase = "remove" /\ phase' = "idle" /\ clean
    BY <1>1, <1>12, SbNamesAre DEF Remove, End
  <2>2. AllEnrolled("output")'
    BY <1>3, <2>1 DEF EnrolInv
  <2> QED
    BY <2>1, <2>2 DEF EnrolInv
<1>13. CASE ToolIoError \/ CopyFails
  BY <1>13 DEF ToolIoError, CopyFails
<1>14. CASE Kill \/ RemoveFails
  BY <1>14 DEF Kill, RemoveFails, End, EnrolInv
<1> QED
  BY <1>4, <1>5, <1>6, <1>7, <1>8, <1>9, <1>10, <1>11, <1>12, <1>13, <1>14 DEF SbNext, Run

\* The invariant of the runs of secure_boot, whatever fails and whoever is killed.
THEOREM RunInvariance == SbSpec => []RunInv
<1> QED
  BY SbInitHolds, RunHolds, PTL DEF SbSpec

\* The files of secure_boot stay sound: no run, killed or failing at any moment,
\* leaves a variable twice or a PK of several keys in any of them, the temporary
\* file included.
THEOREM RunsKeepFiles == SbSpec => [](FilesUnique /\ OnePlatformKey)
<1>1. RunInv => FilesUnique /\ OnePlatformKey
  BY DEF RunInv, IInv
<1> QED
  BY <1>1, RunInvariance, PTL

\* What the steps of secure_boot write: never the input, and the output only to
\* copy the temporary file there.
LEMMA OutputStep ==
  ASSUME RunInv, [SbNext]_sbVars
  PROVE  /\ file'["input"] = file["input"]
         /\ file'["output"] # file["output"] => phase = "copyOut"
<1>1. /\ IInv /\ (phase = "calling" => args = ArgsFor(Order[step]))
      /\ (phase # "calling" => pc = "idle") /\ file \in [Paths -> FD]
  BY DEF RunInv, IInv, TypeOK
<1>2. CASE UNCHANGED file
  BY <1>2
<1>3. CASE (\E c \in Configs : main(c)) \/ Skip \/ Returned \/ Call \/ RemoveFails \/ UNCHANGED sbVars
  BY <1>2, <1>3 DEF main, Skip, Returned, Call, Start, RemoveFails, sbVars, vars
<1>4. CASE CopyIn \/ CopyOut \/ Remove \/ CopyFails
  BY <1>1, <1>4, SbNamesAre DEF CopyIn, CopyOut, Remove, CopyFails, CutOff
<1>5. CASE Tool \/ ToolIoError
  <2>1. Step /\ args.output = "tmp"
    BY <1>1, <1>5 DEF Tool, ToolIoError, Step, ArgsFor
  <2> QED
    BY <1>1, <2>1, StepFrame, SbNamesAre
<1>6. CASE Kill
  BY <1>1, <1>6, SbNamesAre DEF Kill, CutOff
<1> QED
  BY <1>3, <1>4, <1>5, <1>6 DEF SbNext, Run

\* The input of secure_boot is never written, whatever fails and whatever the
\* size of the images: the output can be made again.
THEOREM InputIsKept == SbSpec => [][file'["input"] = file["input"]]_sbVars
<1>1. RunInv /\ [SbNext]_sbVars => [file'["input"] = file["input"]]_sbVars
  BY OutputStep
<1> QED
  BY <1>1, RunInvariance, PTL DEF SbSpec

-----------------------------------------------------------------------------
(* The room that a run needs                                               *)

\* Lists whose sizes are numbers: variables and the entries of an image.
Sized(vs) == Len(vs) \in Nat /\ \A i \in 1..Len(vs) : Size(vs[i]) \in Nat \ {0}

LEMMA VarsSized == ASSUME NEW vs \in Seq(Var) PROVE Sized(vs)
<1>1. Len(vs) \in Nat /\ \A i \in 1..Len(vs) : vs[i] \in Var
  BY ElementOfSeq, LenProperties
<1>2. \A v \in Var : Len(v.data) \in Nat
  BY LenProperties DEF Var
<1> QED
  BY <1>1, <1>2 DEF Sized, Size

LEMMA EntriesSized == ASSUME NEW fd \in FD PROVE Sized(fd.vars)
<1>1. fd.vars \in Seq(Entry)
  BY DEF FD
<1>2. Len(fd.vars) \in Nat /\ \A i \in 1..Len(fd.vars) : fd.vars[i] \in Entry
  BY <1>1, ElementOfSeq, LenProperties
<1>3. \A e \in Entry : Len(e.data) \in Nat
  BY LenProperties DEF Entry
<1> QED
  BY <1>2, <1>3 DEF Sized, Size

\* A list whose variables are no larger than those of another fits where that
\* one does, and in more room.
LEMMA FitsLess ==
  ASSUME NEW vs, NEW ws, Sized(vs), Sized(ws), NEW n \in Int, NEW m \in Int, n <= m,
         Len(ws) <= Len(vs), \A i \in 1..Len(ws) : Size(ws[i]) <= Size(vs[i]), Fits(vs, n)
  PROVE  Fits(ws, m)
<1>1. PICK s \in [0..Len(vs) -> 0..n] : \A i \in 1..Len(vs) : s[i - 1] + Size(vs[i]) <= s[i]
  BY DEF Fits, Layouts
<1> DEFINE t == [i \in 0..Len(ws) |-> s[i]]
<1>2. Len(vs) \in Nat /\ Len(ws) \in Nat
  BY DEF Sized
<1>3. t \in [0..Len(ws) -> 0..m]
  BY <1>1, <1>2
<1>4. \A i \in 1..Len(ws) : /\ i \in 1..Len(vs) /\ i \in 0..Len(vs) /\ i - 1 \in 0..Len(vs)
                            /\ t[i - 1] = s[i - 1] /\ t[i] = s[i]
  BY <1>2
<1>5. \A i \in 1..Len(ws) : s[i] \in Int /\ s[i - 1] \in Int /\ Size(ws[i]) \in Int /\ Size(vs[i]) \in Int
  <2>1. \A i \in 1..Len(ws) : Size(ws[i]) \in Int /\ Size(vs[i]) \in Int
    BY <1>4 DEF Sized
  <2>2. \A i \in 1..Len(ws) : s[i] \in 0..n /\ s[i - 1] \in 0..n
    BY <1>1, <1>4
  <2> QED
    BY <2>1, <2>2
<1> HIDE DEF t
<1>6. \A i \in 1..Len(ws) : t[i - 1] + Size(ws[i]) <= t[i]
  BY <1>1, <1>4, <1>5
<1> QED
  BY <1>3, <1>6 DEF Fits, Layouts

LEMMA FitsMore ==
  ASSUME NEW vs, Sized(vs), NEW n \in Int, NEW m \in Int, n <= m, Fits(vs, n)
  PROVE  Fits(vs, m)
<1>1. Len(vs) <= Len(vs) /\ \A i \in 1..Len(vs) : Size(vs[i]) <= Size(vs[i])
  BY DEF Sized
<1> QED
  BY <1>1, FitsLess

\* The empty list fits anywhere.
LEMMA FitsEmpty == ASSUME NEW n \in Nat PROVE Fits(<<>>, n)
<1> DEFINE t == [i \in 0..0 |-> 0]
<1>1. t \in [0..0 -> 0..n] /\ Len(<<>>) = 0 /\ 1..0 = {}
  OBVIOUS
<1> HIDE DEF t
<1>2. t \in Layouts(<<>>, n)
  BY <1>1 DEF Layouts
<1> QED
  BY <1>2 DEF Fits

\* One more variable takes as many units as it has.
LEMMA FitsOneMore ==
  ASSUME NEW vs \in Seq(Var), NEW v \in Var, NEW n \in Int, Fits(vs, n)
  PROVE  Fits(Append(vs, v), n + Size(v))
<1> DEFINE k == Len(vs)
           ws == Append(vs, v)
<1>1. /\ k \in Nat /\ Sized(vs) /\ Sized(ws)
      /\ Len(ws) = k + 1 /\ (\A i \in 1..k : ws[i] = vs[i]) /\ ws[k + 1] = v
  <2>1. ws \in Seq(Var) /\ Len(ws) = k + 1 /\ (\A i \in 1..k : ws[i] = vs[i]) /\ ws[k + 1] = v
    BY AppendProperties
  <2>2. Sized(vs) /\ Sized(ws)
    BY <2>1, VarsSized
  <2> QED
    BY <2>1, <2>2, LenProperties
<1>2. PICK s \in [0..k -> 0..n] : \A i \in 1..k : s[i - 1] + Size(vs[i]) <= s[i]
  BY DEF Fits, Layouts
<1> HIDE DEF k, ws
<1>3. Size(v) \in Nat
  <2>1. k + 1 \in 1..Len(ws)
    BY <1>1
  <2> QED
    BY <1>1, <2>1 DEF Sized
<1> DEFINE t == [i \in 0..(k + 1) |-> IF i = k + 1 THEN s[k] + Size(v) ELSE s[i]]
<1>4. s[k] \in 0..n
  BY <1>1, <1>2
<1>5. t \in [0..(k + 1) -> 0..(n + Size(v))]
  BY <1>1, <1>2, <1>3, <1>4
<1>6. \A i \in 1..(k + 1) : t[i - 1] + Size(ws[i]) <= t[i]
  <2> TAKE i \in 1..(k + 1)
  <2>1. CASE i = k + 1
    BY <1>1, <1>3, <1>4, <2>1
  <2>2. CASE i # k + 1
    <3>1. i \in 1..k /\ i - 1 \in 0..k /\ i \in 0..k /\ i - 1 # k + 1
      BY <1>1, <2>2
    <3> QED
      BY <1>1, <1>2, <3>1
  <2> QED
    BY <2>1, <2>2
<1> QED
  BY <1>1, <1>5, <1>6 DEF Fits, Layouts, ws

\* Enrolling a key takes two units at most: it replaces one that was there.
LEMMA FitsEnrolled ==
  ASSUME NEW vs \in Seq(Var), Uniq(vs), Filled(vs), NEW a \in Args, NEW n \in Int, Fits(vs, n)
  PROVE  Fits(Enroll(vs, a, FALSE), n + 2)
<1> DEFINE name == Canonical(a.name)
           guid == VendorGuid(a.name, a.guid)
           payload == PayloadOf(a)
           new == AddVariable(vs, name, guid, payload, FALSE)
<1>1. name \in AllNames /\ guid \in AllGuids /\ payload \in Payload
  BY DEF Args, Canonical, AllNames, KeyNames, VendorGuid, AllGuids, PayloadOf, Payload
<1>2. <<payload>> \in Seq(Payload) /\ Len(<<payload>>) = 1
  BY <1>1
<1> SUFFICES Fits(new, n + 2)
  BY DEF Enroll
<1> HIDE DEF name, guid, payload
<1>3. CASE Matches(vs, name, guid) = {}
  <2> DEFINE v == [name |-> name, guid |-> guid, data |-> <<payload>>]
  <2>1. v \in Var /\ Size(v) = 2
    BY <1>1, <1>2 DEF Var, Size
  <2>2. new = Append(vs, v)
    BY <1>3 DEF AddVariable
  <2> QED
    BY <2>1, <2>2, FitsOneMore
<1>4. CASE Matches(vs, name, guid) # {}
  <2> DEFINE i == find_var_in_list(vs, name, guid)
             v == [vs[i] EXCEPT !.data = <<payload>>]
  <2>1. Sized(vs) /\ Len(vs) \in Nat /\ \A j \in 1..Len(vs) : vs[j] \in Var
    BY VarsSized, ElementOfSeq DEF Sized
  <2>2. i \in 1..Len(vs)
    BY <1>4, <2>1, FindMatches DEF Matches
  <2>3. v \in Var /\ v.data = <<payload>>
    BY <1>2, <2>1, <2>2 DEF Var
  <2>4. new = [vs EXCEPT ![i] = v]
    BY <1>4, <2>2 DEF AddVariable, Updated
  <2>5. Size(v) = 2
    BY <1>2, <2>3 DEF Size
  <2>6. Size(vs[i]) \in Nat /\ Size(vs[i]) >= 2
    <3>1. vs[i].data \in Seq(Payload) /\ vs[i].data # <<>>
      BY <2>1, <2>2 DEF Var, Filled
    <3>2. Len(vs[i].data) \in Nat /\ Len(vs[i].data) # 0
      BY <3>1, EmptySeq, LenProperties
    <3> QED
      BY <3>2 DEF Size
  <2> HIDE DEF i, v, new
  <2>7. new \in Seq(Var) /\ Len(new) = Len(vs) /\ \A j \in 1..Len(vs) : new[j] = IF j = i THEN v ELSE vs[j]
    BY <2>2, <2>3, <2>4, ExceptSeq
  <2>8. Sized(new)
    BY <2>7, VarsSized
  <2>9. \A j \in 1..Len(new) : Size(new[j]) <= Size(vs[j])
    BY <2>7, <2>6, <2>5, <2>2, <2>1 DEF Sized
  <2>10. Len(new) <= Len(vs) /\ n <= n + 2 /\ n + 2 \in Int
    BY <2>1, <2>7
  <2> QED
    BY <2>1, <2>8, <2>9, <2>10, FitsLess DEF new
<1> QED
  BY <1>3, <1>4

\* What a write that stops half way leaves fits, too.
LEMMA FitsTorn ==
  ASSUME NEW fd \in FD, UniqueIn(fd), PkSingle(fd.vars), Filled(fd.vars), NEW t \in Torn(fd),
         NEW n \in Int, Fits(fd.vars, n)
  PROVE  Fits(t.vars, n)
<1>1. Sized(fd.vars) /\ Sized(t.vars) /\ fd.vars \in Seq(Entry) /\ Len(fd.vars) \in Nat
  BY EntriesSized, TornKeeps DEF FD, Sized
<1>2. CASE t \in {EmptyFd, [NoFile EXCEPT !.form = "bad"]}
  <2>1. t.vars = <<>>
    BY <1>2 DEF EmptyFd, NoFile
  <2>2. n \in Nat
    BY <1>1 DEF Fits, Layouts
  <2> QED
    BY <2>1, <2>2, FitsEmpty
<1>3. CASE t = [fd EXCEPT !.tail = "cut"]
  <2>1. t.vars = fd.vars
    BY <1>3 DEF FD
  <2> QED
    BY <2>1
<1>4. ASSUME NEW k \in 0..Len(fd.vars), NEW s \in {"eof", "stub"},
             t = [form |-> "fd", vars |-> SubSeq(fd.vars, 1, k), stop |-> s, tail |-> "cut"]
      PROVE  Fits(t.vars, n)
  <2>1. t.vars = SubSeq(fd.vars, 1, k)
    BY <1>4
  <2>2. \A i \in 1..k : fd.vars[i] \in Entry
    BY <1>1, ElementOfSeq
  <2>3. Len(t.vars) = k /\ \A i \in 1..k : t.vars[i] = fd.vars[i]
    BY <1>1, <2>1, <2>2, SubSeqProperties
  <2>4. \A i \in 1..Len(t.vars) : Size(t.vars[i]) <= Size(fd.vars[i])
    BY <1>1, <2>3 DEF Sized
  <2> QED
    BY <1>1, <2>3, <2>4, FitsLess
<1> QED
  BY <1>2, <1>3, <1>4 DEF Torn

\* The loops of the walk and of the layout: from the start of a list that fits,
\* entry by entry, to its end.
LEMMA OffsetMoves ==
  ASSUME NEW vs, Sized(vs), NEW n \in Int, NEW c \in Nat \ {0}, NEW b \in Nat,
         NEW s \in Layouts(vs, n), c <= Len(vs), b <= s[c - 1]
  PROVE  b + Size(vs[c]) <= s[c] /\ b + Size(vs[c]) <= n /\ b < n
<1>1. /\ c \in 1..Len(vs) /\ c - 1 \in 0..Len(vs) /\ c \in 0..Len(vs) /\ Len(vs) \in Nat
      /\ Size(vs[c]) \in Nat \ {0}
  BY DEF Sized
<1>2. s[c - 1] \in 0..n /\ s[c] \in 0..n /\ s[c - 1] + Size(vs[c]) <= s[c]
  BY <1>1 DEF Layouts
<1> QED
  BY <1>1, <1>2, SMTT(30)

LEMMA OffsetStarts ==
  ASSUME NEW vs, Sized(vs), NEW n \in Int, Fits(vs, n)
  PROVE  1 <= Len(vs) + 1 /\ \E s \in Layouts(vs, n) : 0 <= s[1 - 1]
<1>1. PICK s \in Layouts(vs, n) : TRUE
  BY DEF Fits
<1>2. s[0] \in 0..n
  BY <1>1 DEF Layouts, Sized
<1> QED
  BY <1>1, <1>2 DEF Sized

\* A run starts from an image that leaves room.
LEMMA RoomInit == SbInit => RoomInv
<1> SUFFICES ASSUME SbInit PROVE RoomInv
  OBVIOUS
<1>1. pc = "idle" /\ phase = "idle" /\ file["input"] \in Disk
  BY SbNamesAre DEF SbInit, Init
<1>2. Room(1) = Capacity - 10
  BY VarAssumption DEF Room
<1> QED
  BY <1>1, <1>2, RoomAssumption DEF RoomInv

\* A step of the call stays within the room.
LEMMA RoomCall ==
  ASSUME RunInv, RoomInv, phase = "calling", Step, UNCHANGED <<phase, step>>
  PROVE  RoomInv'
<1> DEFINE n == Room(step)
           m == Room(step + 1)
<1>1. /\ IInv /\ args \in Args /\ args.operation = "add" /\ args.output = "tmp" /\ pc # "idle"
      /\ step \in 1..5 /\ UNCHANGED <<args, fdData>> /\ file'["input"] = file["input"]
  <2>1. IInv /\ sbconfig \in Configs /\ Valid(sbconfig) /\ args = ArgsFor(Order[step]) /\ step \in 1..5
        /\ Order[step] \in DOMAIN sbconfig
    BY DEF RunInv, SbTypeOK
  <2> QED
    BY <2>1, ArgsForOk, StepFrame, SbNamesAre
<1>2. /\ file \in [Paths -> FD] /\ fdData \in FD /\ cursor \in Nat \ {0} /\ begin \in Nat
      /\ vars_list \in Seq(Var) /\ Sized(vars_list) /\ Sized(fdData.vars)
      /\ Uniq(vars_list) /\ PkSingle(vars_list) /\ Filled(vars_list) /\ NoDuplicates
  BY <1>1, VarsSized, EntriesSized DEF IInv, TypeOK, NoDuplicates, Uniq
<1>3. n \in Int /\ m \in Int /\ m = n + 2 /\ n <= m /\ n < Capacity /\ Capacity \in Nat
  BY <1>1, VarAssumption DEF Room
<1>4. /\ Fits(file["input"].vars, Room(1)) /\ Fits(file["tmp"].vars, m)
      /\ (pc = "walk" => AtOffset(fdData.vars, n) /\ Fits(vars_list, begin))
      /\ (pc \in {"check", "process"} => Fits(vars_list, n))
      /\ (pc = "blob" => AtOffset(vars_list, m))
      /\ (pc \in {"open", "write"} => Fits(vars_list, m) /\ begin <= m)
  BY DEF RoomInv
<1>5. Room(step)' = n /\ Room(step + 1)' = m /\ Room(1)' = Room(1)
  BY DEF Room
<1> HIDE DEF n, m
<1>6. CASE UNCHANGED file /\ pc' = "idle"
  BY <1>1, <1>4, <1>5, <1>6 DEF RoomInv
<1>7. CASE Spin \/ check_args
  <2>1. UNCHANGED <<file, cursor, begin, vars_list>> /\ (UNCHANGED pc \/ (pc = "check" /\ pc' = "process"))
    BY <1>7 DEF Spin, check_args, vars, toolVars
  <2> QED
    BY <1>1, <1>4, <1>5, <2>1 DEF RoomInv, AtOffset
<1>8. CASE WalkEntry
  <2> DEFINE e == fdData.vars[cursor]
  <2>1. /\ pc = "walk" /\ cursor <= Len(fdData.vars) /\ cursor' = cursor + 1
        /\ begin' = begin + Size(e) /\ UNCHANGED <<file, pc>>
        /\ vars_list' = (IF e.added THEN Append(vars_list, parse_body(e)) ELSE vars_list)
    BY <1>8 DEF WalkEntry
  <2>2. PICK s \in Layouts(fdData.vars, n) : begin <= s[cursor - 1]
    BY <1>4, <2>1 DEF AtOffset
  <2>3. begin' <= s[cursor'- 1]
    <3>1. begin + Size(e) <= s[cursor]
      BY <1>2, <1>3, <2>1, <2>2, OffsetMoves
    <3>2. cursor' - 1 = cursor
      BY <1>2, <2>1
    <3> QED
      BY <2>1, <3>1, <3>2
  <2>4. AtOffset(fdData.vars, Room(step))'
    <3>1. Len(fdData.vars) \in Nat
      BY <1>2 DEF Sized
    <3> QED
      BY <1>1, <1>2, <1>5, <2>1, <2>2, <2>3, <3>1 DEF AtOffset
  <2>5. Size(e) \in Nat /\ e \in Entry
    <3>1. cursor \in 1..Len(fdData.vars) /\ fdData.vars \in Seq(Entry)
      BY <1>2, <2>1 DEF Sized, FD
    <3> QED
      BY <1>2, <3>1, ElementOfSeq DEF Sized
  <2>6. Fits(vars_list, begin)'
    <3>1. CASE e.added
      <4>1. parse_body(e) \in Var /\ Size(parse_body(e)) = Size(e)
        BY <2>5 DEF parse_body, Entry, Var, Size
      <4>2. Fits(Append(vars_list, parse_body(e)), begin + Size(e))
        BY <1>2, <1>4, <2>1, <4>1, FitsOneMore
      <4> QED
        BY <2>1, <3>1, <4>2
    <3>2. CASE ~e.added
      <4>1. Fits(vars_list, begin + Size(e))
        BY <1>2, <1>4, <2>1, <2>5, FitsMore
      <4> QED
        BY <2>1, <3>2, <4>1
    <3> QED
      BY <3>1, <3>2
  <2> QED
    BY <1>1, <1>4, <1>5, <2>1, <2>4, <2>6 DEF RoomInv
<1>9. CASE WalkEnds
  <2>1. pc = "walk" /\ pc' \in {"idle", "check"} /\ UNCHANGED <<file, vars_list>>
    BY <1>9 DEF WalkEnds, Return
  <2>2. PICK s \in Layouts(fdData.vars, n) : cursor <= Len(fdData.vars) + 1 /\ begin <= s[cursor - 1]
    BY <1>4, <2>1 DEF AtOffset
  <2>3. begin <= n
    <3>1. cursor - 1 \in 0..Len(fdData.vars)
      BY <1>2, <2>2 DEF Sized
    <3>2. s[cursor - 1] \in 0..n
      BY <2>2, <3>1 DEF Layouts
    <3> QED
      BY <1>2, <1>3, <2>2, <3>2
  <2>4. Fits(vars_list, n)
    BY <1>2, <1>3, <1>4, <2>1, <2>3, FitsMore
  <2> QED
    BY <1>1, <1>4, <1>5, <2>1, <2>4 DEF RoomInv
<1>10. CASE Add
  <2>1. CASE AddRaises(args, FALSE)
    BY <1>1, <1>6, <1>10, <2>1 DEF Add, Raise, Return
  <2>2. CASE ~AddRaises(args, FALSE)
    <3>1. /\ pc = "process" /\ vars_list' = Enroll(vars_list, args, FALSE) /\ pc' = "blob"
          /\ cursor' = 1 /\ begin' = 0 /\ UNCHANGED file
      BY <1>1, <1>10, <2>2 DEF Add, Sync
    <3>2. Fits(vars_list', m)
      BY <1>1, <1>2, <1>3, <1>4, <3>1, FitsEnrolled
    <3>3. vars_list' \in Seq(Var)
      BY <1>1, <1>2, <2>2, <3>1, EnrollKeeps
    <3>4. AtOffset(vars_list, Room(step + 1))'
      BY <1>3, <1>5, <3>1, <3>2, <3>3, OffsetStarts, VarsSized DEF AtOffset
    <3> QED
      BY <1>1, <1>4, <1>5, <3>1, <3>4 DEF RoomInv
  <2> QED
    BY <2>1, <2>2
<1>11. CASE BlobEntry
  <2>1. /\ pc = "blob" /\ cursor <= Len(vars_list) /\ cursor' = cursor + 1
        /\ begin' = begin + Size(vars_list[cursor]) /\ UNCHANGED <<file, pc, vars_list>>
    BY <1>11 DEF BlobEntry
  <2>2. PICK s \in Layouts(vars_list, m) : begin <= s[cursor - 1]
    BY <1>4, <2>1 DEF AtOffset
  <2>3. begin' <= s[cursor' - 1]
    <3>1. begin + Size(vars_list[cursor]) <= s[cursor]
      BY <1>2, <1>3, <2>1, <2>2, OffsetMoves
    <3>2. cursor' - 1 = cursor
      BY <1>2, <2>1
    <3> QED
      BY <2>1, <3>1, <3>2
  <2>4. AtOffset(vars_list, Room(step + 1))'
    <3>1. Len(vars_list) \in Nat
      BY <1>2 DEF Sized
    <3> QED
      BY <1>2, <1>5, <2>1, <2>2, <2>3, <3>1 DEF AtOffset
  <2> QED
    BY <1>1, <1>4, <1>5, <2>1, <2>4 DEF RoomInv
<1>12. CASE BlobEnds
  <2>1. pc = "blob" /\ pc' = "open" /\ UNCHANGED <<file, begin, vars_list>>
    BY <1>12 DEF BlobEnds
  <2>2. PICK s \in Layouts(vars_list, m) : cursor <= Len(vars_list) + 1 /\ begin <= s[cursor - 1]
    BY <1>4, <2>1 DEF AtOffset
  <2>3. begin <= m
    <3>1. cursor - 1 \in 0..Len(vars_list)
      BY <1>2, <2>2 DEF Sized
    <3>2. s[cursor - 1] \in 0..m
      BY <2>2, <3>1 DEF Layouts
    <3> QED
      BY <1>2, <1>3, <2>2, <3>2
  <2>4. Fits(vars_list, m)
    BY <2>2 DEF Fits
  <2> QED
    BY <1>1, <1>4, <1>5, <2>1, <2>3, <2>4 DEF RoomInv
<1>13. CASE OpenOutput
  <2>1. /\ pc = "open" /\ pc' = "write" /\ UNCHANGED <<begin, vars_list>>
        /\ file'["tmp"] = EmptyFd
    BY <1>1, <1>2, <1>13, SbNamesAre DEF OpenOutput
  <2>2. m \in Nat
    BY <1>2, <1>3, <1>4, <2>1
  <2>3. Fits(EmptyFd.vars, m)
    BY <2>2, FitsEmpty DEF EmptyFd, NoFile
  <2> QED
    BY <1>1, <1>4, <1>5, <2>1, <2>3 DEF RoomInv
<1>14. ASSUME pc = "write", pc' = "idle", file'["tmp"] = Buffer \/ file'["tmp"] \in Torn(Buffer)
       PROVE  RoomInv'
  <2>1. Buffer \in FD /\ UniqueIn(Buffer) /\ PkSingle(Buffer.vars) /\ Filled(Buffer.vars)
    BY <1>2, BufferKeeps
  <2>2. Sized(Buffer.vars)
    BY <2>1, EntriesSized
  <2>3. Len(Buffer.vars) = Len(vars_list) /\ \A i \in 1..Len(vars_list) : Size(Buffer.vars[i]) = Size(vars_list[i])
    <3> DEFINE b == [i \in 1..Len(vars_list) |-> blob(vars_list[i])]
    <3>1. Buffer.vars = b /\ Buffer.vars \in Seq(Entry)
      BY <2>1 DEF Buffer, FD
    <3>2. Len(b) = Len(vars_list)
      BY <1>2, <3>1, LenProperties DEF Sized
    <3>3. \A i \in 1..Len(vars_list) : Size(b[i]) = Size(vars_list[i])
      BY DEF blob, Size
    <3> QED
      BY <3>1, <3>2, <3>3
  <2>4. Fits(Buffer.vars, m)
    <3>1. \A i \in 1..Len(Buffer.vars) : Size(Buffer.vars[i]) <= Size(vars_list[i])
      BY <1>2, <2>3 DEF Sized
    <3>2. Len(Buffer.vars) <= Len(vars_list) /\ Fits(vars_list, m) /\ m <= m
      BY <1>2, <1>3, <1>4, <1>14, <2>3 DEF Sized
    <3> QED
      BY <1>2, <1>3, <2>2, <3>1, <3>2, FitsLess
  <2>5. Fits(file'["tmp"].vars, m)
    BY <1>3, <1>14, <2>1, <2>4, FitsTorn
  <2> QED
    BY <1>1, <1>4, <1>5, <1>14, <2>5 DEF RoomInv
<1>15. CASE WriteOutput \/ WriteFails
  BY <1>1, <1>2, <1>14, <1>15, SbNamesAre DEF WriteOutput, WriteFails, Return
<1>16. CASE ArgsInvalid \/ Delete \/ Update \/ OpenFails
  BY <1>1, <1>6, <1>16 DEF ArgsInvalid, Delete, Update, OpenFails, Return
<1> QED
  BY <1>7, <1>8, <1>9, <1>10, <1>11, <1>12, <1>13, <1>15, <1>16 DEF Step, Work, IoError

\* And so does every other step of a run.
LEMMA RoomHolds == RunInv /\ RoomInv /\ [SbNext]_sbVars => RoomInv'
<1> SUFFICES ASSUME RunInv, RoomInv, [SbNext]_sbVars PROVE RoomInv'
  OBVIOUS
<1>1. /\ IInv /\ (phase # "calling" => pc = "idle") /\ (phase = "copyIn" => step = 1)
      /\ step \in 1..5 /\ file \in [Paths -> FD] /\ file'["input"] = file["input"]
      /\ Fits(file["input"].vars, Room(1)) /\ Fits(file["input"].vars, Room(1))'
  <2>1. file'["input"] = file["input"]
    BY OutputStep
  <2> QED
    BY <2>1 DEF RunInv, SbTypeOK, IInv, TypeOK, RoomInv, Room
<1>2. CASE UNCHANGED sbVars
  BY <1>2 DEF sbVars, vars, toolVars, runVars, RoomInv, AtOffset, Room
<1>3. CASE phase' \in {"idle", "copyIn", "copyOut", "remove"} /\ pc' = "idle"
  BY <1>1, <1>3 DEF RoomInv
<1>4. CASE \E c \in Configs : main(c)
  BY <1>1, <1>3, <1>4 DEF main, End, vars, toolVars
<1>5. CASE CopyIn
  <2>1. phase' = "enroll" /\ step' = 1 /\ pc' = "idle" /\ file'["tmp"] = file["input"]
    BY <1>1, <1>5, SbNamesAre DEF CopyIn, toolVars
  <2>2. Fits(file["tmp"].vars, Room(step))'
    BY <1>1, <2>1 DEF Room
  <2> QED
    BY <1>1, <2>1, <2>2 DEF RoomInv
<1>6. ASSUME UNCHANGED file, phase' = "enroll", step' = step + 1, pc' = "idle", Fits(file["tmp"].vars, Room(step + 1))
      PROVE  RoomInv'
  <2>1. Fits(file["tmp"].vars, Room(step))'
    BY <1>6 DEF Room
  <2> QED
    BY <1>1, <1>6, <2>1 DEF RoomInv
<1>7. ASSUME phase = "enroll" PROVE Fits(file["tmp"].vars, Room(step + 1))
  <2>1. Fits(file["tmp"].vars, Room(step)) /\ Sized(file["tmp"].vars)
    BY <1>1, <1>7, EntriesSized, SbNamesAre DEF RoomInv
  <2>2. Room(step) \in Int /\ Room(step + 1) \in Int /\ Room(step) <= Room(step + 1)
    BY <1>1, VarAssumption DEF Room
  <2> QED
    BY <2>1, <2>2, FitsMore
<1>8. CASE Skip
  BY <1>1, <1>6, <1>7, <1>8 DEF Skip, vars, toolVars
<1>9. CASE Call
  <2>1. /\ phase = "enroll" /\ phase' = "calling" /\ UNCHANGED <<file, step>> /\ pc' \in {"idle", "spin", "walk"}
        /\ fdData' = file["tmp"] /\ cursor' = 1 /\ begin' = 0 /\ vars_list' = <<>>
    BY <1>9 DEF Call, Start, Return, ArgsFor
  <2>2. Fits(file["tmp"].vars, Room(step + 1))'
    BY <1>7, <2>1 DEF Room
  <2>3. Fits(file["tmp"].vars, Room(step)) /\ Sized(file["tmp"].vars) /\ Room(step) \in Int
    BY <1>1, <2>1, EntriesSized, SbNamesAre, VarAssumption DEF RoomInv, Room
  <2>4. AtOffset(fdData.vars, Room(step))'
    <3>1. 1 <= Len(file["tmp"].vars) + 1 /\ \E s \in Layouts(file["tmp"].vars, Room(step)) : 0 <= s[1 - 1]
      BY <2>3, OffsetStarts
    <3> QED
      BY <2>1, <3>1 DEF AtOffset, Room
  <2>5. Fits(vars_list, begin)'
    BY <2>1, FitsEmpty
  <2> QED
    BY <1>1, <2>1, <2>2, <2>4, <2>5 DEF RoomInv
<1>10. CASE Tool \/ ToolIoError
  BY <1>10, RoomCall DEF Tool, ToolIoError, Step, runVars
<1>11. CASE Returned
  <2>1. UNCHANGED <<file, pc>> /\ pc = "idle" /\ phase = "calling"
    BY <1>11 DEF Returned, vars, toolVars
  <2>2. CASE phase' = "enroll"
    <3>1. step' = step + 1
      BY <1>1, <1>11, <2>2 DEF Returned, End
    <3> QED
      BY <1>1, <1>6, <2>1, <2>2, <3>1 DEF RoomInv
  <2>3. CASE phase' # "enroll"
    BY <1>3, <1>11, <2>1, <2>3 DEF Returned, End
  <2> QED
    BY <2>2, <2>3
<1>12. CASE CopyOut \/ Remove \/ RemoveFails \/ CopyFails \/ Kill
  BY <1>1, <1>3, <1>12 DEF CopyOut, Remove, RemoveFails, CopyFails, Kill, End, vars, toolVars
<1> QED
  BY <1>2, <1>4, <1>5, <1>8, <1>9, <1>10, <1>11, <1>12 DEF SbNext, Run

\* No image that secure_boot makes fills its region, whatever fails and however
\* many runs follow one another: each starts from the input, and its variables
\* replace those that are there.  Every loop of sync_to_vars_list sees all of
\* the variables, and sync_to_file writes none behind the region.
THEOREM RunsFit == SbSpec => [](NeverFull /\ (pc = "write" => begin <= Capacity))
<1>1. SbInit => RunInv /\ RoomInv
  BY SbInitHolds, RoomInit
<1>2. RunInv /\ RoomInv /\ [SbNext]_sbVars => (RunInv /\ RoomInv)'
  BY RunHolds, RoomHolds
<1>3. RunInv /\ RoomInv => NeverFull /\ (pc = "write" => begin <= Capacity)
  <2> SUFFICES ASSUME RunInv, RoomInv PROVE NeverFull /\ (pc = "write" => begin <= Capacity)
    OBVIOUS
  <2>1. /\ step \in 1..5 /\ cursor \in Nat \ {0} /\ begin \in Nat /\ Capacity \in Nat
        /\ Sized(fdData.vars)
    BY EntriesSized, VarAssumption DEF RunInv, SbTypeOK, IInv, TypeOK
  <2>2. ASSUME pc = "walk", cursor <= Len(fdData.vars) PROVE begin < Capacity
    <3>1. PICK s \in Layouts(fdData.vars, Room(step)) : begin <= s[cursor - 1]
      BY <2>2 DEF RoomInv, AtOffset
    <3>2. Room(step) \in Int /\ Room(step) <= Capacity
      BY <2>1 DEF Room
    <3>3. begin < Room(step)
      BY <2>1, <2>2, <3>1, <3>2, OffsetMoves
    <3> QED
      BY <2>1, <3>2, <3>3
  <2>3. ASSUME pc = "write" PROVE begin <= Capacity
    BY <2>1, <2>3 DEF RoomInv, Room
  <2> QED
    BY <2>2, <2>3 DEF NeverFull
<1> QED
  BY <1>1, <1>2, <1>3, PTL DEF SbSpec

\* The temporary file has at each moment of a run the keys it should have.
LEMMA EnrolInvariance == SbSpec => [](RunInv /\ CallInv /\ RoomInv /\ EnrolInv)
<1>1. SbInit => RunInv /\ CallInv /\ RoomInv /\ EnrolInv
  BY SbInitHolds, RoomInit
<1>2. RunInv /\ CallInv /\ RoomInv /\ EnrolInv /\ NeverFull /\ [SbNext]_sbVars
        => (RunInv /\ CallInv /\ RoomInv /\ EnrolInv)'
  BY RunHolds, RunCalls, RoomHolds, RunEnrols
<1> QED
  BY <1>1, <1>2, RunsFit, PTL DEF SbSpec

\* When a run of secure_boot in which no write failed returns True, its output is
\* the input with every key that was given, and with the same code behind the
\* variable region, whatever earlier runs left behind, for any keys, any images
\* that leave room and any number of runs, failures and kills.
THEOREM SuccessIsEnrolled == SbSpec => []SuccessMeansEnrolled
<1>1. EnrolInv => SuccessMeansEnrolled
  BY DEF EnrolInv, SuccessMeansEnrolled
<1> QED
  BY <1>1, EnrolInvariance, PTL

\* Where no open or write of the run has failed, the output is touched only when
\* the temporary file is complete, and in any run the input never: do_var_enroll
\* copies at its end, and a run that was killed can be repeated.  After a failed
\* open the output may lack a key, which the property leaves out.
THEOREM OutputIsComplete == SbSpec => OutputOnlyComplete
<1>1. RunInv /\ EnrolInv /\ [SbNext]_sbVars =>
        [/\ file'["output"] # file["output"] /\ clean => AllEnrolled("tmp")
         /\ file'["input"] = file["input"]]_sbVars
  BY OutputStep DEF EnrolInv
<1> QED
  BY <1>1, EnrolInvariance, PTL DEF OutputOnlyComplete, SbSpec

\* Enrolling the current key brings in what it was given, and nothing else.
LEMMA GivenMore ==
  ASSUME RunInv, phase = "calling", NEW m, DOMAIN m = Keys, OnlyGiven(m)
  PROVE  OnlyGiven(Abstract!Applied(args, m))
<1> DEFINE n == Order[step]
           c == sbconfig
           i == Content(file["input"])
           key == <<n, VendorGuid(n, c[n].guid)>>
           payload == [owner |-> IF n \in {"PK", "KEK", "db"} THEN c[n].guid ELSE "none",
                       file |-> c[n].file]
<1>1. step \in 1..5 /\ n \in DOMAIN sbconfig /\ args = ArgsFor(n) /\ sbconfig \in Configs
  BY DEF RunInv, SbTypeOK
<1>2. n \in SbNames /\ Canonical(n) = n
  BY <1>1, SbNamesAre
<1>3. Abstract!Target(args) = key /\ PayloadOf(args) = payload /\ args.operation = "add"
  BY <1>1, <1>2 DEF Abstract!Target, PayloadOf, ArgsFor
<1>4. Abstract!Applied(args, m) = [m EXCEPT ![key] = <<payload>>]
  BY <1>3 DEF Abstract!Applied, Abstract!Put
<1>5. DOMAIN i = Keys
  BY DEF Content, Keys
<1> HIDE DEF i, c, n
<1>6. \A k \in Keys : k = key => Enrolled(i, c)[k] = <<payload>>
  <2>1. key[1] = n /\ n \in DOMAIN c
    BY <1>1 DEF c, n
  <2> QED
    BY <1>5, <2>1 DEF Enrolled, EnrolledOf
<1>7. \A k \in Keys : m[k] \in {<<>>, i[k], Enrolled(i, c)[k]}
  BY DEF OnlyGiven, i, c, Keys
<1> HIDE DEF key, payload
<1>8. \A k \in Keys : [m EXCEPT ![key] = <<payload>>][k] \in {<<>>, i[k], Enrolled(i, c)[k]}
  BY <1>6, <1>7
<1> QED
  BY <1>4, <1>8 DEF OnlyGiven, i, c, Keys

\* What is lost of an image that has only what was given leaves it so.
LEMMA GivenTorn ==
  ASSUME NEW fd \in FD, UniqueIn(fd), PkSingle(fd.vars), Filled(fd.vars),
         OnlyGiven(Content(fd)), NEW t \in Torn(fd)
  PROVE  OnlyGiven(Content(t))
<1>1. \A k \in Keys : Content(t)[k] \in {<<>>, Content(fd)[k]}
  BY TornSays
<1> QED
  BY <1>1 DEF OnlyGiven, Keys

\* What a step of a call leaves in the temporary file, whether or not it fails.
LEMMA GivenCall ==
  ASSUME RunInv, CallInv, GivenInv, phase = "calling", Step
  PROVE  OnlyGiven(Content(file'["tmp"]))
<1>1. /\ IInv /\ args.output = "tmp" /\ file \in [Paths -> FD] /\ "tmp" \in Paths
      /\ vars_list \in Seq(Var)
  BY ArgsForOk, SbNamesAre DEF RunInv, SbTypeOK, IInv, TypeOK
<1>2. OnlyGiven(Content(file["tmp"])) /\ (pc # "idle" => OnlyGiven(Content(fdData)))
  BY DEF GivenInv
<1>3. CASE UNCHANGED file
  BY <1>2, <1>3
<1>4. CASE Spin \/ WalkEntry \/ WalkEnds \/ check_args \/ ArgsInvalid \/ Add \/ Delete \/ Update
  BY <1>3, <1>4 DEF Spin, vars, WalkEntry, WalkEnds, check_args, ArgsInvalid, Add, Delete, Update,
     Raise, NothingDone, Sync
<1>5. CASE BlobEntry \/ BlobEnds \/ OpenFails
  BY <1>3, <1>5 DEF BlobEntry, BlobEnds, OpenFails
<1>6. CASE OpenOutput
  <2>1. file'["tmp"] = EmptyFd
    BY <1>1, <1>6 DEF OpenOutput
  <2>2. EmptyFd \in Torn(file["tmp"])
    BY DEF Torn
  <2> QED
    BY <1>1, <1>2, <2>1, <2>2, GivenTorn, FilesSound
<1>7. CASE WriteOutput \/ WriteFails
  <2>1. pc = "write" /\ Content(Buffer) = Abstract!Applied(args, Content(fdData))
    BY <1>1, <1>7, BufferSays DEF WriteOutput, WriteFails, CallInv
  <2>2. OnlyGiven(Content(Buffer))
    <3>1. DOMAIN Content(fdData) = Keys
      BY DEF Content, Keys
    <3> QED
      BY <1>2, <2>1, <3>1, GivenMore
  <2>3. Buffer \in FD /\ UniqueIn(Buffer) /\ PkSingle(Buffer.vars) /\ Filled(Buffer.vars)
    BY <1>1, BufferKeeps DEF IInv, TypeOK
  <2>4. file'["tmp"] \in {Buffer} \cup Torn(Buffer)
    BY <1>1, <1>7 DEF WriteOutput, WriteFails
  <2> QED
    BY <2>2, <2>3, <2>4, GivenTorn
<1> QED
  BY <1>4, <1>5, <1>6, <1>7 DEF Step, Work, IoError

\* Every step of a run keeps the temporary file free of what was not given.
LEMMA GivenStep == RunInv /\ CallInv /\ GivenInv /\ [SbNext]_sbVars => GivenInv'
<1> SUFFICES ASSUME RunInv, CallInv, GivenInv, [SbNext]_sbVars PROVE GivenInv'
  OBVIOUS
<1>1. IInv /\ file \in [Paths -> FD] /\ file'["input"] = file["input"] /\ "tmp" \in Paths
  BY OutputStep, SbNamesAre DEF RunInv, IInv, TypeOK
<1>2. \A m : UNCHANGED sbconfig /\ OnlyGiven(m) =>
        \A k \in Keys : m[k] \in {<<>>, Content(file'["input"])[k],
                                Enrolled(Content(file'["input"]), sbconfig')[k]}
  BY <1>1 DEF OnlyGiven, Keys
<1>3. CASE phase' \notin {"enroll", "calling", "copyOut"}
  BY <1>3 DEF GivenInv
<1>4. CASE (\E c \in Configs : main(c)) \/ CopyOut \/ Remove \/ RemoveFails \/ CopyFails \/ Kill
  BY <1>3, <1>4 DEF main, CopyOut, Remove, RemoveFails, CopyFails, Kill, End
<1>5. CASE CopyIn
  <2>1. phase' = "enroll" /\ file'["tmp"] = file["input"] /\ UNCHANGED sbconfig
    BY <1>1, <1>5 DEF CopyIn
  <2>2. OnlyGiven(Content(file["input"]))
    BY DEF OnlyGiven
  <2> QED
    BY <1>1, <1>2, <2>1, <2>2 DEF GivenInv, OnlyGiven, Keys
<1>6. CASE Skip \/ Returned \/ UNCHANGED sbVars
  <2>1. UNCHANGED <<file, pc, fdData, sbconfig>>
    BY <1>6 DEF Skip, Returned, sbVars, runVars, vars, toolVars
  <2>2. /\ phase' \in {"enroll", "calling", "copyOut"} => phase \in {"enroll", "calling", "copyOut"}
        /\ phase' = "calling" => phase = "calling"
    BY <1>6 DEF Skip, Returned, End, sbVars, runVars
  <2> QED
    BY <2>1, <2>2 DEF GivenInv, OnlyGiven
<1>7. CASE Call
  <2>1. /\ phase = "enroll" /\ Order[step] \in DOMAIN sbconfig /\ UNCHANGED <<file, sbconfig>>
        /\ phase' = "calling" /\ fdData' = file["tmp"]
    BY <1>7 DEF Call, Start, ArgsFor
  <2> QED
    BY <2>1 DEF GivenInv, OnlyGiven
<1>8. CASE Tool \/ ToolIoError
  <2>1. phase = "calling" /\ phase' = "calling" /\ Step /\ UNCHANGED sbconfig
    BY <1>8 DEF Tool, ToolIoError, Step, runVars
  <2>2. OnlyGiven(Content(file'["tmp"]))
    BY <2>1, GivenCall
  <2>3. OnlyGiven(Content(fdData)) /\ UNCHANGED fdData
    BY <1>1, <2>1, StepFrame DEF GivenInv
  <2> QED
    BY <1>2, <2>1, <2>2, <2>3 DEF GivenInv, OnlyGiven, Keys
<1> QED
  BY <1>4, <1>5, <1>6, <1>7, <1>8 DEF SbNext, Run

\* Whatever fails, and however many runs were killed before: the output gets the
\* variables of the input and those this run was given, and no others.
THEOREM OutputIsGiven == SbSpec => OutputOnlyGiven
<1>1. SbInit => GivenInv
  BY DEF SbInit, GivenInv
<1>2. RunInv /\ GivenInv /\ [SbNext]_sbVars =>
        [file'["output"] # file["output"] => OnlyGiven(Content(file'["output"]))]_sbVars
  <2> SUFFICES ASSUME RunInv, GivenInv, [SbNext]_sbVars, file'["output"] # file["output"]
               PROVE  OnlyGiven(Content(file'["output"]))
    OBVIOUS
  <2>1. phase = "copyOut" /\ IInv /\ file \in [Paths -> FD] /\ "tmp" \in Paths /\ "output" \in Paths
    BY OutputStep, SbNamesAre DEF RunInv, IInv, TypeOK
  <2>2. pc = "idle" /\ OnlyGiven(Content(file["tmp"]))
    BY <2>1 DEF RunInv, GivenInv
  <2>3. file'["output"] \in {file["tmp"]} \cup Torn(file["tmp"])
    BY <2>1, <2>2 DEF SbNext, Run, main, CopyIn, Skip, Call, Tool, ToolIoError, Returned, CopyOut,
       Remove, RemoveFails, CopyFails, CutOff, Kill, sbVars, vars
  <2> QED
    BY <2>1, <2>2, <2>3, FilesSound, GivenTorn
<1> QED
  BY <1>1, <1>2, GivenStep, EnrolInvariance, PTL DEF SbSpec, OutputOnlyGiven

-----------------------------------------------------------------------------
(* How long a call and a run can take: the safety half of CallReturns and  *)
(* of RunEnds.                                                             *)

\* Steps the call in progress can still take.  An entry that is walked may be one
\* more to lay out, and so may the variable that is added.
CallLeft ==
  CASE pc = "idle" -> 0
    [] pc = "write" -> 1
    [] pc = "open" -> 2
    [] pc = "blob" -> 4 + Len(vars_list) - cursor
    [] pc = "process" -> 5 + Len(vars_list)
    [] pc = "check" -> 6 + Len(vars_list)
    [] pc = "walk" -> 7 + Len(vars_list) + 2 * (1 + Len(fdData.vars) - cursor)
    [] pc = "spin" -> 0

\* The loops do not pass the end of what they run over.
CursorInv ==
  /\ pc = "walk" => cursor <= 1 + Len(fdData.vars)
  /\ pc = "blob" => cursor <= 1 + Len(vars_list)

LEMMA CallLeftType == TypeOK /\ CursorInv => CallLeft \in Nat
<1> SUFFICES ASSUME TypeOK, CursorInv PROVE CallLeft \in Nat
  OBVIOUS
<1>1. Len(vars_list) \in Nat /\ Len(fdData.vars) \in Nat /\ cursor \in Nat \ {0}
  BY LenProperties DEF TypeOK, FD
<1>2. CASE pc = "walk"
  <2>1. 1 + Len(fdData.vars) - cursor \in Nat
    BY <1>1, <1>2 DEF CursorInv
  <2> QED
    BY <1>1, <1>2, <2>1 DEF CallLeft
<1>3. CASE pc = "blob"
  BY <1>1, <1>3 DEF CallLeft, CursorInv
<1>4. CASE pc \in {"idle", "write", "open", "process", "check", "spin"}
  BY <1>1, <1>4 DEF CallLeft
<1> QED
  BY <1>2, <1>3, <1>4 DEF TypeOK

\* An enrolment makes the list longer by one variable at most.
LEMMA EnrollLength ==
  ASSUME NEW vs \in Seq(Var), Uniq(vs), NEW a \in Args, NEW append \in BOOLEAN
  PROVE  Len(Enroll(vs, a, append)) \in Nat /\ Len(Enroll(vs, a, append)) <= 1 + Len(vs)
<1> DEFINE name == Canonical(a.name)
           guid == VendorGuid(a.name, a.guid)
           payload == PayloadOf(a)
           new == AddVariable(vs, name, guid, payload, append)
<1>1. name \in AllNames /\ guid \in AllGuids /\ payload \in Payload
  BY DEF Args, Canonical, AllNames, KeyNames, VendorGuid, AllGuids, PayloadOf, Payload
<1>2. <<payload>> \in Seq(Payload) /\ Len(vs) \in Nat
  BY <1>1, LenProperties
<1> SUFFICES Len(new) \in Nat /\ Len(new) <= 1 + Len(vs)
  BY DEF Enroll
<1> HIDE DEF name, guid, payload
<1>3. CASE Matches(vs, name, guid) = {}
  <2> DEFINE v == [name |-> name, guid |-> guid, data |-> <<payload>>]
  <2>1. v \in Var
    BY <1>1, <1>2 DEF Var
  <2>2. new = Append(vs, v)
    BY <1>3 DEF AddVariable
  <2> HIDE DEF v, new
  <2>3. Len(new) = Len(vs) + 1
    BY <2>1, <2>2, AppendProperties
  <2> QED
    BY <1>2, <2>3
<1>4. CASE Matches(vs, name, guid) # {}
  <2> DEFINE i == find_var_in_list(vs, name, guid)
             d == Updated(vs[i].data, payload, append)
  <2>1. new = [vs EXCEPT ![i].data = d]
    BY <1>4 DEF AddVariable
  <2> HIDE DEF i, d, new
  <2>2. Len(new) = Len(vs)
    BY <2>1
  <2> QED
    BY <1>2, <2>2
<1> QED
  BY <1>3, <1>4

\* One entry walked is worth two steps, one variable less makes up for one more.
LEMMA WalkedIsLess ==
  ASSUME NEW n \in Nat, NEW k \in {n, n + 1}, NEW m \in Nat, NEW c \in Nat
  PROVE  7 + k + 2 * (1 + m - (c + 1)) < 7 + n + 2 * (1 + m - c)
OBVIOUS

LEMMA OneLess == ASSUME NEW n \in Nat, NEW m \in Nat, NEW k \in Nat, m = n - 1, k <= 1 + m PROVE k <= 1 + n
OBVIOUS

\* An operation makes the list longer by one variable at most.
LEMMA ProcessLength ==
  ASSUME IInv, Add \/ Delete \/ Update
  PROVE  \/ pc' = "idle"
         \/ pc' = "blob" /\ cursor' = 1 /\ Len(vars_list') \in Nat /\ Len(vars_list') <= 1 + Len(vars_list)
<1>1. args \in Args /\ vars_list \in Seq(Var) /\ Uniq(vars_list) /\ PkSingle(vars_list)
      /\ Filled(vars_list) /\ Len(vars_list) \in Nat
  <2>1. pc # "idle"
    BY DEF Add, Delete, Update
  <2> QED
    BY <2>1, LenProperties DEF IInv, TypeOK, NoDuplicates, Uniq
<1>2. CASE Raise \/ NothingDone
  BY <1>2 DEF Raise, NothingDone, Return
<1>3. ASSUME NEW vs, Sync(vs), Len(vs) \in Nat, Len(vs) <= 1 + Len(vars_list)
      PROVE  pc' = "blob" /\ cursor' = 1 /\ Len(vars_list') \in Nat /\ Len(vars_list') <= 1 + Len(vars_list)
  BY <1>3 DEF Sync
<1> DEFINE i == find_var_in_list(vars_list, args.name, args.guid)
           rest == Without(vars_list, i)
<1>4. ASSUME Matches(vars_list, args.name, args.guid) # {}
      PROVE  /\ rest \in Seq(Var) /\ Uniq(rest) /\ Len(rest) \in Nat /\ Len(rest) = Len(vars_list) - 1
  <2>1. i \in 1..Len(vars_list)
    BY <1>1, <1>4, FindMatches DEF Matches
  <2> HIDE DEF i
  <2>2. rest \in Seq(Var) /\ Uniq(rest)
    BY <1>1, <2>1, WithoutKeeps
  <2>3. Len(vars_list) - 1 \in Nat
    BY <1>1, <2>1
  <2>4. rest = [j \in 1..(Len(vars_list) - 1) |-> rest[j]]
    BY DEF Without
  <2>5. Len(rest) = Len(vars_list) - 1
    BY <2>2, <2>3, <2>4
  <2> QED
    BY <2>2, <2>3, <2>5
<1> HIDE DEF i, rest
<1>5. CASE Add
  <2> DEFINE append == args.operation = "append"
  <2>1. append \in BOOLEAN
    OBVIOUS
  <2>2. Raise \/ Sync(Enroll(vars_list, args, append))
    BY <1>5 DEF Add
  <2> HIDE DEF append
  <2>3. Len(Enroll(vars_list, args, append)) \in Nat /\ Len(Enroll(vars_list, args, append)) <= 1 + Len(vars_list)
    BY <1>1, <2>1, EnrollLength
  <2> QED
    BY <1>2, <1>3, <2>2, <2>3
<1>6. CASE Delete
  <2>1. NothingDone \/ (Matches(vars_list, args.name, args.guid) # {} /\ Sync(rest))
    BY <1>6 DEF Delete, rest, i
  <2> QED
    BY <1>1, <1>2, <1>3, <1>4, <2>1
<1>7. CASE Update
  <2>1. \/ NothingDone \/ Raise
        \/ Matches(vars_list, args.name, args.guid) # {} /\ Sync(Enroll(rest, args, TRUE))
    BY <1>7 DEF Update, rest, i
  <2>2. Matches(vars_list, args.name, args.guid) # {} =>
          Len(Enroll(rest, args, TRUE)) \in Nat /\ Len(Enroll(rest, args, TRUE)) <= 1 + Len(rest)
    BY <1>1, <1>4, EnrollLength
  <2>3. Matches(vars_list, args.name, args.guid) # {} => Len(Enroll(rest, args, TRUE)) <= 1 + Len(vars_list)
    BY <1>1, <1>4, <2>2, OneLess
  <2> QED
    BY <1>2, <1>3, <2>1, <2>2, <2>3
<1> QED
  BY <1>5, <1>6, <1>7

\* Every step of var_enroll() but the endless search brings its end nearer.
LEMMA CallNearer ==
  ASSUME IInv, CursorInv, Step
  PROVE  CursorInv' /\ (pc # "spin" => CallLeft' < CallLeft)
<1>1. Len(vars_list) \in Nat /\ Len(fdData.vars) \in Nat /\ cursor \in Nat \ {0} /\ vars_list \in Seq(Var)
  BY LenProperties DEF IInv, TypeOK, FD
<1>2. CASE Spin
  BY <1>2 DEF Spin, vars, toolVars, CursorInv
<1>3. CASE WalkEntry
  <2> DEFINE e == fdData.vars[cursor]
  <2>1. /\ pc = "walk" /\ pc' = "walk" /\ cursor <= Len(fdData.vars) /\ cursor' = cursor + 1
        /\ fdData' = fdData /\ vars_list' = IF e.added THEN Append(vars_list, parse_body(e)) ELSE vars_list
    BY <1>3 DEF WalkEntry
  <2>2. Len(vars_list') \in {Len(vars_list), Len(vars_list) + 1}
    BY <1>1, <2>1
  <2>3. CursorInv'
    BY <1>1, <2>1 DEF CursorInv
  <2>4. /\ CallLeft = 7 + Len(vars_list) + 2 * (1 + Len(fdData.vars) - cursor)
        /\ CallLeft' = 7 + Len(vars_list') + 2 * (1 + Len(fdData.vars) - (cursor + 1))
    BY <2>1 DEF CallLeft
  <2> HIDE DEF e
  <2>5. 7 + Len(vars_list') + 2 * (1 + Len(fdData.vars) - (cursor + 1))
          < 7 + Len(vars_list) + 2 * (1 + Len(fdData.vars) - cursor)
    BY <1>1, <2>2, WalkedIsLess
  <2> QED
    BY <2>3, <2>4, <2>5
<1>4. CASE WalkEnds
  <2>1. pc = "walk" /\ pc' \in {"idle", "check"} /\ vars_list' = vars_list
    BY <1>4 DEF WalkEnds, Return
  <2>2. 1 + Len(fdData.vars) - cursor \in Nat
    BY <1>1, <2>1 DEF CursorInv
  <2>3. CallLeft' < CallLeft
    BY <1>1, <2>1, <2>2, SMTT(30) DEF CallLeft
  <2> QED
    BY <2>1, <2>3 DEF CursorInv
<1>5. CASE check_args \/ ArgsInvalid
  <2>1. pc = "check" /\ pc' \in {"idle", "process"} /\ vars_list' = vars_list
    BY <1>5 DEF check_args, ArgsInvalid, Return
  <2> QED
    BY <1>1, <2>1 DEF CursorInv, CallLeft
<1>6. CASE Add \/ Delete \/ Update
  <2>1. pc = "process"
    BY <1>6 DEF Add, Delete, Update
  <2>2. \/ pc' = "idle"
        \/ pc' = "blob" /\ cursor' = 1 /\ Len(vars_list') \in Nat /\ Len(vars_list') <= 1 + Len(vars_list)
    BY <1>6, ProcessLength
  <2> QED
    BY <1>1, <2>1, <2>2 DEF CursorInv, CallLeft
<1>7. CASE BlobEntry
  <2>1. pc = "blob" /\ pc' = "blob" /\ cursor' = cursor + 1 /\ vars_list' = vars_list /\ cursor <= Len(vars_list)
    BY <1>7 DEF BlobEntry
  <2> QED
    BY <1>1, <2>1 DEF CursorInv, CallLeft
<1>8. CASE BlobEnds
  <2>1. pc = "blob" /\ pc' = "open"
    BY <1>8 DEF BlobEnds
  <2> QED
    BY <1>1, <2>1 DEF CursorInv, CallLeft
<1>9. CASE OpenOutput
  BY <1>9 DEF OpenOutput, CursorInv, CallLeft
<1>10. CASE WriteOutput \/ OpenFails \/ WriteFails
  <2>1. pc \in {"open", "write"} /\ pc' = "idle"
    BY <1>10 DEF WriteOutput, OpenFails, WriteFails, Return
  <2> QED
    BY <2>1 DEF CursorInv, CallLeft
<1> QED
  BY <1>2, <1>3, <1>4, <1>5, <1>6, <1>7, <1>8, <1>9, <1>10 DEF Step, Work, IoError

LEMMA StartsAtOne == ASSUME TypeOK, NEW a \in Args, Start(a) PROVE CursorInv'
<1>1. Len(file[a.input].vars) \in Nat
  BY LenProperties DEF TypeOK, FD, Args
<1> QED
  BY <1>1 DEF Start, Return, CursorInv

\* var_enroll(): on an image that begins with the variable volume, for any
\* entries, deleted and overlong ones included, every step of the walk, of the
\* operation and of the layout brings the return nearer.
THEOREM CallIsBounded ==
  Spec => /\ [][pc \notin {"idle", "spin"} => CallLeft' < CallLeft]_vars
          /\ [](CallLeft \in Nat)
<1>1. Init => CursorInv
  BY DEF Init, CursorInv
<1>2. IInv /\ CursorInv /\ [Next]_vars =>
        CursorInv' /\ [pc \notin {"idle", "spin"} => CallLeft' < CallLeft]_vars
  <2> SUFFICES ASSUME IInv, CursorInv, [Next]_vars
               PROVE  CursorInv' /\ [pc \notin {"idle", "spin"} => CallLeft' < CallLeft]_vars
    OBVIOUS
  <2>1. CASE Invoke
    <3>1. PICK a \in Requests : Start(a)
      BY <2>1 DEF Invoke
    <3>2. a \in Args
      BY InputAssumption
    <3>3. pc = "idle"
      BY <3>1 DEF Start
    <3> QED
      BY <3>1, <3>2, <3>3, StartsAtOne DEF IInv
  <2>2. CASE Step
    BY <2>2, CallNearer
  <2>3. CASE UNCHANGED vars
    BY <2>3 DEF vars, toolVars, CursorInv
  <2> QED
    BY <2>1, <2>2, <2>3 DEF Next
<1>3. IInv /\ CursorInv => CallLeft \in Nat
  BY CallLeftType DEF IInv
<1> QED
  BY <1>1, <1>2, <1>3, Invariance, PTL DEF Spec

\* Where a run is on the way through one key, or behind the last.
PhaseLeft ==
  CASE phase = "idle" -> 0
    [] phase = "remove" -> 1
    [] phase = "copyOut" -> 2
    [] phase = "calling" -> 3
    [] phase = "enroll" -> 4
    [] phase = "copyIn" -> 5

\* What a step does to a run in progress: end it, go on to the next key, go on
\* with this one, or bring the return of var_enroll() nearer, unless that looks
\* for a variable volume for ever.
RunNearer ==
  phase # "idle" =>
    \/ phase' = "idle"
    \/ step' > step
    \/ step' = step /\ PhaseLeft' < PhaseLeft
    \/ UNCHANGED <<step, phase>> /\ phase = "calling" /\ (CallLeft' < CallLeft \/ pc = "spin")

\* As long as nothing failed, the temporary file of an image that begins with the
\* variable volume does so, too, and the search of find_var_info ends.
SearchInv ==
  clean /\ file["input"].form = "fd" =>
    /\ phase = "enroll" => file["tmp"].form = "fd"
    /\ phase = "calling" /\ pc = "idle" /\ result = "true" => file["tmp"].form = "fd"
    /\ pc # "spin"

LEMMA RunNearerStep == RunInv /\ CursorInv /\ [SbNext]_sbVars => CursorInv' /\ [RunNearer]_sbVars
<1> SUFFICES ASSUME RunInv, CursorInv, [SbNext]_sbVars PROVE CursorInv' /\ [RunNearer]_sbVars
  OBVIOUS
<1>1. /\ IInv /\ TypeOK /\ step \in 1..5 /\ (phase # "idle" => sbconfig \in Configs /\ Valid(sbconfig))
      /\ (phase # "calling" => pc = "idle")
  BY DEF RunInv, SbTypeOK
<1>2. CASE UNCHANGED sbVars
  BY <1>2 DEF sbVars, vars, toolVars, CursorInv
<1>3. CASE \E c \in Configs : main(c)
  BY <1>3 DEF main, vars, toolVars, CursorInv, RunNearer
<1>4. CASE CopyIn \/ CopyOut \/ Remove \/ RemoveFails \/ CopyFails
  <2>1. phase # "idle" /\ phase # "calling" /\ UNCHANGED <<toolVars, step>>
    BY <1>4 DEF CopyIn, CopyOut, Remove, RemoveFails, CopyFails, vars
  <2>2. phase' = "idle" \/ <<phase, phase'>> \in {<<"copyIn", "enroll">>, <<"copyOut", "remove">>}
    BY <1>4 DEF CopyIn, CopyOut, Remove, RemoveFails, CopyFails, End
  <2>3. CursorInv'
    BY <2>1 DEF toolVars, CursorInv
  <2>4. RunNearer
    BY <2>1, <2>2 DEF RunNearer, PhaseLeft
  <2> QED
    BY <2>3, <2>4
<1>5. CASE Skip
  <2>1. UNCHANGED vars /\ step' = step + 1
    BY <1>5 DEF Skip
  <2> QED
    BY <1>1, <2>1 DEF vars, toolVars, CursorInv, RunNearer
<1>6. CASE Call
  <2>1. phase = "enroll" /\ phase' = "calling" /\ step' = step /\ Order[step] \in DOMAIN sbconfig
        /\ Start(ArgsFor(Order[step]))
    BY <1>6 DEF Call
  <2>2. ArgsFor(Order[step]) \in Args
    BY <1>1, <2>1, ArgsForOk
  <2>3. CursorInv'
    BY <1>1, <2>1, <2>2, StartsAtOne
  <2> QED
    BY <2>1, <2>3 DEF RunNearer, PhaseLeft
<1>7. CASE Tool \/ ToolIoError
  <2>1. Step /\ phase = "calling" /\ UNCHANGED <<step, phase>>
    BY <1>7 DEF Tool, ToolIoError, Step, runVars
  <2> QED
    BY <1>1, <2>1, CallNearer DEF RunNearer
<1>8. CASE Returned
  <2>1. /\ UNCHANGED vars /\ phase = "calling"
        /\ \/ phase' = "idle"
           \/ phase' = "copyOut" /\ step = 5 /\ step' = 5
           \/ step' = step + 1
    BY <1>8 DEF Returned, End
  <2> QED
    BY <1>1, <2>1 DEF vars, toolVars, CursorInv, RunNearer, PhaseLeft
<1>9. CASE Kill
  BY <1>9 DEF Kill, End, CursorInv, RunNearer
<1> QED
  BY <1>2, <1>3, <1>4, <1>5, <1>6, <1>7, <1>8, <1>9 DEF SbNext, Run

LEMMA SearchStep == RunInv /\ SearchInv /\ [SbNext]_sbVars => SearchInv'
<1> SUFFICES ASSUME RunInv, SearchInv, [SbNext]_sbVars, clean', file'["input"].form = "fd"
             PROVE  /\ phase' = "enroll" => file'["tmp"].form = "fd"
                    /\ phase' = "calling" /\ pc' = "idle" /\ result' = "true" => file'["tmp"].form = "fd"
                    /\ pc' # "spin"
  BY DEF SearchInv
<1>1. /\ IInv /\ TypeOK /\ (phase # "idle" => sbconfig \in Configs /\ Valid(sbconfig))
      /\ (phase # "calling" => pc = "idle") /\ file \in [Paths -> FD]
      /\ (phase = "calling" => Order[step] \in DOMAIN sbconfig /\ args = ArgsFor(Order[step]))
  BY DEF RunInv, SbTypeOK, TypeOK
<1>2. file["input"].form = "fd"
  BY OutputStep
<1>3. CASE UNCHANGED sbVars
  BY <1>2, <1>3 DEF sbVars, runVars, vars, toolVars, SearchInv
<1>4. CASE \E c \in Configs : main(c)
  BY <1>1, <1>4 DEF main, End, vars, toolVars
<1>5. CASE CopyIn
  BY <1>1, <1>2, <1>5, SbNamesAre DEF CopyIn, toolVars
<1>6. CASE CopyOut \/ Remove \/ RemoveFails \/ CopyFails
  BY <1>1, <1>6 DEF CopyOut, Remove, RemoveFails, CopyFails, End, vars, toolVars
<1>7. CASE Skip
  BY <1>1, <1>2, <1>7 DEF Skip, vars, toolVars, SearchInv
<1>8. CASE Call
  <2>1. ArgsFor(Order[step]).input = "tmp" /\ file["tmp"].form = "fd"
    BY <1>1, <1>2, <1>8, ArgsForOk DEF Call, SearchInv
  <2>2. pc' = "walk" /\ phase' = "calling"
    BY <1>8, <2>1 DEF Call, Start
  <2> QED
    BY <2>2
<1>9. CASE Tool
  <2>1. /\ phase = "calling" /\ phase' = "calling" /\ clean /\ pc # "spin" /\ Work
        /\ args.operation = "add" /\ args.output = "tmp"
    BY <1>1, <1>2, <1>9, ArgsForOk DEF Tool, runVars, SearchInv
  <2>2. CASE WriteOutput
    <3>1. file' = [file EXCEPT !["tmp"] = Buffer] /\ pc' = "idle"
      BY <2>1, <2>2 DEF WriteOutput, Return
    <3>2. file'["tmp"].form = "fd"
      BY <1>1, <3>1, SbNamesAre DEF Buffer
    <3> QED
      BY <2>1, <3>1, <3>2
  <2>3. CASE WalkEntry \/ WalkEnds \/ check_args \/ ArgsInvalid \/ BlobEntry \/ BlobEnds \/ OpenOutput
    BY <2>1, <2>3 DEF WalkEntry, WalkEnds, check_args, ArgsInvalid, BlobEntry, BlobEnds, OpenOutput, Return
  <2>4. CASE Add
    BY <2>1, <2>4 DEF Add, Raise, Sync, Return
  <2>5. ~Delete /\ ~Update /\ ~Spin
    BY <2>1 DEF Delete, Update, Spin
  <2> QED
    BY <2>5, <2>4, <2>3, <2>2, <2>1 DEF Work
<1>10. CASE Returned
  BY <1>1, <1>2, <1>10 DEF Returned, End, vars, toolVars, SearchInv
<1>11. CASE ToolIoError \/ Kill
  BY <1>11 DEF ToolIoError, Kill, End
<1> QED
  BY <1>3, <1>4, <1>5, <1>6, <1>7, <1>8, <1>9, <1>10, <1>11 DEF SbNext, Run

\* secure_boot: a run goes through its keys once.  On an image that begins with
\* the variable volume, every step of a run in which no write has failed leads
\* towards its end; only what a failed write has left can be looked through for
\* ever.
THEOREM RunIsBounded ==
  SbSpec => /\ [][RunNearer]_sbVars /\ [](CallLeft \in Nat)
            /\ [](clean /\ file["input"].form = "fd" => pc # "spin")
<1>1. SbInit => RunInv /\ CursorInv /\ SearchInv
  BY SbInitHolds DEF SbInit, Init, CursorInv, SearchInv
<1>2. RunInv /\ CursorInv /\ SearchInv /\ [SbNext]_sbVars =>
        (RunInv /\ CursorInv /\ SearchInv)' /\ [RunNearer]_sbVars
  BY RunHolds, RunNearerStep, SearchStep
<1>3. RunInv /\ CursorInv => CallLeft \in Nat
  BY CallLeftType DEF RunInv, SbTypeOK
<1>4. SearchInv => (clean /\ file["input"].form = "fd" => pc # "spin")
  BY DEF SearchInv
<1> QED
  BY <1>1, <1>2, <1>3, <1>4, PTL DEF SbSpec

=============================================================================
