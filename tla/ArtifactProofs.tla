--------------------------- MODULE ArtifactProofs ---------------------------
(***************************************************************************)
(* Proofs about Artifact, for any number of versions.                      *)
(***************************************************************************)
EXTENDS Artifact, TLAPS

\* A call that has returned is over, and what it returned is fresh.
Fresh == (outcome = "returned" => pc = "idle") /\ ReturnedFresh

\* The values a file can have.
LEMMA FileForms ==
  /\ Missing \in File
  /\ \A v \in 0..MaxVer : Partial(v) \in File /\ Full(v) \in File
  /\ \A f \in File : f.ver \in 0..MaxVer
  /\ Missing.kind = "none"
  BY MaxVerAssumption DEF Missing, File, Partial, Full

\* Every step of download() keeps the types.
LEMMA TypeOKStep == TypeOK /\ [Next]_vars => TypeOK'
<1> SUFFICES ASSUME TypeOK, [Next]_vars PROVE TypeOK'
  OBVIOUS
<1> USE MaxVerAssumption, FileForms DEF disk, self, MaxRetries, Versions,
      Source, TypeOK
<1>1. ASSUME get PROVE TypeOK'
  <2>1. since' \in 0..MaxVer /\ retries' \in 0..MaxRetries
    BY <1>1 DEF get
  <2> QED
    BY <1>1, <2>1, Zenon DEF get
<1>2. ASSUME Exhausted PROVE TypeOK'
  BY <1>2 DEF Exhausted, Leave
<1>3. ASSUME NotCached PROVE TypeOK'
  BY <1>3 DEF NotCached
<1>4. ASSUME Valid PROVE TypeOK'
  BY <1>4 DEF Valid, Leave, Wanted
<1>5. ASSUME Invalid PROVE TypeOK'
  BY <1>5 DEF Invalid, Wanted
<1>6. ASSUME SumFails PROVE TypeOK'
  BY <1>6 DEF SumFails, Raise, Abort, Spoils
<1>7. ASSUME Request PROVE TypeOK'
  BY <1>7 DEF Request
<1>8. ASSUME RequestFails PROVE TypeOK'
  BY <1>8 DEF RequestFails, Raise, Abort, Spoils
<1>9. ASSUME Save PROVE TypeOK'
  <2>1. retries' \in 0..MaxRetries
    BY <1>9 DEF Save, Again
  <2>2. cache' \in File
    BY <1>9 DEF Save, Again
  <2> QED
    BY <1>9, <2>1, <2>2 DEF Save, Again
<1>10. ASSUME SaveFails PROVE TypeOK'
  <2>1. retries' \in 0..MaxRetries
    BY <1>10 DEF SaveFails, Again
  <2>2. cache' \in File
    BY <1>10 DEF SaveFails, Again
  <2> QED
    BY <1>10, <2>1, <2>2 DEF SaveFails, Again
<1>11. ASSUME SaveRaises PROVE TypeOK'
  BY <1>11 DEF SaveRaises, Raise, Abort, Spoils
<1>12. ASSUME Extracted PROVE TypeOK'
  BY <1>12 DEF Extracted, NeedExtract
<1>13. ASSUME Extract PROVE TypeOK'
  BY <1>13 DEF Extract, NeedExtract
<1>14. ASSUME ExtractFails PROVE TypeOK'
  BY <1>14 DEF ExtractFails, NeedExtract, PartOfExt, Raise, Abort, Spoils
<1>15. ASSUME Copy PROVE TypeOK'
  BY <1>15 DEF Copy, Return, need_copy
<1>16. ASSUME UpToDate PROVE TypeOK'
  BY <1>16 DEF UpToDate, Return, need_copy
<1>17. ASSUME NoSource PROVE TypeOK'
  BY <1>17 DEF NoSource, Raise, Abort, Spoils
<1>18. ASSUME CopyFails PROVE TypeOK'
  BY <1>18 DEF CopyFails, PartOfDest, need_copy, Raise, Abort, Spoils
<1>19. ASSUME Kill PROVE TypeOK'
  BY <1>19 DEF Kill, NeedExtract, PartOfExt, PartOfDest, need_copy, Abort,
      Spoils
<1>20. ASSUME Publish PROVE TypeOK'
  BY <1>20 DEF Publish
<1>21. CASE UNCHANGED vars
  BY <1>21 DEF vars
<1> HIDE DEF TypeOK
<1> QED
  BY <1>1, <1>2, <1>3, <1>4, <1>5, <1>6, <1>7, <1>8, <1>9, <1>10, <1>11,
     <1>12, <1>13, <1>14, <1>15, <1>16, <1>17, <1>18, <1>19, <1>20, <1>21
  DEF Next, Step

\* A checksum that was right in _validate_sha256sum stays right in the call.
LEMMA CheckStep == TypeOK /\ CheckHolds /\ [Next]_vars => CheckHolds'
<1> SUFFICES ASSUME TypeOK /\ CheckHolds, [Next]_vars PROVE CheckHolds'
  OBVIOUS
<1> USE MaxVerAssumption DEF disk, self, MaxRetries, Versions, File, Missing,
      Partial, Full, Source, TypeOK, CheckHolds, Good
<1>1. ASSUME get PROVE CheckHolds'
  BY <1>1 DEF get
<1>2. ASSUME Exhausted PROVE CheckHolds'
  BY <1>2 DEF Exhausted, Leave
<1>3. ASSUME NotCached PROVE CheckHolds'
  BY <1>3 DEF NotCached
<1>4. ASSUME Valid PROVE CheckHolds'
  BY <1>4 DEF Valid, Leave, Wanted
<1>5. ASSUME Invalid PROVE CheckHolds'
  BY <1>5 DEF Invalid, Wanted
<1>6. ASSUME SumFails PROVE CheckHolds'
  BY <1>6 DEF SumFails, Raise, Abort, Spoils
<1>7. ASSUME Request PROVE CheckHolds'
  BY <1>7 DEF Request
<1>8. ASSUME RequestFails PROVE CheckHolds'
  BY <1>8 DEF RequestFails, Raise, Abort, Spoils
<1>9. ASSUME Save PROVE CheckHolds'
  BY <1>9 DEF Save, Again
<1>10. ASSUME SaveFails PROVE CheckHolds'
  BY <1>10 DEF SaveFails, Again
<1>11. ASSUME SaveRaises PROVE CheckHolds'
  BY <1>11 DEF SaveRaises, Raise, Abort, Spoils
<1>12. ASSUME Extracted PROVE CheckHolds'
  BY <1>12 DEF Extracted, NeedExtract
<1>13. ASSUME Extract PROVE CheckHolds'
  BY <1>13 DEF Extract, NeedExtract
<1>14. ASSUME ExtractFails PROVE CheckHolds'
  BY <1>14 DEF ExtractFails, NeedExtract, PartOfExt, Raise, Abort, Spoils
<1>15. ASSUME Copy PROVE CheckHolds'
  BY <1>15 DEF Copy, Return, need_copy
<1>16. ASSUME UpToDate PROVE CheckHolds'
  BY <1>16 DEF UpToDate, Return, need_copy
<1>17. ASSUME NoSource PROVE CheckHolds'
  BY <1>17 DEF NoSource, Raise, Abort, Spoils
<1>18. ASSUME CopyFails PROVE CheckHolds'
  BY <1>18 DEF CopyFails, PartOfDest, need_copy, Raise, Abort, Spoils
<1>19. ASSUME Kill PROVE CheckHolds'
  BY <1>19 DEF Kill, NeedExtract, PartOfExt, PartOfDest, need_copy, Abort,
      Spoils
<1>20. ASSUME Publish PROVE CheckHolds'
  BY <1>20 DEF Publish
<1>21. CASE UNCHANGED vars
  BY <1>21 DEF vars
<1> HIDE DEF CheckHolds
<1> QED
  BY <1>1, <1>2, <1>3, <1>4, <1>5, <1>6, <1>7, <1>8, <1>9, <1>10, <1>11,
     <1>12, <1>13, <1>14, <1>15, <1>16, <1>17, <1>18, <1>19, <1>20, <1>21
  DEF Next, Step

\* Every step keeps the unpacked file in line with its archive.
LEMMA ExtStep == TypeOK /\ CheckHolds /\ ExtMatches /\ [Next]_vars => ExtMatches'
<1> SUFFICES ASSUME TypeOK /\ CheckHolds /\ ExtMatches, [Next]_vars PROVE ExtMatches'
  OBVIOUS
<1> USE MaxVerAssumption DEF disk, self, MaxRetries, Versions, File, Missing,
      Partial, Full, Source, TypeOK, CheckHolds, ExtMatches, Good
<1>1. ASSUME get PROVE ExtMatches'
  BY <1>1 DEF get
<1>2. ASSUME Exhausted PROVE ExtMatches'
  BY <1>2 DEF Exhausted, Leave
<1>3. ASSUME NotCached PROVE ExtMatches'
  BY <1>3 DEF NotCached
<1>4. ASSUME Valid PROVE ExtMatches'
  BY <1>4 DEF Valid, Leave, Wanted
<1>5. ASSUME Invalid PROVE ExtMatches'
  BY <1>5 DEF Invalid, Wanted
<1>6. ASSUME SumFails PROVE ExtMatches'
  BY <1>6 DEF SumFails, Raise, Abort, Spoils
<1>7. ASSUME Request PROVE ExtMatches'
  BY <1>7 DEF Request
<1>8. ASSUME RequestFails PROVE ExtMatches'
  BY <1>8 DEF RequestFails, Raise, Abort, Spoils
<1>9. ASSUME Save PROVE ExtMatches'
  BY <1>9 DEF Save, Again
<1>10. ASSUME SaveFails PROVE ExtMatches'
  BY <1>10 DEF SaveFails, Again
<1>11. ASSUME SaveRaises PROVE ExtMatches'
  BY <1>11 DEF SaveRaises, Raise, Abort, Spoils
<1>12. ASSUME Extracted PROVE ExtMatches'
  BY <1>12 DEF Extracted, NeedExtract
<1>13. ASSUME Extract PROVE ExtMatches'
  BY <1>13 DEF Extract, NeedExtract
<1>14. ASSUME ExtractFails PROVE ExtMatches'
  BY <1>14 DEF ExtractFails, NeedExtract, PartOfExt, Raise, Abort, Spoils
<1>15. ASSUME Copy PROVE ExtMatches'
  BY <1>15 DEF Copy, Return, need_copy
<1>16. ASSUME UpToDate PROVE ExtMatches'
  BY <1>16 DEF UpToDate, Return, need_copy
<1>17. ASSUME NoSource PROVE ExtMatches'
  BY <1>17 DEF NoSource, Raise, Abort, Spoils
<1>18. ASSUME CopyFails PROVE ExtMatches'
  BY <1>18 DEF CopyFails, PartOfDest, need_copy, Raise, Abort, Spoils
<1>19. ASSUME Kill PROVE ExtMatches'
  BY <1>19 DEF Kill, NeedExtract, PartOfExt, PartOfDest, need_copy, Abort,
      Spoils
<1>20. ASSUME Publish PROVE ExtMatches'
  BY <1>20 DEF Publish
<1>21. CASE UNCHANGED vars
  BY <1>21 DEF vars
<1> HIDE DEF ExtMatches
<1> QED
  BY <1>1, <1>2, <1>3, <1>4, <1>5, <1>6, <1>7, <1>8, <1>9, <1>10, <1>11,
     <1>12, <1>13, <1>14, <1>15, <1>16, <1>17, <1>18, <1>19, <1>20, <1>21
  DEF Next, Step

\* Every step keeps the time stamps true: dest_file is its source or is older.
LEMMA DestStep == TypeOK /\ DestMatches /\ [Next]_vars => DestMatches'
<1> SUFFICES ASSUME TypeOK /\ DestMatches, [Next]_vars PROVE DestMatches'
  OBVIOUS
<1> USE MaxVerAssumption DEF disk, self, MaxRetries, Versions, File, Missing,
      Partial, Full, Source, TypeOK, DestMatches
<1>1. ASSUME get PROVE DestMatches'
  BY <1>1 DEF get
<1>2. ASSUME Exhausted PROVE DestMatches'
  BY <1>2 DEF Exhausted, Leave
<1>3. ASSUME NotCached PROVE DestMatches'
  BY <1>3 DEF NotCached
<1>4. ASSUME Valid PROVE DestMatches'
  BY <1>4 DEF Valid, Leave, Wanted
<1>5. ASSUME Invalid PROVE DestMatches'
  BY <1>5 DEF Invalid, Wanted
<1>6. ASSUME SumFails PROVE DestMatches'
  BY <1>6 DEF SumFails, Raise, Abort, Spoils
<1>7. ASSUME Request PROVE DestMatches'
  BY <1>7 DEF Request
<1>8. ASSUME RequestFails PROVE DestMatches'
  BY <1>8 DEF RequestFails, Raise, Abort, Spoils
<1>9. ASSUME Save PROVE DestMatches'
  BY <1>9 DEF Save, Again
<1>10. ASSUME SaveFails PROVE DestMatches'
  <2>1. CASE archive
    BY <1>10, <2>1 DEF SaveFails, Again
  <2>2. CASE ~archive
    BY <1>10, <2>2 DEF SaveFails, Again
  <2> QED
    BY <2>1, <2>2
<1>11. ASSUME SaveRaises PROVE DestMatches'
  BY <1>11 DEF SaveRaises, Raise, Abort, Spoils
<1>12. ASSUME Extracted PROVE DestMatches'
  BY <1>12 DEF Extracted, NeedExtract
<1>13. ASSUME Extract PROVE DestMatches'
  BY <1>13 DEF Extract, NeedExtract
<1>14. ASSUME ExtractFails PROVE DestMatches'
  BY <1>14 DEF ExtractFails, NeedExtract, PartOfExt, Raise, Abort, Spoils
<1>15. ASSUME Copy PROVE DestMatches'
  BY <1>15 DEF Copy, Return, need_copy
<1>16. ASSUME UpToDate PROVE DestMatches'
  BY <1>16 DEF UpToDate, Return, need_copy
<1>17. ASSUME NoSource PROVE DestMatches'
  BY <1>17 DEF NoSource, Raise, Abort, Spoils
<1>18. ASSUME CopyFails PROVE DestMatches'
  <2>1. CASE UNCHANGED disk
    BY <1>18, <2>1 DEF CopyFails, Raise, Abort
  <2>2. CASE dest' = Partial(Source.ver) /\ newer' = FALSE /\ UNCHANGED <<cache, ext>>
    BY <1>18, <2>2 DEF CopyFails, PartOfDest, need_copy, Raise, Abort, Spoils
  <2> QED
    BY <1>18, <2>2, <2>1 DEF CopyFails, PartOfDest
<1>19. ASSUME Kill PROVE DestMatches'
  <2>1. CASE UNCHANGED disk
    BY <1>19, <2>1 DEF Kill, Abort
  <2>2. CASE pc = "save" /\ newer' = (newer \/ ~archive) /\ UNCHANGED <<ext, dest>>
    <3>1. CASE archive
      BY <1>19, <2>2, <3>1 DEF Kill, Abort
    <3>2. CASE ~archive
      BY <1>19, <2>2, <3>2 DEF Kill, Abort
    <3> QED
      BY <3>1, <3>2
  <2>3. CASE pc = "extract" /\ PartOfExt /\ UNCHANGED <<cache, dest>>
    BY <1>19, <2>3 DEF Kill, PartOfExt, Abort
  <2>4. CASE pc = "copy" /\ dest' = Partial(Source.ver) /\ newer' = FALSE /\ UNCHANGED <<cache, ext>>
    BY <1>19, <2>4 DEF Kill, Abort, Spoils
  <2> QED
    BY <1>19, <2>4, <2>1, <2>2, <2>3 DEF Kill, PartOfDest
<1>20. ASSUME Publish PROVE DestMatches'
  BY <1>20 DEF Publish
<1>21. CASE UNCHANGED vars
  BY <1>21 DEF vars
<1> HIDE DEF DestMatches
<1> QED
  BY <1>1, <1>2, <1>3, <1>4, <1>5, <1>6, <1>7, <1>8, <1>9, <1>10, <1>11,
     <1>12, <1>13, <1>14, <1>15, <1>16, <1>17, <1>18, <1>19, <1>20, <1>21
  DEF Next, Step

\* A call that returns after a right checksum has a complete and fresh file.
LEMMA FreshStep == TypeOK /\ CheckHolds /\ ExtMatches /\ DestMatches /\ Fresh /\ [Next]_vars => Fresh'
<1> SUFFICES ASSUME TypeOK /\ CheckHolds /\ ExtMatches /\ DestMatches /\ Fresh, [Next]_vars PROVE Fresh'
  OBVIOUS
<1> USE MaxVerAssumption DEF disk, self, MaxRetries, Versions, File, Missing,
      Partial, Full, Source, TypeOK, CheckHolds, ExtMatches, DestMatches,
      ReturnedFresh, Fresh, Good
<1>1. ASSUME get PROVE Fresh'
  BY <1>1 DEF get
<1>2. ASSUME Exhausted PROVE Fresh'
  BY <1>2 DEF Exhausted, Leave
<1>3. ASSUME NotCached PROVE Fresh'
  BY <1>3 DEF NotCached
<1>4. ASSUME Valid PROVE Fresh'
  BY <1>4 DEF Valid, Leave, Wanted
<1>5. ASSUME Invalid PROVE Fresh'
  BY <1>5 DEF Invalid, Wanted
<1>6. ASSUME SumFails PROVE Fresh'
  BY <1>6 DEF SumFails, Raise, Abort, Spoils
<1>7. ASSUME Request PROVE Fresh'
  BY <1>7 DEF Request
<1>8. ASSUME RequestFails PROVE Fresh'
  BY <1>8 DEF RequestFails, Raise, Abort, Spoils
<1>9. ASSUME Save PROVE Fresh'
  BY <1>9 DEF Save, Again
<1>10. ASSUME SaveFails PROVE Fresh'
  BY <1>10 DEF SaveFails, Again
<1>11. ASSUME SaveRaises PROVE Fresh'
  BY <1>11 DEF SaveRaises, Raise, Abort, Spoils
<1>12. ASSUME Extracted PROVE Fresh'
  BY <1>12 DEF Extracted, NeedExtract
<1>13. ASSUME Extract PROVE Fresh'
  BY <1>13 DEF Extract, NeedExtract
<1>14. ASSUME ExtractFails PROVE Fresh'
  BY <1>14 DEF ExtractFails, NeedExtract, PartOfExt, Raise, Abort, Spoils
<1>15. ASSUME Copy PROVE Fresh'
  BY <1>15 DEF Copy, Return, need_copy
<1>16. ASSUME UpToDate PROVE Fresh'
  BY <1>16 DEF UpToDate, Return, need_copy
<1>17. ASSUME NoSource PROVE Fresh'
  BY <1>17 DEF NoSource, Raise, Abort, Spoils
<1>18. ASSUME CopyFails PROVE Fresh'
  BY <1>18 DEF CopyFails, PartOfDest, need_copy, Raise, Abort, Spoils
<1>19. ASSUME Kill PROVE Fresh'
  BY <1>19 DEF Kill, NeedExtract, PartOfExt, PartOfDest, need_copy, Abort,
      Spoils
<1>20. ASSUME Publish PROVE Fresh'
  BY <1>20 DEF Publish
<1>21. CASE UNCHANGED vars
  BY <1>21 DEF vars
<1> HIDE DEF Fresh
<1> QED
  BY <1>1, <1>2, <1>3, <1>4, <1>5, <1>6, <1>7, <1>8, <1>9, <1>10, <1>11,
     <1>12, <1>13, <1>14, <1>15, <1>16, <1>17, <1>18, <1>19, <1>20, <1>21
  DEF Next, Step

\* The five parts together are kept by every behaviour of the calls, the kills
\* and the server.
THEOREM Invariance == Spec => []IInv
<1>1. Init => IInv
  <2> SUFFICES ASSUME Init PROVE IInv
    OBVIOUS
  <2>1. /\ remote \in Versions /\ since <= remote /\ retries \in 0..MaxRetries
        /\ response \in 0..MaxVer /\ since \in 0..MaxVer
    BY MaxVerAssumption DEF Init, Versions, MaxRetries
  <2>2. cache \in File /\ ext \in File /\ dest \in File /\ dest.kind = "none" /\ ext.kind = "none"
    BY FileForms DEF Init
  <2>3. TypeOK
    BY <2>1, <2>2, Zenon DEF Init, TypeOK
  <2> QED
    BY <2>1, <2>2, <2>3
    DEF Init, IInv, CheckHolds, ExtMatches, DestMatches, ReturnedFresh
<1>2. IInv /\ [Next]_vars => IInv'
  BY TypeOKStep, CheckStep, ExtStep, DestStep, FreshStep DEF IInv, Fresh
<1> QED
  BY <1>1, <1>2, PTL DEF Spec

\* The files, the counters and the history of get() keep their types.
THEOREM TypeCorrect == Spec => []TypeOK
<1>1. IInv => TypeOK
  BY DEF IInv
<1> QED
  BY <1>1, Invariance, PTL

\* download(): after a right checksum the file it returns is complete and no
\* older than the server's version when the call began, however many earlier
\* calls failed or were killed, as long as none of them left a stale unpacked
\* file or a piece of dest_file.
THEOREM FreshAfterCheck == Spec => []ReturnedFresh
<1>1. IInv => ReturnedFresh
  BY DEF IInv
<1> QED
  BY <1>1, Invariance, PTL

-----------------------------------------------------------------------------
(* How long a call can take: the safety half of GetEnds.                   *)

\* Steps the call in progress can still take: three for each download that is
\* left, one for the check that finds no retries left, one to unpack, one to
\* copy.
StepsLeft ==
  CASE pc = "idle" -> 0
    [] pc = "copy" -> 1
    [] pc = "extract" -> 2
    [] pc = "save" -> 1 + 3 * (MaxRetries - retries)
    [] pc = "request" -> 2 + 3 * (MaxRetries - retries)
    [] pc = "check" -> 3 + 3 * (MaxRetries - retries)

\* A call begins with the longest way before it.  Until it is over, every step is
\* one of the server, which leaves the call alone, or shortens the way.
Nearer ==
  IF pc = "idle" THEN StepsLeft' \in {0, 3 + 3 * MaxRetries}
                 ELSE StepsLeft' < StepsLeft \/ (Publish /\ StepsLeft' = StepsLeft)

\* The way that is left has a length.
LEMMA StepsLeftType == TypeOK => StepsLeft \in Nat
<1> SUFFICES ASSUME TypeOK PROVE StepsLeft \in Nat
  OBVIOUS
<1>1. /\ pc \in {"idle", "check", "request", "save", "extract", "copy"}
      /\ retries \in 0..5
  BY DEF TypeOK, MaxRetries
<1>2. 3 * (5 - retries) \in Nat
  BY <1>1
<1>3. CASE pc \in {"idle", "copy", "extract"}
  BY <1>3 DEF StepsLeft
<1>4. CASE pc \in {"check", "request", "save"}
  BY <1>2, <1>4 DEF StepsLeft, MaxRetries
<1> QED
  BY <1>1, <1>3, <1>4

\* Each step of get() brings the end nearer, whether it succeeds, fails or dies.
LEMMA NearerStep == TypeOK /\ [Next]_vars => [Nearer]_vars
<1> SUFFICES ASSUME TypeOK, [Next]_vars PROVE [Nearer]_vars
  OBVIOUS
<1> USE DEF MaxRetries, StepsLeft
<1>1. /\ pc \in {"idle", "check", "request", "save", "extract", "copy"}
      /\ retries \in 0..5 /\ (pc \in {"request", "save"} => retries < 5)
  BY DEF TypeOK, MaxRetries
<1>3. ASSUME get PROVE Nearer
  <2>1. pc = "idle" /\ pc' = "check" /\ retries' = 0
    BY <1>3 DEF get
  <2> QED
    BY <2>1 DEF Nearer
<1>4. ASSUME Publish PROVE Nearer
  <2>1. pc' = pc /\ retries' = retries
    BY <1>4 DEF Publish
  <2>2. StepsLeft' = StepsLeft /\ (pc = "idle" => StepsLeft = 0)
    BY <2>1
  <2> QED
    BY <1>4, <2>2 DEF Nearer
<1>5. ASSUME Exhausted \/ Valid PROVE StepsLeft' < StepsLeft /\ pc # "idle"
  BY <1>1, <1>5 DEF Exhausted, Valid, Leave
<1>6. ASSUME NotCached \/ Invalid PROVE StepsLeft' < StepsLeft /\ pc # "idle"
  BY <1>1, <1>6 DEF NotCached, Invalid
<1>7. ASSUME SumFails \/ RequestFails \/ SaveRaises \/ ExtractFails \/ NoSource \/ CopyFails \/ Kill
      PROVE  StepsLeft' < StepsLeft /\ pc # "idle"
  <2>1. pc # "idle" /\ pc' = "idle"
    BY <1>7 DEF SumFails, RequestFails, SaveRaises, ExtractFails, NoSource, CopyFails, Kill, Raise, Abort
  <2> QED
    BY <1>1, <2>1
<1>8. ASSUME Request PROVE StepsLeft' < StepsLeft /\ pc # "idle"
  BY <1>1, <1>8 DEF Request
<1>9. ASSUME Save \/ SaveFails PROVE StepsLeft' < StepsLeft /\ pc # "idle"
  <2>1. pc = "save" /\ pc' = "check" /\ retries' = retries + 1
    BY <1>9 DEF Save, SaveFails, Again
  <2> QED
    BY <1>1, <2>1
<1>10. ASSUME Extracted \/ Extract PROVE StepsLeft' < StepsLeft /\ pc # "idle"
  BY <1>1, <1>10 DEF Extracted, Extract
<1>11. ASSUME Copy \/ UpToDate PROVE StepsLeft' < StepsLeft /\ pc # "idle"
  BY <1>1, <1>11 DEF Copy, UpToDate, Return
<1> HIDE DEF StepsLeft, MaxRetries
<1>12. ASSUME Step \/ Kill PROVE Nearer
  BY <1>5, <1>6, <1>7, <1>8, <1>9, <1>10, <1>11, <1>12 DEF Step, Nearer
<1> QED
  BY <1>3, <1>4, <1>12 DEF Next

\* get(): however often the network fails and files turn out to be invalid, a
\* call takes at most 18 steps, five downloads among them, before it returns or
\* raises, and no step leads back.
THEOREM CallIsBounded == Spec => [][Nearer]_vars /\ [](StepsLeft \in Nat)
<1>1. IInv /\ [Next]_vars => [Nearer]_vars
  BY NearerStep DEF IInv
<1>2. IInv => StepsLeft \in Nat
  BY StepsLeftType DEF IInv
<1> QED
  BY <1>1, <1>2, Invariance, PTL DEF Spec

=============================================================================
