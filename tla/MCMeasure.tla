------------------------------ MODULE MCMeasure ------------------------------
(* An instance of Quote, with Measure, for TLC.                            *)
EXTENDS Quote

Strings == {"", "text"}
ShaOf   == [s \in Strings |-> IF s = "" THEN "shaEmpty" ELSE "shaText"]

Spec384 == [kind |-> "spec", reg |-> 1, algs |-> {"sha384"}, digests |-> <<>>, size |-> 1]
EndMark == [Spec384 EXCEPT !.kind = "end", !.algs = {}]
Logged(r, d) ==
  [kind |-> "event", reg |-> r, algs |-> {}, size |-> 1,
   digests |-> <<[alg |-> "sha384", digest |-> d]>>]

BootLog == <<Spec384, Logged(1, "d1"), Logged(2, "d1"), Logged(1, "d2")>>

\* An ordinary log, one that fills the area, one that is shorter than the area,
\* an empty one, and entries that do not parse or have no register.
AllLogs ==
  {Append(BootLog, EndMark), BootLog \o <<Logged(3, "d2"), Logged(1, "d1")>>, BootLog, <<EndMark>>,
   <<Logged(1, "d1"), EndMark>>,
   <<Spec384, [Logged(1, "d1") EXCEPT !.size = 0], EndMark>>,
   <<Spec384, Logged(5, "d1"), EndMark>>,
   <<Spec384, Logged(0, "d1"), EndMark>>}

\* What the firmware extended for each of them.
AllBoots ==
  [l \in AllLogs |->
     LET after[n \in 0..Len(l)] == IF n = 0 THEN Zeros ELSE Extended(after[n - 1], l[n])
     IN  after]

Ask(raw, str, digest, i) == [raw |-> raw, str |-> str, digest |-> digest, index |-> i]

AllRequests ==
  {Ask(None, "text", None, 2), Ask(None, None, "d1", 2), Ask(None, None, "d1", 0),
   Ask(None, None, "short", 3), Ask(None, None, "no hex", 3), Ask(None, None, None, 3)}

Line(alg, d, b) == [alg |-> alg, digest |-> d, boot_aggregate |-> b]

ImaLines == <<Line("sha384", "d1", TRUE), Line("sha384", "d2", FALSE), Line("sha256", "d1", FALSE)>>

\* Report data that just fits, as the command's digest does, or is too long.
AllReportDatas ==
  {[data |-> "hashed", length |-> REPORTDATA_LEN], [data |-> "long", length |-> REPORTDATA_LEN + 1]}
=============================================================================
