---------------------------- MODULE MCSecureBoot ----------------------------
(* Instances of SecureBoot for TLC.                                        *)
EXTENDS SecureBoot

In(n, g, d) == [name |-> n, guid |-> g, data |-> d, added |-> TRUE]
Out(n, g, d) == [name |-> n, guid |-> g, data |-> d, added |-> FALSE]
Fd(vs) == [form |-> "fd", vars |-> vs, stop |-> "erased", tail |-> "intact"]

\* An image that has been used: an older KEK, deleted, then the current one.
Used ==
  Fd(<<Out("KEK", Global, <<[owner |-> "own", file |-> "f1"]>>),
       In("KEK", Global, <<[owner |-> "own", file |-> "f2"]>>)>>)

Factory == {NoFile, Used}

Given(names, g, f) ==
  [n \in names \cup {"SecureBootEnable"} |->
     IF n = "SecureBootEnable" THEN [guid |-> "sb", file |-> "f1"]
                               ELSE [guid |-> g, file |-> f]]

\* The KEK the image has is replaced and keys are added; a dbx that does not
\* parse; an invalid GUID and a missing file.
Lines ==
  {Given({"PK", "KEK", "db"}, "own", "f2"), Given({"KEK", "dbx"}, "own", "f1"),
   Given({"PK", "dbx"}, "own", "f2"),
   Given({"PK"}, "no guid", "f1"), Given({"KEK"}, "own", "gone")}

NoRequests == {}
=============================================================================
