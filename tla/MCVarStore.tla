----------------------------- MODULE MCVarStore -----------------------------
(* Instances of VarStore for TLC.                                          *)
EXTENDS VarStore

Pay(g, f)    == [owner |-> g, file |-> f]
In(n, g, d)  == [name |-> n, guid |-> g, data |-> d, added |-> TRUE]
Out(n, g, d) == [name |-> n, guid |-> g, data |-> d, added |-> FALSE]
Fd(vs) == [form |-> "fd", vars |-> vs, stop |-> "erased", tail |-> "intact"]

Blank == Fd(<<>>)

\* A store the firmware has used: a deleted KEK in front of the current one.
Used == Fd(<<Out("KEK", Global, <<Pay("own", "f1")>>), In("KEK", Global, <<Pay("own", "f2")>>)>>)

\* The store of another format of variables.
Other == [Blank EXCEPT !.form = "foreign"]

Factory == {NoFile, Other, Blank, Used}

Ask(op, n, g, i, o) ==
  [operation |-> op, name |-> n, guid |-> g, data_file |-> "f1", attributes |-> TRUE,
   input |-> i, output |-> o]

\* Each operation on a key and on a plain variable, under the GUIDs and
\* spellings that are found and those that are not, and two invalid calls.
Calls(i, o) ==
  {Ask("add", n, "own", i, o) : n \in {"PK", "KEK", "boot"}}
    \cup {Ask("append", n, "own", i, o) : n \in {"PK", "Kek", "boot"}}
    \cup {Ask(op, n, "global", i, o) : op \in {"delete", "update"}, n \in {"PK", "KEK"}}
    \cup {Ask("delete", n, "own", i, o) : n \in {"KEK", "boot"}}
    \cup {Ask("update", "boot", "own", i, o), Ask("add", "DBX", "own", i, o),
          [Ask("add", "boot", "own", i, o) EXCEPT !.data_file = "f2"],
          [Ask("append", "boot", "own", i, o) EXCEPT !.attributes = FALSE]}

\* Calls from one file to another, and every call in place.
CopyThenEdit ==
  {Ask("add", "KEK", "own", "p", "q"), Ask("delete", "KEK", "global", "p", "q"),
   Ask("append", "boot", "own", "p", "q")} \cup Calls("q", "q")

=============================================================================
