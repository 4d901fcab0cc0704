--------------------------- MODULE KernelCmdline ---------------------------
(***************************************************************************)
(* class KernelCmdline (vmparam.py): a kernel command line as the sequence *)
(* of its fields.  Some operations compare whole fields, others look for   *)
(* text: a field whose text lies inside the text of another one is found   *)
(* by them although it is not there.                                       *)
(***************************************************************************)
EXTENDS Integers, Sequences, Functions

CONSTANTS
    Fields,         \* the fields in use, such as console=hvc0
    KeyOf,          \* field -> its key, the part before "="
    Inside,         \* pairs <<f, h>>: the text of f is part of the text of h
    DEFAULT_CMDLINE,
    Rest            \* what is left of a field when text inside it is removed

ASSUME CmdlineAssumption ==
    /\ Inside \subseteq Fields \X Fields
    /\ DEFAULT_CMDLINE \in Seq(Fields)
    /\ Rest \in Fields
    /\ Fields \subseteq DOMAIN KeyOf

\* Mutant: the text of a field is looked for in f, not that of f in the field.
FoundInside(cmdline, f) ==
    \E h \in Range(cmdline) : h = f \/ <<h, f>> \in Inside

is_field_exists(cmdline, f) ==
    \E h \in Range(cmdline) : h = f \/ <<f, h>> \in Inside

add_field_from_string(cmdline, f) ==
    IF is_field_exists(cmdline, f) THEN cmdline ELSE Append(cmdline, f)

add_field(cmdline, f) == Append(cmdline, f)

\* The fields that are kept, in their order.
Keep(cmdline, kept) ==
    LET f[n \in 0..Len(cmdline)] ==
            IF n = 0 THEN <<>>
            ELSE IF cmdline[n] \in kept THEN Append(f[n - 1], cmdline[n])
            ELSE f[n - 1]
    IN  f[Len(cmdline)]

\* cmdline += value: the whole value is added for every item that is missing.
iadd(cmdline, value) ==
    LET f[n \in 0..Len(value)] ==
            IF n = 0 THEN cmdline
            ELSE IF value[n] \in Range(f[n - 1]) THEN f[n - 1]
            ELSE f[n - 1] \o value
    IN  f[Len(value)]

\* str.replace: the text goes wherever it is found.
remove_field_from_string(cmdline, f) ==
    LET kept == Keep(cmdline, Fields \ {f})
    IN  [i \in DOMAIN kept |-> IF <<f, kept[i]>> \in Inside THEN Rest ELSE kept[i]]

remove_fields(cmdline, key) == Keep(cmdline, {h \in Fields : KeyOf[h] # key})

\* The value the kernel uses when a key is given several times: the last one.
Effective(cmdline, key) ==
    LET these == {i \in DOMAIN cmdline : KeyOf[cmdline[i]] = key}
    IN  IF these = {} THEN Rest
        ELSE cmdline[CHOOSE i \in these : \A j \in these : j <= i]

=============================================================================
