-------------------------- MODULE DomainXmlProofs --------------------------
(***************************************************************************)
(* Proofs about DomainXml and KernelCmdline, for any guests, options,      *)
(* fields and edits, and any number of writes that fail.                   *)
(***************************************************************************)
EXTENDS DomainXml, TLAPS, SequenceTheorems, WellFoundedInduction

-----------------------------------------------------------------------------
(* Recursion over the fields of a command line. *)

\* A set of naturals has a least member.
LEMMA LeastNat ==
    ASSUME NEW T, T \subseteq Nat, T # {}
    PROVE  \E m \in T : \A n \in T : m <= n
    <1>1. PICK m \in T : \A n \in T : ~(<<n, m>> \in OpToRel(<, Nat))
        BY NatLessThanWellFounded, WFMin
    <1>2. \A n \in T : ~(n < m)
        BY <1>1 DEF OpToRel
    <1>3. \A n \in T : n \in Nat
        OBVIOUS
    <1> QED BY <1>2, <1>3

\* What holds at 0 and goes from each number to the next one holds up to m: here
\* that the values of f are in S.
LEMMA StaysIn ==
    ASSUME NEW m \in Nat, NEW S, NEW f, f[0] \in S,
           \A n \in 1..m : f[n - 1] \in S => f[n] \in S
    PROVE  f[m] \in S
    <1> DEFINE T == {n \in 0..m : f[n] \notin S}
    <1>1. CASE T # {}
        <2>0. T \subseteq Nat
            OBVIOUS
        <2>1. PICK n \in T : \A k \in T : n <= k
            <3> HIDE DEF T
            <3> QED BY <1>1, <2>0, LeastNat
        <2>2. n # 0 /\ n \in 0..m /\ f[n] \notin S
            BY <2>1
        <2>3. n \in 1..m /\ n - 1 \in 0..m /\ ~(n <= n - 1)
            BY <2>2
        <2>4. f[n - 1] \in S
            BY <2>1, <2>3
        <2> QED BY <2>2, <2>3, <2>4
    <1>2. CASE T = {}
        <2>1. m \in 0..m
            OBVIOUS
        <2> QED BY <1>2, <2>1
    <1> QED BY <1>1, <1>2

\* f starts with first and goes on with next.
Unrolls(f, m, S, first, next) ==
    /\ f \in [0..m -> S] /\ f[0] = first
    /\ \A n \in 1..m : f[n] = next[n][f[n - 1]]

\* next gives another member of S.
Maps(next, m, S) == \A n \in 1..m : \A l \in S : next[n][l] \in S

\* A function can be defined by its first value and by how each value follows
\* from the one before.
LEMMA Recursion ==
    ASSUME NEW m \in Nat, NEW S, NEW first \in S, NEW next, Maps(next, m, S)
    PROVE  \E f : Unrolls(f, m, S, first, next)
    <1> USE DEF Maps, Unrolls
    <1> DEFINE Good(f, k) == Unrolls(f, k, S, first, next)
               R == {k \in Nat : k <= m => \E f : Good(f, k)}
               r == [k \in Nat |-> k]
    <1>1. r[0] \in R
        <2>1. Good([n \in 0..0 |-> first], 0)
            OBVIOUS
        <2>2. \E f : Good(f, 0)
            BY <2>1
        <2> HIDE DEF Good
        <2> QED BY <2>2
    <1>2. ASSUME NEW k \in 1..m, r[k - 1] \in R PROVE r[k] \in R
        <2>1. k - 1 \in Nat /\ k - 1 <= m /\ r[k - 1] = k - 1 /\ r[k] = k /\ k \in Nat
            OBVIOUS
        <2>2. PICK f : Good(f, k - 1)
            <3> HIDE DEF Good
            <3> QED BY <1>2, <2>1
        <2>3. f \in [0..(k - 1) -> S] /\ k - 1 \in 0..(k - 1) /\ f[k - 1] \in S
            <3>1. f \in [0..(k - 1) -> S]
                BY <2>2
            <3>2. k - 1 \in 0..(k - 1)
                BY <2>1
            <3> QED BY <3>1, <3>2
        <2> DEFINE v == next[k][f[k - 1]]
                   g == [n \in 0..k |-> IF n = k THEN v ELSE f[n]]
        <2>4. v \in S
            BY <2>3
        <2> HIDE DEF v
        <2>5. /\ g[k] = v /\ \A n \in 0..(k - 1) : g[n] = f[n]
            BY <2>1
        <2>6. g \in [0..k -> S]
            BY <2>3, <2>4
        <2> HIDE DEF g
        <2>7. g[0] = first
            <3>1. f[0] = first
                BY <2>2
            <3>2. 0 \in 0..(k - 1)
                BY <2>1
            <3> QED BY <2>5, <3>1, <3>2
        <2>8. ASSUME NEW n \in 1..k PROVE g[n] = next[n][g[n - 1]]
            <3>1. n - 1 \in 0..(k - 1) /\ g[n - 1] = f[n - 1]
                BY <2>5
            <3>2. CASE n = k
                BY <3>1, <3>2, <2>5 DEF v
            <3>3. CASE n # k
                <4>1. n \in 1..(k - 1) /\ n \in 0..(k - 1)
                    BY <3>3
                <4> QED BY <2>2, <2>5, <3>1, <4>1
            <3> QED BY <3>2, <3>3
        <2>9. Good(g, k)
            BY <2>6, <2>7, <2>8
        <2> HIDE DEF Good
        <2> QED BY <2>1, <2>9
    <1>3. m \in R
        <2>1. r[m] \in R
            <3> HIDE DEF R, r
            <3> QED BY <1>1, <1>2, StaysIn
        <2> QED BY <2>1
    <1>4. PICK f : Good(f, m)
        <2> HIDE DEF Good
        <2> QED BY <1>3
    <1> QED BY <1>4

\* What is kept of a command line is some of its fields.
LEMMA KeepType ==
    ASSUME NEW A, NEW c \in Seq(A), NEW kept
    PROVE  Keep(c, kept) \in Seq(A)
    <1> DEFINE m == Len(c)
               S == Seq(A)
               next == [n \in 1..m |->
                            [l \in S |-> IF c[n] \in kept THEN Append(l, c[n]) ELSE l]]
               Eqn(f) == f = [n \in 0..m |->
                            IF n = 0 THEN <<>>
                            ELSE IF c[n] \in kept THEN Append(f[n - 1], c[n])
                            ELSE f[n - 1]]
    <1>1. m \in Nat /\ <<>> \in S /\ \A n \in 1..m : c[n] \in A
        OBVIOUS
    <1>2. Maps(next, m, S)
        BY <1>1 DEF Maps
    <1>3. PICK f \in [0..m -> S] :
                f[0] = <<>> /\ \A n \in 1..m : f[n] = next[n][f[n - 1]]
        <2> DEFINE first == <<>>
        <2>1. first \in S /\ m \in Nat
            BY <1>1
        <2> HIDE DEF first, m, S, next
        <2>2. \E f : Unrolls(f, m, S, first, next)
            BY <1>2, <2>1, Recursion
        <2> QED BY <2>2 DEF first, Unrolls
    <1>4. Eqn(f)
        <2>1. ASSUME NEW n \in 0..m
              PROVE  f[n] = IF n = 0 THEN <<>>
                            ELSE IF c[n] \in kept THEN Append(f[n - 1], c[n])
                            ELSE f[n - 1]
            <3>1. CASE n = 0
                BY <1>3, <3>1
            <3>2. CASE n # 0
                <4>1. n \in 1..m /\ n - 1 \in 0..m /\ f[n - 1] \in S
                    BY <1>1, <3>2
                <4> HIDE DEF m, S
                <4>2. next[n][f[n - 1]] =
                        IF c[n] \in kept THEN Append(f[n - 1], c[n]) ELSE f[n - 1]
                    BY <4>1
                <4> QED BY <1>3, <3>2, <4>1, <4>2
            <3> QED BY <3>1, <3>2
        <2>2. f = [n \in 0..m |-> f[n]]
            OBVIOUS
        <2> HIDE DEF m
        <2> QED BY <2>1, <2>2
    <1>5. ASSUME NEW h, Eqn(h) PROVE h[m] \in S
        <2>1. h[0] \in S
            BY <1>1, <1>5
        <2>2. ASSUME NEW n \in 1..m, h[n - 1] \in S PROVE h[n] \in S
            <3>1. h[n] = IF c[n] \in kept THEN Append(h[n - 1], c[n]) ELSE h[n - 1]
                <4>1. n \in 0..m /\ n # 0
                    BY <1>1
                <4> HIDE DEF m
                <4> QED BY <1>5, <4>1
            <3> QED BY <1>1, <2>2, <3>1
        <2> HIDE DEF m, S
        <2> QED BY <1>1, <2>1, <2>2, StaysIn
    <1>6. Eqn(CHOOSE h : Eqn(h))
        BY <1>4
    <1>7. Keep(c, kept) = (CHOOSE h : Eqn(h))[m]
        BY DEF Keep
    <1> HIDE DEF Eqn, m, S
    <1>8. Keep(c, kept) \in S
        BY <1>5, <1>6, <1>7
    <1> QED BY <1>8 DEF S

\* Adding a value gives no other fields.
LEMMA IaddType ==
    ASSUME NEW A, NEW c \in Seq(A), NEW value \in Seq(A)
    PROVE  iadd(c, value) \in Seq(A)
    <1> DEFINE m == Len(value)
               S == Seq(A)
               More(l, n) == IF value[n] \in Range(l) THEN l ELSE l \o value
               next == [n \in 1..m |-> [l \in S |-> More(l, n)]]
               Eqn(f) == f = [n \in 0..m |-> IF n = 0 THEN c ELSE More(f[n - 1], n)]
    <1>1. m \in Nat /\ c \in S /\ \A n, l : l \in S => More(l, n) \in S
        OBVIOUS
    <1>2. Maps(next, m, S)
        <2> HIDE DEF More, m, S
        <2> QED BY <1>1 DEF Maps
    <1>3. PICK f : Unrolls(f, m, S, c, next)
        <2> HIDE DEF m, S, next
        <2> QED BY <1>1, <1>2, Recursion
    <1>4. Eqn(f)
        <2>1. ASSUME NEW n \in 0..m
              PROVE  f[n] = IF n = 0 THEN c ELSE More(f[n - 1], n)
            <3> HIDE DEF More
            <3>1. CASE n = 0
                BY <1>3, <3>1 DEF Unrolls
            <3>2. CASE n # 0
                <4>1. n \in 1..m /\ n - 1 \in 0..m
                    BY <1>1, <3>2
                <4> HIDE DEF m, S
                <4>2. f[n - 1] \in S
                    BY <1>3, <4>1 DEF Unrolls
                <4>3. next[n][f[n - 1]] = More(f[n - 1], n)
                    BY <4>1, <4>2
                <4> HIDE DEF next
                <4> QED BY <1>3, <3>2, <4>1, <4>3 DEF Unrolls
            <3> QED BY <3>1, <3>2
        <2>2. f = [n \in 0..m |-> f[n]]
            BY <1>3 DEF Unrolls
        <2> HIDE DEF m, More
        <2> QED BY <2>1, <2>2
    <1>5. ASSUME NEW h, Eqn(h) PROVE h[m] \in S
        <2>1. h[0] = c
            BY <1>1, <1>5
        <2>2. ASSUME NEW n \in 1..m, h[n - 1] \in S PROVE h[n] \in S
            <3>1. n \in 0..m /\ n # 0
                BY <1>1
            <3> HIDE DEF m, S, More
            <3>2. h[n] = More(h[n - 1], n)
                BY <1>5, <3>1
            <3> QED BY <1>1, <2>2, <3>2
        <2> HIDE DEF m, S
        <2> QED BY <1>1, <2>1, <2>2, StaysIn
    <1>6. Eqn(CHOOSE h : Eqn(h))
        BY <1>4
    <1>7. iadd(c, value) = (CHOOSE h : Eqn(h))[m]
        BY DEF iadd
    <1> HIDE DEF Eqn, m, S
    <1>8. iadd(c, value) \in S
        BY <1>5, <1>6, <1>7
    <1> QED BY <1>8 DEF S

\* A sequence over A is one over every larger set.
LEMMA SeqLarger ==
    ASSUME NEW A, NEW B, A \subseteq B, NEW c \in Seq(A)
    PROVE  c \in Seq(B)
    OBVIOUS

\* However it is edited, a command line is made of what was on it and what the
\* edit writes.
LEMMA EditedType ==
    ASSUME NEW A, NEW c \in Seq(A), NEW e \in Edits
    PROVE  Edited(c, e) \in Seq(A \cup Puts(e))
    <1> DEFINE B == A \cup Puts(e)
    <1>0. c \in Seq(B)
        BY SeqLarger
    <1>1. CASE e[1] = "add_field_from_string"
        <2>1. e[2] \in B
            BY <1>1 DEF Puts
        <2> QED BY <1>0, <1>1, <2>1 DEF Edited, add_field_from_string
    <1>2. CASE e[1] = "add_field"
        <2>1. e[2] \in B
            BY <1>2 DEF Puts
        <2> QED BY <1>0, <1>2, <2>1 DEF Edited, add_field
    <1>3. CASE e[1] = "iadd"
        <2>1. e[2] \in Seq(Fields) /\ Puts(e) = Range(e[2])
            BY <1>3, DomainAssumption DEF Puts
        <2>2. e[2] \in Seq(Range(e[2]))
            BY <2>1 DEF Range
        <2>3. e[2] \in Seq(B)
            BY <2>1, <2>2, SeqLarger
        <2> QED BY <1>0, <1>3, <2>3, IaddType DEF Edited
    <1>4. CASE e[1] = "remove_field_from_string"
        <2> DEFINE kept == Keep(c, Fields \ {e[2]})
                   rest == [i \in DOMAIN kept |->
                        IF <<e[2], kept[i]>> \in Inside THEN Rest ELSE kept[i]]
        <2>1. kept \in Seq(B) /\ Rest \in B
            BY <1>0, <1>4, KeepType DEF Puts
        <2>2. Edited(c, e) = rest
            BY <1>4 DEF Edited, remove_field_from_string
        <2> HIDE DEF kept, B
        <2>3. DOMAIN kept = 1..Len(kept) /\ Len(kept) \in Nat /\ \A i \in DOMAIN kept : kept[i] \in B
            BY <2>1
        <2>4. rest \in [1..Len(kept) -> B]
            BY <2>1, <2>3
        <2> QED BY <2>2, <2>3, <2>4 DEF B
    <1>5. CASE e[1] = "remove_fields"
        <2>1. Edited(c, e) = remove_fields(c, e[2])
            BY <1>5 DEF Edited
        <2> QED BY <1>0, <2>1, KeepType DEF remove_fields
    <1> QED BY <1>1, <1>2, <1>3, <1>4, <1>5, DomainAssumption

\* An edit writes fields.
LEMMA PutsType ==
    ASSUME NEW e \in Edits
    PROVE  Puts(e) \subseteq Fields
    <1>1. CASE e[1] = "iadd"
        <2>1. e[2] \in Seq(Fields) /\ Puts(e) = Range(e[2])
            BY <1>1, DomainAssumption DEF Puts
        <2> QED BY <2>1 DEF Range
    <1>2. CASE e[1] # "iadd"
        BY <1>2, DomainAssumption, CmdlineAssumption DEF Puts
    <1> QED BY <1>1, <1>2

\* The root field that was added last is the one the kernel uses.
LEMMA RootAdded ==
    ASSUME NEW c \in Seq(Fields), NEW root \in Fields, KeyOf[root] = "root"
    PROVE  Effective(Append(c, root), "root") = root
    <1> DEFINE d == Append(c, root)
               m == Len(c) + 1
               these == {i \in DOMAIN d : KeyOf[d[i]] = "root"}
               last == CHOOSE i \in these : \A j \in these : j <= i
    <1>1. m \in Nat /\ m \in 1..m /\ DOMAIN d = 1..m /\ d[m] = root
        OBVIOUS
    <1>2. Effective(d, "root") = IF these = {} THEN Rest ELSE d[last]
        BY DEF Effective
    <1> HIDE DEF d, m
    <1>3. m \in these /\ \A j \in these : j <= m
        BY <1>1
    <1>4. last \in these /\ \A j \in these : j <= last
        BY <1>3
    <1>5. last = m
        BY <1>1, <1>3, <1>4
    <1> HIDE DEF last, these
    <1> QED BY <1>1, <1>2, <1>3, <1>5 DEF d

\* A root field that is found, and no other root, is the one the kernel uses.
LEMMA RootFound ==
    ASSUME NEW A \in SUBSET Fields, NEW c \in Seq(A), NEW d \in DOMAIN RootOf,
           KeyOf[RootOf[d]] = "root", OnlyRoot(A, RootOf[d]), is_field_exists(c, RootOf[d])
    PROVE  Effective(c, "root") = RootOf[d]
    <1> DEFINE root == RootOf[d]
               these == {i \in DOMAIN c : KeyOf[c[i]] = "root"}
               last == CHOOSE i \in these : \A j \in these : j <= i
    <1>1. /\ Len(c) \in Nat /\ DOMAIN c = 1..Len(c)
          /\ \A i \in DOMAIN c : c[i] \in A
        OBVIOUS
    <1>2. PICK i \in DOMAIN c : c[i] = root \/ <<root, c[i]>> \in Inside
        BY DEF is_field_exists, Range
    <1>3. c[i] = root
        BY <1>1, <1>2 DEF OnlyRoot, RootLike
    <1>4. i \in these /\ \A j \in these : c[j] = root
        BY <1>1, <1>3 DEF OnlyRoot, RootLike
    <1>5. \E k \in these : \A j \in these : j <= k
        <2> DEFINE T == {Len(c) - j : j \in these}
        <2>1. T \subseteq Nat /\ T # {}
            BY <1>1, <1>4
        <2>2. PICK n \in T : \A q \in T : n <= q
            <3> HIDE DEF T
            <3> QED BY <2>1, LeastNat
        <2>3. PICK k \in these : n = Len(c) - k
            BY <2>2
        <2>4. \A j \in these : Len(c) - k <= Len(c) - j
            BY <2>2, <2>3
        <2> QED BY <1>1, <2>3, <2>4
    <1>6. last \in these
        BY <1>5
    <1>7. Effective(c, "root") = IF these = {} THEN Rest ELSE c[last]
        BY DEF Effective
    <1> HIDE DEF these, last
    <1> QED BY <1>4, <1>6, <1>7

-----------------------------------------------------------------------------
(* The order of the calls. *)

\* Every step that an action makes is one of the calls.
LEMMA StepNames ==
    Range(Order) = {"clone", "name", "memory", "uuid", "image", "iomode", "cache", "log",
        "vcpu", "sockets", "cores", "threads", "pins", "numa", "hugepages", "nic", "vsock",
        "disk", "emulator", "loader", "hugepath", "args", "epc", "vtpm", "mwait",
        "kernel", "cmdline"}
    <1>1. DOMAIN Order = 1..27
        BY DEF Order
    <1>2. Range(Order) = {Order[i] : i \in 1..27}
        BY <1>1 DEF Range
    <1>3. 1..27 = {27, 26, 25, 24, 23, 22, 21, 20, 19, 18, 17, 16, 15, 14, 13, 12, 11, 10,
                   9, 8, 7, 6, 5, 4, 3, 2, 1}
        OBVIOUS
    <1> QED BY <1>2, <1>3 DEF Order

\* Nothing is called before clone.
LEMMA CloneFirst ==
    ASSUME NEW g \in Guests, NEW step, At(g, step), step # "clone"
    PROVE  "clone" \notin guest[g].todo
    <1>1. PICK i \in 1..Len(Order) :
            Order[i] = step /\ \A j \in 1..(i - 1) : Order[j] \notin guest[g].todo
        BY DEF At
    <1>2. Order[1] = "clone" /\ Len(Order) = 27
        BY DEF Order
    <1>3. 1 \in 1..(i - 1)
        BY <1>1, <1>2
    <1> QED BY <1>1, <1>2, <1>3

\* The settings of the image are made before the second disk is added.
LEMMA ImageBeforeDisk ==
    ASSUME NEW g \in Guests, At(g, "disk")
    PROVE  guest[g].todo \cap DOMAIN DiskSettings = {}
    <1>1. PICK i \in 1..Len(Order) :
            Order[i] = "disk" /\ \A j \in 1..(i - 1) : Order[j] \notin guest[g].todo
        BY DEF At
    <1>2. /\ Len(Order) = 27 /\ Order[1] # "disk" /\ Order[2] # "disk"
          /\ Order[3] # "disk" /\ Order[4] # "disk"
          /\ Order[5] = "image" /\ Order[6] = "iomode" /\ Order[7] = "cache"
        BY DEF Order
    <1>3. i > 7
        BY <1>1, <1>2
    <1>4. Order[5] \notin guest[g].todo /\ Order[6] \notin guest[g].todo
          /\ Order[7] \notin guest[g].todo
        BY <1>1, <1>3
    <1>5. DOMAIN DiskSettings = {"image", "iomode", "cache"}
        BY DEF DiskSettings
    <1> QED BY <1>2, <1>4, <1>5

-----------------------------------------------------------------------------
(* The elements of a tree, step by step.  These lemmas are about values, not *)
(* about states: o are the options, x is the object, todo what is not called. *)

\* A template is a tree with one disk.
LEMMA TemplateType ==
    ASSUME NEW t \in Types
    PROVE  Template(t) \in Tree /\ Len(Template(t).disks) = 1
    <1>0. <<>> \in Seq(Texts) /\ <<"template">> \in Seq(Texts)
        BY DEF Texts, Common
    <1>1. Template(t).text \in [Text -> Seq(Texts)]
        BY <1>0 DEF Template
    <1>2. Template(t).disks \in Seq(Disk) /\ Len(Template(t).disks) = 1
        BY DEF Template, Texts, Common, Disk
    <1>3. Template(t).once \in [Once -> Texts]
        BY DEF Template, Texts, Common
    <1>4. Template(t).lists \in [Lists -> Seq(Texts)]
        BY <1>0 DEF Template
    <1> QED BY <1>1, <1>2, <1>3, <1>4 DEF Template, Tree

\* What is loaded is a VirtXml.
LEMMA LoadType ==
    ASSUME NEW tree \in Tree, Len(tree.disks) = 1,
           NEW path \in {"None", "own", "template"}
    PROVE  [load(tree) EXCEPT !.filepath = path] \in VirtXml
    <1> DEFINE c == [p \in Text |-> IF p \in NotLoaded \/ Len(tree.text[p]) # 1
                                    THEN "None" ELSE tree.text[p][1]]
    <1>1. tree.text \in [Text -> Seq(Texts)] /\ tree.disks \in Seq(Disk)
        BY DEF Tree
    <1>2. c \in [Text -> Texts]
        BY <1>1 DEF Texts, Common
    <1>3. tree.disks[1] \in Disk
        BY <1>1
    <1>4. load(tree) = [tree |-> tree, cached |-> c, disk |-> tree.disks[1],
                        filepath |-> "template"]
        BY DEF load
    <1> HIDE DEF c
    <1>5. load(tree) \in VirtXml
        BY <1>2, <1>3, <1>4 DEF VirtXml
    <1> QED BY <1>5 DEF VirtXml

\* The text that an element is given is a text.
LEMMA ValueType ==
    ASSUME NEW g \in Guests, NEW o \in OptionSet, NEW p \in Text
    PROVE  Value(g, o, p) \in Texts
    BY DEF Value, Loader, Texts, Common

\* What clone leaves is the template, with all calls to make.
LEMMA CloneParts ==
    ASSUME NEW g \in Guests, NEW o \in OptionSet, NEW path
    PROVE  PartsInv(g, o, PrepareSteps(o) \ {"clone"},
                    [load(Template(o.vmtype)) EXCEPT !.filepath = path])
    <1> DEFINE todo == PrepareSteps(o) \ {"clone"}
               T == Template(o.vmtype)
               x == [load(T) EXCEPT !.filepath = path]
    <1>1. x.tree = T /\ x.cached = load(T).cached /\ x.disk = T.disks[1]
        BY DEF load
    <1>2. o.vmtype \in Types
        BY DEF OptionSet
    <1>3. \A s \in Range(Order) : s # "clone" => (s \in todo <=> Called(o, s))
        BY DEF PrepareSteps
    <1> HIDE DEF todo, x
    <1>4. TextInv(g, o, todo, x)
        <2>1. ASSUME NEW p \in Text PROVE p \in todo
            BY <1>3, StepNames DEF Text, Called
        <2> QED BY <1>1, <2>1 DEF TextInv
    <1>5. OnceInv(g, o, todo, x)
        <2>1. ASSUME NEW p \in Once, p \notin todo
              PROVE  Wanted(g, o).once[p] = T.once[p]
            <3>1. ~Called(o, p)
                BY <1>3, <2>1, StepNames DEF Once
            <3>2. \/ p = "numa" /\ ~o.mem_numa
                  \/ p = "hugepages" /\ ~o.hugepages
                  \/ p = "hugepath" /\ ~(o.hugepath /\ o.vmtype \in TdTypes)
                  \/ p = "vsock" /\ ~o.vsock
                  \/ p = "vtpm" /\ ~(o.has_vtpm /\ o.vmtype \in {"td", "td_perf"})
                BY <2>1, <3>1 DEF Called, Once
            <3> HIDE DEF T
            <3>3. CASE p = "numa"
                BY <3>2, <3>3 DEF Wanted, Once, T
            <3>4. CASE p = "hugepages"
                BY <3>2, <3>4 DEF Wanted, Once, T
            <3>5. CASE p = "hugepath"
                BY <3>2, <3>5 DEF Wanted, Once, T
            <3>6. CASE p = "vsock"
                BY <3>2, <3>6 DEF Wanted, Once, T
            <3>7. CASE p = "vtpm"
                BY <3>2, <3>7 DEF Wanted, Once, T
            <3> QED BY <3>2, <3>3, <3>4, <3>5, <3>6, <3>7
        <2> QED BY <1>1, <2>1 DEF OnceInv
    <1>6. ListInv(g, o, todo, x)
        <2>1. "pins" \notin todo => o.cpu_ids = "none"
            BY <1>3, StepNames DEF Called
        <2>2. "nic" \notin todo => ~o.driver
            BY <1>3, StepNames DEF Called
        <2>3. "args" \in todo
            BY <1>3, StepNames DEF Called
        <2>4. ~(o.vmtype = "sgx" /\ "epc" \notin todo)
            BY <1>3, StepNames DEF Called
        <2>5. ~(o.mwait /\ "mwait" \notin todo)
            BY <1>3, StepNames DEF Called
        <2>6. ASSUME NEW p \in {"pins", "nic"}, p \notin todo
              PROVE  Wanted(g, o).lists[p] = T.lists[p]
            <3>1. CASE p = "pins"
                BY <2>1, <2>6, <3>1 DEF Wanted, Lists
            <3>2. CASE p = "nic"
                <4>1. T.lists["nic"] = <<>>
                    BY DEF Template, Lists
                <4> QED BY <2>2, <2>6, <3>2, <4>1 DEF Wanted, Lists
            <3> QED BY <3>1, <3>2
        <2>7. T.lists["args"] = [i \in 1..(0 + 0 + 0) |-> g]
            BY DEF Template, Lists
        <2>8. /\ One("args" \notin todo) = 0
              /\ One(o.vmtype = "sgx" /\ "epc" \notin todo) = 0
              /\ One(o.mwait /\ "mwait" \notin todo) = 0
            BY <2>3, <2>4, <2>5 DEF One
        <2> HIDE DEF T
        <2> QED BY <1>1, <2>6, <2>7, <2>8 DEF ListInv, T
    <1>7. DiskInv(g, o, todo, x)
        <2>1. ~(o.diskfile /\ "disk" \notin todo)
            BY <1>3, StepNames DEF Called
        <2>2. \A step \in DOMAIN DiskSettings : step \in todo
            BY <1>3, StepNames DEF Called, DiskSettings
        <2>3. /\ Len(T.disks) = 1
              /\ T.disks[1] = [file |-> "template", io |-> "template", cache |-> "template"]
            BY DEF Template
        <2>4. \A step \in DOMAIN DiskSettings : T.disks[1][DiskSettings[step]] = "template"
            BY <2>3 DEF DiskSettings
        <2> HIDE DEF T
        <2>5. One(o.diskfile /\ "disk" \notin todo) = 0
            BY <2>1 DEF One
        <2> QED BY <1>1, <2>5, <2>2, <2>3, <2>4 DEF DiskInv
    <1> QED BY <1>4, <1>5, <1>6, <1>7 DEF PartsInv, todo, x

\* A call leaves alone the elements that it is not about.
LEMMA TextFrame ==
    ASSUME NEW g, NEW o, NEW todo, NEW x, NEW y, NEW step, TextInv(g, o, todo, x),
           step \notin Text, y.tree.text = x.tree.text, y.cached = x.cached
    PROVE  TextInv(g, o, todo \ {step}, y)
    BY DEF TextInv

LEMMA OnceFrame ==
    ASSUME NEW g, NEW o, NEW todo, NEW x, NEW y, NEW step, OnceInv(g, o, todo, x),
           step \notin Once, y.tree.once = x.tree.once
    PROVE  OnceInv(g, o, todo \ {step}, y)
    BY DEF OnceInv

LEMMA ListFrame ==
    ASSUME NEW g, NEW o, NEW todo, NEW x, NEW y, NEW step, ListInv(g, o, todo, x),
           step \notin {"pins", "nic", "args", "epc", "mwait"},
           y.tree.lists = x.tree.lists
    PROVE  ListInv(g, o, todo \ {step}, y)
    <1>1. \A s \in {"pins", "nic", "args", "epc", "mwait"} : s \in todo \ {step} <=> s \in todo
        OBVIOUS
    <1>2. \A s \in {"pins", "nic", "args", "epc", "mwait"} :
                (s \notin todo \ {step}) = (s \notin todo)
        BY <1>1
    <1> QED BY <1>1, <1>2 DEF ListInv

LEMMA DiskFrame ==
    ASSUME NEW g, NEW o, NEW todo, NEW x, NEW y, NEW step, DiskInv(g, o, todo, x),
           step \notin {"disk", "image", "iomode", "cache"},
           y.tree.disks = x.tree.disks, y.disk = x.disk
    PROVE  DiskInv(g, o, todo \ {step}, y)
    <1>1. DOMAIN DiskSettings = {"image", "iomode", "cache"}
        BY DEF DiskSettings
    <1>2. \A s \in {"disk", "image", "iomode", "cache"} : s \in todo \ {step} <=> s \in todo
        OBVIOUS
    <1>3. ("disk" \notin todo \ {step}) = ("disk" \notin todo)
        BY <1>2
    <1> QED BY <1>1, <1>2, <1>3 DEF DiskInv

\* What is asked of a text element, what its template holds and what was loaded.
LEMMA TextFacts ==
    ASSUME NEW g \in Guests, NEW o \in OptionSet, NEW p \in Text,
           o.vmtype = "sgx" => o.boot = "grub"
    PROVE  LET v == Value(g, o, p)
               t == Template(o.vmtype).text[p]
               c == load(Template(o.vmtype)).cached[p]
           IN  /\ Wanted(g, o).text[p] = IF v = "None" THEN <<>> ELSE <<v>>
               /\ t = <<>> => v = "None" /\ c = "None"
               /\ t \in {<<>>, <<"template">>}
               /\ c = v => t = <<>> /\ v = "None"
    <1> DEFINE v == Value(g, o, p)
               t == Template(o.vmtype).text[p]
               c == load(Template(o.vmtype)).cached[p]
    <1>1. g \notin Common
        BY DomainAssumption
    <1>2. v = "None" <=> (p \in DirectBoot /\ o.boot = "grub")
        BY <1>1 DEF Value, Loader, DirectBoot, Common
    <1>3. Wanted(g, o).text[p] = IF v = "None" THEN <<>> ELSE <<v>>
        BY <1>2 DEF Wanted
    <1>4. t = IF o.vmtype = "sgx" /\ p \in DirectBoot THEN <<>> ELSE <<"template">>
        BY DEF Template
    <1>5. c = IF p \in NotLoaded \/ Len(t) # 1 THEN "None" ELSE t[1]
        BY DEF load
    <1>6. v # "template"
        BY <1>1 DEF Value, Loader, Common
    <1>7. p \in DirectBoot => p \notin NotLoaded
        BY DEF DirectBoot, NotLoaded
    <1> HIDE DEF v, t, c
    <1>8. t = <<>> => v = "None" /\ c = "None"
        BY <1>2, <1>4, <1>5
    <1>9. c = v => t = <<>> /\ v = "None"
        <2>1. CASE t = <<>>
            BY <2>1, <1>8
        <2>2. CASE t = <<"template">>
            <3>1. Len(t) = 1 /\ t[1] = "template"
                BY <2>2
            <3> QED BY <1>2, <1>5, <1>6, <1>7, <3>1
        <2> QED BY <2>1, <2>2, <1>4
    <1> QED BY <1>3, <1>4, <1>8, <1>9 DEF v, t, c

\* Whatever a text element holds when its setter is called, the setter finds it
\* and leaves what is wanted.
LEMMA TextParts ==
    ASSUME NEW g \in Guests, NEW o \in OptionSet, NEW todo, NEW x \in VirtXml,
           PartsInv(g, o, todo, x), NEW p \in Text, p \in todo,
           o.vmtype = "sgx" => o.boot = "grub"
    PROVE  LET v == Value(g, o, p)
           IN  /\ x.cached[p] = v => PartsInv(g, o, todo \ {p}, x)
               /\ v = "None" => PartsInv(g, o, todo \ {p},
                    [x EXCEPT !.tree.text[p] = <<>>, !.cached[p] = "None"])
               /\ v # "None" => /\ Len(x.tree.text[p]) = 1
                                /\ PartsInv(g, o, todo \ {p},
                                    [x EXCEPT !.tree.text[p] = <<v>>, !.cached[p] = v])
    <1> DEFINE v == Value(g, o, p)
    <1>1. /\ TextInv(g, o, todo, x) /\ OnceInv(g, o, todo, x)
          /\ ListInv(g, o, todo, x) /\ DiskInv(g, o, todo, x)
        BY DEF PartsInv
    <1>2. /\ x.tree.text[p] = Template(o.vmtype).text[p]
          /\ x.cached[p] = load(Template(o.vmtype)).cached[p]
        BY <1>1 DEF TextInv
    <1>3. v \in Texts /\ "None" \in Texts
        BY ValueType DEF Texts, Common
    <1>4. p \notin Once /\ p \notin {"pins", "nic", "args", "epc", "mwait"}
          /\ p \notin {"disk", "image", "iomode", "cache"}
        BY DEF Text, Once
    <1>5. ASSUME NEW y, y.tree.text[p] = Wanted(g, o).text[p],
                 \A q \in Text \ {p} : y.tree.text[q] = x.tree.text[q] /\ y.cached[q] = x.cached[q],
                 y.tree.once = x.tree.once, y.tree.lists = x.tree.lists,
                 y.tree.disks = x.tree.disks, y.disk = x.disk
          PROVE  PartsInv(g, o, todo \ {p}, y)
        <2>1. TextInv(g, o, todo \ {p}, y)
            BY <1>1, <1>5 DEF TextInv
        <2> QED BY <1>1, <1>4, <1>5, <2>1, OnceFrame, ListFrame, DiskFrame DEF PartsInv
    <1> HIDE DEF v
    <1>6. x.cached[p] = v => PartsInv(g, o, todo \ {p}, x)
        <2>1. x.cached[p] = v => x.tree.text[p] = Wanted(g, o).text[p]
            BY <1>2, TextFacts, ZenonT(30) DEF v
        <2> QED BY <1>5, <2>1
    <1>7. ASSUME v = "None"
          PROVE  PartsInv(g, o, todo \ {p},
                    [x EXCEPT !.tree.text[p] = <<>>, !.cached[p] = "None"])
        <2> DEFINE y == [x EXCEPT !.tree.text[p] = <<>>, !.cached[p] = "None"]
        <2>1. Wanted(g, o).text[p] = <<>>
            BY <1>7, TextFacts DEF v
        <2>2. <<>> \in Seq(Texts)
            OBVIOUS
        <2>5. /\ y.tree.text[p] = <<>>
              /\ \A q \in Text \ {p} : y.tree.text[q] = x.tree.text[q] /\ y.cached[q] = x.cached[q]
              /\ y.tree.once = x.tree.once /\ y.tree.lists = x.tree.lists
              /\ y.tree.disks = x.tree.disks /\ y.disk = x.disk
            BY <1>3, <2>2 DEF VirtXml, Tree
        <2> HIDE DEF y
        <2>3. PartsInv(g, o, todo \ {p}, y)
            BY <1>5, <2>1, <2>5
        <2> QED BY <2>3 DEF y
    <1>8. ASSUME v # "None"
          PROVE  /\ Len(x.tree.text[p]) = 1
                 /\ PartsInv(g, o, todo \ {p},
                        [x EXCEPT !.tree.text[p] = <<v>>, !.cached[p] = v])
        <2> DEFINE y == [x EXCEPT !.tree.text[p] = <<v>>, !.cached[p] = v]
        <2>1. Wanted(g, o).text[p] = <<v>> /\ x.tree.text[p] = <<"template">>
            BY <1>2, <1>8, TextFacts DEF v
        <2>2. <<v>> \in Seq(Texts)
            BY <1>3
        <2>5. /\ y.tree.text[p] = <<v>>
              /\ \A q \in Text \ {p} : y.tree.text[q] = x.tree.text[q] /\ y.cached[q] = x.cached[q]
              /\ y.tree.once = x.tree.once /\ y.tree.lists = x.tree.lists
              /\ y.tree.disks = x.tree.disks /\ y.disk = x.disk
            BY <1>3, <2>2 DEF VirtXml, Tree
        <2> HIDE DEF y
        <2>3. PartsInv(g, o, todo \ {p}, y)
            BY <1>5, <2>1, <2>5
        <2>4. Len(<<"template">>) = 1
            OBVIOUS
        <2> QED BY <2>1, <2>3, <2>4 DEF y
    <1> QED BY <1>6, <1>7, <1>8 DEF v

\* An element that is there once is added as asked for.
LEMMA OnceParts ==
    ASSUME NEW g \in Guests, NEW o \in OptionSet, NEW todo, todo \subseteq PrepareSteps(o),
           NEW x \in VirtXml, PartsInv(g, o, todo, x), NEW p \in Once, p \in todo
    PROVE  PartsInv(g, o, todo \ {p}, [x EXCEPT !.tree.once[p] = g])
    <1> DEFINE y == [x EXCEPT !.tree.once[p] = g]
    <1>1. /\ TextInv(g, o, todo, x) /\ OnceInv(g, o, todo, x)
          /\ ListInv(g, o, todo, x) /\ DiskInv(g, o, todo, x)
        BY DEF PartsInv
    <1>2. p \notin Text /\ p \notin {"pins", "nic", "args", "epc", "mwait"}
          /\ p \notin {"disk", "image", "iomode", "cache"}
        BY DEF Text, Once
    <1>3. /\ y.tree.once[p] = g /\ \A q \in Once \ {p} : y.tree.once[q] = x.tree.once[q]
          /\ y.tree.text = x.tree.text /\ y.tree.lists = x.tree.lists
          /\ y.tree.disks = x.tree.disks /\ y.disk = x.disk /\ y.cached = x.cached
        BY DEF VirtXml, Tree
    <1> HIDE DEF y
    <1>4. Wanted(g, o).once[p] = g
        <2>1. Called(o, p)
            BY DEF PrepareSteps
        <2>2. \/ p = "numa" /\ o.mem_numa
              \/ p = "hugepages" /\ o.hugepages
              \/ p = "hugepath" /\ o.hugepath /\ o.vmtype \in TdTypes
              \/ p = "vsock" /\ o.vsock
              \/ p = "vtpm" /\ o.has_vtpm /\ o.vmtype \in {"td", "td_perf"}
            BY <2>1 DEF Called, Once
        <2>3. CASE p = "numa"
            BY <2>2, <2>3 DEF Wanted
        <2>4. CASE p = "hugepages"
            BY <2>2, <2>4 DEF Wanted
        <2>5. CASE p = "hugepath"
            BY <2>2, <2>5 DEF Wanted
        <2>6. CASE p = "vsock"
            BY <2>2, <2>6 DEF Wanted
        <2>7. CASE p = "vtpm"
            BY <2>2, <2>7 DEF Wanted
        <2> QED BY <2>5, <2>2, <2>3, <2>4, <2>6, <2>7
    <1>5. OnceInv(g, o, todo \ {p}, y)
        BY <1>1, <1>3, <1>4 DEF OnceInv
    <1>6. PartsInv(g, o, todo \ {p}, y)
        BY <1>1, <1>2, <1>3, <1>5, TextFrame, ListFrame, DiskFrame DEF PartsInv
    <1> QED BY <1>6 DEF y

\* One more of the same.
LEMMA AppendSame ==
    ASSUME NEW n \in Nat, NEW g
    PROVE  Append([i \in 1..n |-> g], g) = [i \in 1..(n + 1) |-> g]
    <1> DEFINE s == [i \in 1..n |-> g]
               t == [i \in 1..(n + 1) |-> g]
    <1>1. s \in Seq({g}) /\ Len(s) = n
        OBVIOUS
    <1>2. DOMAIN Append(s, g) = 1..(n + 1) /\ \A i \in 1..(n + 1) : Append(s, g)[i] = g
        BY <1>1
    <1>3. Append(s, g) = [i \in 1..(n + 1) |-> Append(s, g)[i]]
        BY <1>1, <1>2
    <1> HIDE DEF s
    <1> QED BY <1>2, <1>3 DEF s

\* A call that adds to a list adds what is asked for.
LEMMA ListParts ==
    ASSUME NEW g \in Guests, NEW o \in OptionSet, NEW todo, todo \subseteq PrepareSteps(o),
           NEW x \in VirtXml, PartsInv(g, o, todo, x),
           NEW step \in {"pins", "nic", "args", "epc", "mwait"}, step \in todo,
           NEW p \in Lists, p = IF step \in {"pins", "nic"} THEN step ELSE "args",
           NEW y, y = [x EXCEPT !.tree.lists[p] = Append(@, g)]
    PROVE  PartsInv(g, o, todo \ {step}, y)
    <1> DEFINE left == todo \ {step}
    <1>1. /\ TextInv(g, o, todo, x) /\ OnceInv(g, o, todo, x)
          /\ ListInv(g, o, todo, x) /\ DiskInv(g, o, todo, x)
        BY DEF PartsInv
    <1>2. step \notin Text /\ step \notin Once /\ step \notin {"disk", "image", "iomode", "cache"}
        BY DEF Text, Once
    <1>3. /\ y.tree.lists[p] = Append(x.tree.lists[p], g)
          /\ \A q \in Lists \ {p} : y.tree.lists[q] = x.tree.lists[q]
          /\ y.tree.text = x.tree.text /\ y.tree.once = x.tree.once
          /\ y.tree.disks = x.tree.disks /\ y.disk = x.disk /\ y.cached = x.cached
        BY DEF VirtXml, Tree
    <1>4. Called(o, step)
        BY DEF PrepareSteps
    <1>5. Lists = {"pins", "args", "nic"}
        BY DEF Lists
    <1>6. ASSUME NEW q \in {"pins", "nic"}
          PROVE  y.tree.lists[q] = IF q \in left THEN Template(o.vmtype).lists[q]
                                   ELSE Wanted(g, o).lists[q]
        <2>1. CASE q # step
            BY <1>1, <1>3, <1>5, <2>1, ZenonT(30) DEF ListInv
        <2>2. CASE q = step
            <3>1. x.tree.lists[q] = Template(o.vmtype).lists[q] /\ p = q
                BY <1>1, <2>2 DEF ListInv
            <3>2. CASE q = "pins"
                <4>1. o.cpu_ids # "none"
                    BY <1>4, <2>2, <3>2 DEF Called
                <4>2. Wanted(g, o).lists["pins"] = Append(Template(o.vmtype).lists["pins"], g)
                    BY <4>1, <1>5 DEF Wanted
                <4> QED BY <1>3, <2>2, <3>1, <3>2, <4>2
            <3>3. CASE q = "nic"
                <4>1. o.driver
                    BY <1>4, <2>2, <3>3 DEF Called
                <4>2. Wanted(g, o).lists["nic"] = <<g>>
                    BY <4>1, <1>5 DEF Wanted
                <4>3. Template(o.vmtype).lists["nic"] = <<>>
                    BY <1>5 DEF Template
                <4>4. Append(<<>>, g) = <<g>>
                    OBVIOUS
                <4> QED BY <1>3, <2>2, <3>1, <3>3, <4>2, <4>3, <4>4
            <3> QED BY <3>2, <3>3
        <2> QED BY <2>1, <2>2
    <1> DEFINE a(t) == One("args" \notin t)
               e(t) == One(o.vmtype = "sgx" /\ "epc" \notin t)
               m(t) == One(o.mwait /\ "mwait" \notin t)
               N(t) == a(t) + e(t) + m(t)
    <1>7. /\ a(todo) \in Nat /\ e(todo) \in Nat /\ m(todo) \in Nat
          /\ a(left) \in Nat /\ e(left) \in Nat /\ m(left) \in Nat
        BY DEF One
    <1>8. x.tree.lists["args"] = [i \in 1..N(todo) |-> g]
        BY <1>1 DEF ListInv
    <1>9. y.tree.lists["args"] = [i \in 1..N(left) |-> g]
        <2>1. CASE step \in {"pins", "nic"}
            <3>1. a(left) = a(todo) /\ e(left) = e(todo) /\ m(left) = m(todo)
                BY <2>1 DEF One
            <3>2. y.tree.lists["args"] = x.tree.lists["args"]
                BY <1>3, <1>5, <2>1
            <3> HIDE DEF left, a, e, m
            <3> QED BY <1>8, <3>1, <3>2
        <2>2. CASE step \notin {"pins", "nic"}
            <3>1. p = "args"
                BY <2>2
            <3>5. ASSUME N(todo) \in Nat, N(left) = N(todo) + 1
                  PROVE  y.tree.lists["args"] = [i \in 1..N(left) |-> g]
                <4> DEFINE n == N(todo)
                <4>1. Append([i \in 1..n |-> g], g) = [i \in 1..(n + 1) |-> g]
                    <5>1. n \in Nat
                        BY <3>5
                    <5> HIDE DEF n
                    <5> QED BY <5>1, AppendSame
                <4>2. y.tree.lists["args"] = Append([i \in 1..n |-> g], g)
                    <5>1. y.tree.lists["args"] = Append(x.tree.lists["args"], g)
                        BY <1>3, <3>1
                    <5>2. x.tree.lists["args"] = [i \in 1..n |-> g]
                        BY <1>8
                    <5> HIDE DEF n
                    <5> QED BY <5>1, <5>2, Zenon
                <4> HIDE DEF N
                <4> QED BY <3>5, <4>1, <4>2
            <3>2. CASE step = "args"
                <4>1. a(left) = 1 /\ a(todo) = 0 /\ e(left) = e(todo) /\ m(left) = m(todo)
                    BY <3>2 DEF One
                <4> HIDE DEF left, a, e, m
                <4>2. N(todo) \in Nat /\ N(left) = N(todo) + 1
                    BY <1>7, <4>1
                <4> HIDE DEF N
                <4> QED BY <3>5, <4>2
            <3>3. CASE step = "epc"
                <4>0. o.vmtype = "sgx"
                    BY <1>4, <3>3 DEF Called
                <4>1. e(left) = 1 /\ e(todo) = 0 /\ a(left) = a(todo) /\ m(left) = m(todo)
                    BY <3>3, <4>0 DEF One
                <4> HIDE DEF left, a, e, m
                <4>2. N(todo) \in Nat /\ N(left) = N(todo) + 1
                    BY <1>7, <4>1
                <4> HIDE DEF N
                <4> QED BY <3>5, <4>2
            <3>4. CASE step = "mwait"
                <4>0. o.mwait
                    BY <1>4, <3>4 DEF Called
                <4>1. m(left) = 1 /\ m(todo) = 0 /\ a(left) = a(todo) /\ e(left) = e(todo)
                    BY <3>4, <4>0 DEF One
                <4> HIDE DEF left, a, e, m
                <4>2. N(todo) \in Nat /\ N(left) = N(todo) + 1
                    BY <1>7, <4>1
                <4> HIDE DEF N
                <4> QED BY <3>5, <4>2
            <3> QED BY <2>2, <3>2, <3>3, <3>4
        <2> QED BY <2>1, <2>2
    <1>10. ListInv(g, o, left, y)
        BY <1>6, <1>9 DEF ListInv
    <1>11. PartsInv(g, o, left, y)
        BY <1>1, <1>2, <1>3, <1>10, TextFrame, OnceFrame, DiskFrame DEF PartsInv
    <1> QED BY <1>11

\* A setting of the first disk finds one disk, and leaves what is wanted.
LEMMA DiskFieldParts ==
    ASSUME NEW g \in Guests, NEW o \in OptionSet, NEW todo,
           NEW x \in VirtXml, PartsInv(g, o, todo, x),
           NEW step \in DOMAIN DiskSettings, step \in todo,
           NEW f, f = DiskSettings[step]
    PROVE  /\ x.disk[f] # g /\ Len(x.tree.disks) = 1
           /\ PartsInv(g, o, todo \ {step},
                       [x EXCEPT !.tree.disks[1][f] = g, !.disk[f] = g])
    <1> DEFINE y == [x EXCEPT !.tree.disks[1][f] = g, !.disk[f] = g]
               left == todo \ {step}
    <1>1. /\ TextInv(g, o, todo, x) /\ OnceInv(g, o, todo, x)
          /\ ListInv(g, o, todo, x) /\ DiskInv(g, o, todo, x)
        BY DEF PartsInv
    <1>2. /\ DOMAIN DiskSettings = {"image", "iomode", "cache"}
          /\ DiskSettings["image"] = "file" /\ DiskSettings["iomode"] = "io"
          /\ DiskSettings["cache"] = "cache"
        BY DEF DiskSettings
    <1>3. step \notin Text /\ step \notin Once
          /\ step \notin {"pins", "nic", "args", "epc", "mwait"} /\ step # "disk"
        BY <1>2 DEF Text, Once
    <1>4. f \in {"file", "io", "cache"}
        BY <1>2
    <1>5. x.disk[f] # g
        <2>1. g # "template"
            BY DomainAssumption DEF Common
        <2> QED BY <1>1, <2>1 DEF DiskInv
    <1>6. Len(x.tree.disks) = 1
        <2>1. Len(x.tree.disks) \in {1, 2}
            BY <1>1 DEF DiskInv, One
        <2> QED BY <1>1, <2>1 DEF DiskInv
    <1>7. x.tree.disks[1] = x.disk /\ x.tree.disks \in Seq(Disk) /\ x.disk \in Disk
        BY <1>1 DEF DiskInv, VirtXml, Tree
    <1>8. /\ y.disk = [x.disk EXCEPT ![f] = g]
          /\ y.tree.disks = [x.tree.disks EXCEPT ![1][f] = g]
          /\ y.tree.text = x.tree.text /\ y.tree.once = x.tree.once
          /\ y.tree.lists = x.tree.lists /\ y.cached = x.cached
        BY DEF VirtXml, Tree
    <1> HIDE DEF y
    <1>9. y.tree.disks[1] = y.disk /\ Len(y.tree.disks) = 1
        BY <1>6, <1>7, <1>8
    <1>10. y.disk[f] = g /\ \A k \in {"file", "io", "cache"} \ {f} : y.disk[k] = x.disk[k]
        BY <1>4, <1>7, <1>8 DEF Disk
    <1>11. ASSUME NEW s \in DOMAIN DiskSettings
           PROVE  y.disk[DiskSettings[s]] = IF s \in left THEN "template" ELSE g
        <2>1. CASE s = step
            BY <1>10, <2>1
        <2>2. CASE s # step
            <3>1. DiskSettings[s] \in {"file", "io", "cache"} \ {f}
                BY <1>2, <2>2
            <3>2. x.disk[DiskSettings[s]] = IF s \in todo THEN "template" ELSE g
                BY <1>1 DEF DiskInv
            <3> QED BY <1>10, <2>2, <3>1, <3>2
        <2> QED BY <2>1, <2>2
    <1>12. One(o.diskfile /\ "disk" \notin left) = 0
        <2>1. 1 = 1 + One(o.diskfile /\ "disk" \notin todo)
            BY <1>1, <1>6 DEF DiskInv
        <2> QED BY <1>3, <2>1 DEF One
    <1>13. DiskInv(g, o, left, y)
        <2> HIDE DEF left
        <2> QED BY <1>9, <1>11, <1>12 DEF DiskInv
    <1>14. PartsInv(g, o, left, y)
        BY <1>1, <1>3, <1>8, <1>13, TextFrame, OnceFrame, ListFrame DEF PartsInv
    <1> QED BY <1>5, <1>6, <1>14 DEF y

\* The second disk is like the first one when that one is complete.
LEMMA DiskParts ==
    ASSUME NEW g \in Guests, NEW o \in OptionSet, NEW todo, todo \subseteq PrepareSteps(o),
           NEW x \in VirtXml, PartsInv(g, o, todo, x),
           "disk" \in todo, todo \cap DOMAIN DiskSettings = {}
    PROVE  PartsInv(g, o, todo \ {"disk"}, [x EXCEPT !.tree.disks =
                Append(@, [file |-> g, io |-> x.disk.io, cache |-> x.disk.cache])])
    <1> DEFINE d == [file |-> g, io |-> x.disk.io, cache |-> x.disk.cache]
               y == [x EXCEPT !.tree.disks = Append(@, d)]
               left == todo \ {"disk"}
    <1>1. /\ TextInv(g, o, todo, x) /\ OnceInv(g, o, todo, x)
          /\ ListInv(g, o, todo, x) /\ DiskInv(g, o, todo, x)
        BY DEF PartsInv
    <1>2. /\ DOMAIN DiskSettings = {"image", "iomode", "cache"}
          /\ DiskSettings["image"] = "file" /\ DiskSettings["iomode"] = "io"
          /\ DiskSettings["cache"] = "cache"
        BY DEF DiskSettings
    <1>3. "disk" \notin Text /\ "disk" \notin Once
        BY DEF Text, Once
    <1>4. x.tree.disks \in Seq(Disk) /\ x.disk \in Disk
        BY DEF VirtXml, Tree
    <1>5. x.disk.file = g /\ x.disk.io = g /\ x.disk.cache = g
        BY <1>1, <1>2 DEF DiskInv
    <1>6. d = x.disk
        BY <1>4, <1>5 DEF Disk
    <1>7. Len(x.tree.disks) = 1 /\ x.tree.disks[1] = x.disk
        BY <1>1 DEF DiskInv, One
    <1> HIDE DEF d
    <1>8. /\ y.tree.disks = Append(x.tree.disks, d) /\ y.disk = x.disk
          /\ y.tree.text = x.tree.text /\ y.tree.once = x.tree.once
          /\ y.tree.lists = x.tree.lists /\ y.cached = x.cached
        BY DEF VirtXml, Tree
    <1> HIDE DEF y
    <1>9. Len(y.tree.disks) = 2 /\ y.tree.disks[1] = y.disk /\ y.tree.disks[2] = y.disk
        BY <1>4, <1>6, <1>7, <1>8
    <1>10. One(o.diskfile /\ "disk" \notin left) = 1
        <2>1. o.diskfile
            BY DEF PrepareSteps, Called
        <2> QED BY <2>1 DEF One
    <1>11. \A s \in DOMAIN DiskSettings :
                y.disk[DiskSettings[s]] = IF s \in left THEN "template" ELSE g
        BY <1>1, <1>8 DEF DiskInv
    <1>12. left \cap DOMAIN DiskSettings = {}
        OBVIOUS
    <1>13. DiskInv(g, o, left, y)
        <2> HIDE DEF left
        <2> QED BY <1>9, <1>10, <1>11, <1>12 DEF DiskInv
    <1>14. PartsInv(g, o, left, y)
        BY <1>1, <1>3, <1>8, <1>13, TextFrame, OnceFrame, ListFrame DEF PartsInv
    <1> QED BY <1>14 DEF d, y

\* With nothing left to call, the tree is what the options ask for.
LEMMA PartsDone ==
    ASSUME NEW g \in Guests, NEW o \in OptionSet, NEW x \in VirtXml, PartsInv(g, o, {}, x)
    PROVE  x.tree = Wanted(g, o)
    <1> DEFINE W == Wanted(g, o)
    <1>1. /\ TextInv(g, o, {}, x) /\ OnceInv(g, o, {}, x)
          /\ ListInv(g, o, {}, x) /\ DiskInv(g, o, {}, x)
        BY DEF PartsInv
    <1>2. /\ x.tree = [text |-> x.tree.text, disks |-> x.tree.disks, once |-> x.tree.once,
                       lists |-> x.tree.lists]
          /\ x.tree.text \in [Text -> Seq(Texts)] /\ x.tree.disks \in Seq(Disk)
          /\ x.tree.once \in [Once -> Texts] /\ x.tree.lists \in [Lists -> Seq(Texts)]
          /\ x.disk \in Disk
        BY DEF VirtXml, Tree
    <1>3. /\ W = [text |-> W.text, disks |-> W.disks, once |-> W.once, lists |-> W.lists]
          /\ W.text = [p \in Text |-> W.text[p]]
          /\ W.once = [p \in Once |-> W.once[p]]
          /\ W.lists = [p \in Lists |-> W.lists[p]]
        <2>1. W = [text |-> W.text, disks |-> W.disks, once |-> W.once, lists |-> W.lists]
            BY DEF Wanted
        <2>2. W.text = [p \in Text |-> W.text[p]]
            BY DEF Wanted
        <2>3. W.once = [p \in Once |-> W.once[p]]
            BY DEF Wanted
        <2>4. W.lists = [p \in Lists |-> W.lists[p]]
            <3> DEFINE T == Template(o.vmtype)
                       L(p) ==
                CASE p = "pins" -> IF o.cpu_ids = "none" THEN T.lists.pins
                               ELSE Append(T.lists.pins, g)
                  [] p = "nic" -> IF o.driver THEN <<g>> ELSE <<>>
                  [] p = "args" ->
                        [i \in 1..(1 + One(o.vmtype = "sgx") + One(o.mwait)) |-> g]
            <3>1. W.lists = [p \in Lists |-> L(p)]
                BY DEF Wanted
            <3> HIDE DEF L, W
            <3> QED BY <3>1
        <2> QED BY <2>4, <2>1, <2>2, <2>3
    <1>4. W.disks = [i \in 1..(1 + One(o.diskfile)) |-> [file |-> g, io |-> g, cache |-> g]]
        BY DEF Wanted
    <1>5. W.lists["args"] = [i \in 1..(1 + One(o.vmtype = "sgx") + One(o.mwait)) |-> g]
        BY DEF Wanted, Lists
    <1> HIDE DEF W
    <1>6. x.tree.text = W.text
        BY <1>1, <1>2, <1>3 DEF TextInv, W
    <1>7. x.tree.once = W.once
        BY <1>1, <1>2, <1>3 DEF OnceInv, W
    <1>8. x.tree.lists = W.lists
        <2>1. \A p \in {"pins", "nic"} : x.tree.lists[p] = W.lists[p]
            BY <1>1 DEF ListInv, W
        <2>2. One("args" \notin {}) = 1
            BY DEF One
        <2>3. (o.vmtype = "sgx" /\ "epc" \notin {}) = (o.vmtype = "sgx")
            OBVIOUS
        <2>4. (o.mwait /\ "mwait" \notin {}) = o.mwait
            BY DEF OptionSet
        <2>5. x.tree.lists["args"] = W.lists["args"]
            BY <1>1, <1>5, <2>2, <2>3, <2>4 DEF ListInv
        <2>6. \A p \in Lists : x.tree.lists[p] = W.lists[p]
            BY <2>1, <2>5 DEF Lists
        <2> QED BY <1>2, <1>3, <2>6
    <1>9. x.tree.disks = W.disks
        <2>1. (o.diskfile /\ "disk" \notin {}) = o.diskfile
            BY DEF OptionSet
        <2>2. Len(x.tree.disks) = 1 + One(o.diskfile) /\ One(o.diskfile) \in 0..1
            BY <1>1, <2>1 DEF DiskInv, One
        <2>3. x.disk.file = g /\ x.disk.io = g /\ x.disk.cache = g
            BY <1>1 DEF DiskInv, DiskSettings
        <2>4. x.disk = [file |-> g, io |-> g, cache |-> g]
            BY <1>2, <2>3 DEF Disk
        <2>5. \A i \in 1..Len(x.tree.disks) : x.tree.disks[i] = x.disk
            BY <1>1, <2>2 DEF DiskInv
        <2>6. x.tree.disks = [i \in 1..Len(x.tree.disks) |-> x.tree.disks[i]]
            <3> DEFINE s == x.tree.disks
            <3>1. s \in Seq(Disk)
                BY <1>2
            <3> HIDE DEF s
            <3>2. s = [i \in 1..Len(s) |-> s[i]]
                BY <3>1
            <3> QED BY <3>2 DEF s
        <2> QED BY <1>4, <2>2, <2>4, <2>5, <2>6
    <1> QED BY <1>2, <1>3, <1>6, <1>7, <1>8, <1>9 DEF W

-----------------------------------------------------------------------------
(* What a setter does to the state. *)

\* If the tree was as it should be before the call it is so after it, and the call
\* finds what it looks for.
Moves(g, step) ==
    LET o == guest[g].opt
        todo == guest[g].todo
        before == PartsInv(g, o, todo, xml[g])
    IN  \/ Skip(g, step) /\ (before => PartsInv(g, o, todo \ {step}, xml[g]))
        \/ Raise(g) /\ ~before
        \/ Refuse(g)
        \/ \E x \in VirtXml : /\ x.filepath = xml[g].filepath
                              /\ save(g, step, x)
                              /\ before => PartsInv(g, o, todo \ {step}, x)

Setters(g) == \E step \in Range(Order) \ {"clone"} : At(g, step) /\ Moves(g, step)

\* What the invariant says of the guest whose setter is called.
LEMMA AtFacts ==
    ASSUME TypeOK, BuildInv, NEW g \in Guests, NEW step, At(g, step)
    PROVE  /\ guest[g].opt \in OptionSet /\ xml[g] \in VirtXml
           /\ step \in guest[g].todo /\ step \in Range(Order)
           /\ guest[g].todo \subseteq PrepareSteps(guest[g].opt)
           /\ guest[g].state = "building"
           /\ \A h \in Guests : guest[h].state = "building" => h = g
           /\ guest[g].opt.vmtype = "sgx" => guest[g].opt.boot = "grub"
    <1>1. guest[g] \in Guest /\ xml[g] \in VirtXml
        BY DEF TypeOK
    <1>2. step \in guest[g].todo
        BY DEF At
    <1> QED BY <1>1, <1>2 DEF BuildInv, Guest, Type

LEMMA Refused ==
    ASSUME TypeOK, BuildInv, NEW g \in Guests, NEW step, step # "clone", At(g, step),
           Refuse(g)
    PROVE  Setters(g)
    <1>1. step \in Range(Order)
        BY AtFacts
    <1>2. Moves(g, step)
        BY DEF Moves
    <1> QED BY <1>1, <1>2 DEF Setters

LEMMA SetTextMoves ==
    ASSUME TypeOK, BuildInv, NEW g \in Guests, SetText(g)
    PROVE  Setters(g)
    <1> DEFINE o == guest[g].opt
               x == xml[g]
               todo == guest[g].todo
    <1>1. PICK p \in Text :
            LET v == Value(g, o, p)
                found == Len(x.tree.text[p]) = 1
            IN  /\ At(g, p)
                /\ \/ x.cached[p] = v /\ Skip(g, p)
                   \/ x.cached[p] # v /\ v = "None" /\ _delete_element(g, p)
                   \/ /\ x.cached[p] # v /\ v # "None" /\ found
                      /\ save(g, p, [x EXCEPT !.tree = _set_single_element_value(@, p, v),
                                              !.cached[p] = v])
                   \/ /\ x.cached[p] # v /\ v # "None" /\ ~found
                      /\ IF p \in Careful THEN Skip(g, p) ELSE save(g, p, x)
        BY DEF SetText
    <1> DEFINE v == Value(g, o, p)
    <1>2. /\ o \in OptionSet /\ x \in VirtXml /\ p \in todo /\ p \in Range(Order)
          /\ o.vmtype = "sgx" => o.boot = "grub"
        BY <1>1, AtFacts
    <1>3. p # "clone"
        BY DEF Text
    <1>4. v \in Texts /\ "None" \in Texts
        BY <1>2, ValueType DEF Texts, Common
    <1>5. ASSUME PartsInv(g, o, todo, x)
          PROVE  /\ x.cached[p] = v => PartsInv(g, o, todo \ {p}, x)
                 /\ v = "None" => PartsInv(g, o, todo \ {p},
                        [x EXCEPT !.tree.text[p] = <<>>, !.cached[p] = "None"])
                 /\ v # "None" => /\ Len(x.tree.text[p]) = 1
                                  /\ PartsInv(g, o, todo \ {p},
                                        [x EXCEPT !.tree.text[p] = <<v>>, !.cached[p] = v])
        <2> HIDE DEF x, o, todo
        <2> QED BY <1>2, <1>5, TextParts
    <1> SUFFICES Moves(g, p)
        BY <1>1, <1>2, <1>3 DEF Setters
    <1>6. CASE x.cached[p] = v /\ Skip(g, p)
        BY <1>5, <1>6 DEF Moves
    <1>7. CASE v = "None" /\ _delete_element(g, p)
        <2> DEFINE y == [x EXCEPT !.tree.text[p] = <<>>, !.cached[p] = "None"]
        <2>1. y \in VirtXml /\ y.filepath = x.filepath
            <3>1. <<>> \in Seq(Texts)
                BY <1>4
            <3> HIDE DEF x, v
            <3> QED BY <1>2, <1>4, <3>1 DEF VirtXml, Tree
        <2>2. save(g, p, y)
            BY <1>7 DEF _delete_element
        <2>3. PartsInv(g, o, todo, x) => PartsInv(g, o, todo \ {p}, y)
            BY <1>5, <1>7
        <2> HIDE DEF y
        <2> QED BY <2>1, <2>2, <2>3 DEF Moves
    <1>8. CASE /\ v # "None"
               /\ save(g, p, [x EXCEPT !.tree = _set_single_element_value(@, p, v),
                                       !.cached[p] = v])
        <2> DEFINE y == [x EXCEPT !.tree.text[p] = <<v>>, !.cached[p] = v]
        <2>1. y \in VirtXml /\ y.filepath = x.filepath
            <3>1. <<v>> \in Seq(Texts)
                BY <1>4
            <3> HIDE DEF x, v
            <3> QED BY <1>2, <1>4, <3>1 DEF VirtXml, Tree
        <2>2. y = [x EXCEPT !.tree = _set_single_element_value(@, p, v), !.cached[p] = v]
            BY <1>2 DEF _set_single_element_value, VirtXml, Tree
        <2>3. PartsInv(g, o, todo, x) => PartsInv(g, o, todo \ {p}, y)
            BY <1>5, <1>8
        <2> HIDE DEF y
        <2>4. save(g, p, y)
            BY <1>8, <2>2
        <2> QED BY <2>1, <2>3, <2>4 DEF Moves
    <1>9. CASE /\ v # "None" /\ Len(x.tree.text[p]) # 1
               /\ IF p \in Careful THEN Skip(g, p) ELSE save(g, p, x)
        <2>1. ~PartsInv(g, o, todo, x)
            BY <1>5, <1>9
        <2> QED BY <1>2, <1>9, <2>1 DEF Moves
    <1> QED BY <1>1, <1>6, <1>7, <1>8, <1>9

LEMMA SetDiskFieldMoves ==
    ASSUME TypeOK, BuildInv, NEW g \in Guests, SetDiskField(g)
    PROVE  Setters(g)
    <1> DEFINE o == guest[g].opt
               x == xml[g]
               todo == guest[g].todo
    <1>1. PICK step \in DOMAIN DiskSettings :
            LET f == DiskSettings[step]
            IN  /\ At(g, step)
                /\ CASE x.disk[f] = g -> Skip(g, step)
                     [] x.disk[f] # g /\ Len(x.tree.disks) = 1 ->
                            save(g, step, [x EXCEPT !.tree.disks[1][f] = g, !.disk[f] = g])
                     [] OTHER -> Raise(g)
        BY DEF SetDiskField
    <1> DEFINE f == DiskSettings[step]
               y == [x EXCEPT !.tree.disks[1][f] = g, !.disk[f] = g]
    <1>2. o \in OptionSet /\ x \in VirtXml /\ step \in todo /\ step \in Range(Order)
        BY <1>1, AtFacts
    <1>3. step # "clone" /\ f \in {"file", "io", "cache"}
        BY DEF DiskSettings
    <1>4. ASSUME PartsInv(g, o, todo, x)
          PROVE  x.disk[f] # g /\ Len(x.tree.disks) = 1 /\ PartsInv(g, o, todo \ {step}, y)
        <2> HIDE DEF x, o, todo, f
        <2> QED BY <1>2, <1>4, DiskFieldParts DEF f
    <1> SUFFICES Moves(g, step)
        BY <1>1, <1>2, <1>3 DEF Setters
    <1>5. CASE x.disk[f] = g
        <2>1. Skip(g, step)
            BY <1>1, <1>5
        <2> QED BY <1>4, <1>5, <2>1 DEF Moves
    <1>6. CASE x.disk[f] # g /\ Len(x.tree.disks) = 1
        <2>1. save(g, step, y)
            BY <1>1, <1>6
        <2>2. y \in VirtXml /\ y.filepath = x.filepath
            <3> HIDE DEF x, f
            <3>1. x.tree.disks \in Seq(Disk) /\ x.disk \in Disk /\ g \in Texts
                BY <1>2 DEF VirtXml, Tree, Texts
            <3>2. [x.disk EXCEPT ![f] = g] \in Disk
                BY <1>3, <3>1 DEF Disk
            <3>3. x.tree.disks[1] \in Disk
                BY <1>6, <3>1
            <3>4. [x.tree.disks[1] EXCEPT ![f] = g] \in Disk
                BY <1>3, <3>1, <3>3 DEF Disk
            <3>5. [x.tree.disks EXCEPT ![1] = [x.tree.disks[1] EXCEPT ![f] = g]] \in Seq(Disk)
                BY <1>6, <3>1, <3>4
            <3>6. y = [x EXCEPT !.tree.disks = [x.tree.disks EXCEPT ![1] =
                                    [x.tree.disks[1] EXCEPT ![f] = g]],
                                !.disk = [x.disk EXCEPT ![f] = g]]
                BY <1>2, <1>6, <3>1 DEF VirtXml, Tree
            <3> HIDE DEF y
            <3> QED BY <1>2, <3>2, <3>5, <3>6 DEF VirtXml, Tree
        <2> HIDE DEF y
        <2> QED BY <1>4, <2>1, <2>2 DEF Moves
    <1>7. CASE x.disk[f] # g /\ Len(x.tree.disks) # 1
        <2>1. Raise(g)
            BY <1>1, <1>7
        <2> QED BY <1>4, <1>7, <2>1 DEF Moves
    <1> QED BY <1>5, <1>6, <1>7

LEMMA SetDiskMoves ==
    ASSUME TypeOK, BuildInv, NEW g \in Guests, set_disk(g)
    PROVE  Setters(g)
    <1> DEFINE o == guest[g].opt
               x == xml[g]
               todo == guest[g].todo
               d == [file |-> g, io |-> x.disk.io, cache |-> x.disk.cache]
               y == [x EXCEPT !.tree.disks = Append(@, d)]
    <1>1. At(g, "disk") /\ save(g, "disk", y)
        BY DEF set_disk
    <1>2. /\ o \in OptionSet /\ x \in VirtXml /\ "disk" \in todo /\ "disk" \in Range(Order)
          /\ todo \subseteq PrepareSteps(o)
        BY <1>1, AtFacts
    <1>3. PartsInv(g, o, todo, x) => PartsInv(g, o, todo \ {"disk"}, y)
        <2>1. todo \cap DOMAIN DiskSettings = {}
            BY <1>1, ImageBeforeDisk
        <2> HIDE DEF x, o, todo
        <2> QED BY <1>2, <2>1, DiskParts
    <1>4. y \in VirtXml /\ y.filepath = x.filepath
        <2> HIDE DEF x
        <2>1. x.disk \in Disk /\ x.tree.disks \in Seq(Disk) /\ g \in Texts
            BY <1>2 DEF VirtXml, Tree, Texts
        <2>2. d \in Disk
            BY <2>1 DEF Disk
        <2> HIDE DEF d
        <2>3. Append(x.tree.disks, d) \in Seq(Disk)
            BY <2>1, <2>2
        <2> QED BY <1>2, <2>3 DEF VirtXml, Tree
    <1> HIDE DEF y
    <1>5. Moves(g, "disk")
        BY <1>1, <1>3, <1>4 DEF Moves
    <1> QED BY <1>1, <1>2, <1>5 DEF Setters

LEMMA SetOnceMoves ==
    ASSUME TypeOK, BuildInv, NEW g \in Guests, SetOnce(g)
    PROVE  Setters(g)
    <1> DEFINE o == guest[g].opt
               x == xml[g]
               todo == guest[g].todo
    <1>1. PICK p \in Once : At(g, p) /\
            IF p = "hugepages" /\ ~o.hugesize THEN Refuse(g)
            ELSE save(g, p, [x EXCEPT !.tree.once[p] = g])
        BY DEF SetOnce
    <1> DEFINE y == [x EXCEPT !.tree.once[p] = g]
    <1>2. /\ o \in OptionSet /\ x \in VirtXml /\ p \in todo /\ p \in Range(Order)
          /\ todo \subseteq PrepareSteps(o)
        BY <1>1, AtFacts
    <1>3. PartsInv(g, o, todo, x) => PartsInv(g, o, todo \ {p}, y)
        <2> HIDE DEF x, o, todo
        <2> QED BY <1>2, OnceParts
    <1>4. y \in VirtXml /\ y.filepath = x.filepath
        <2> HIDE DEF x
        <2> QED BY <1>2 DEF VirtXml, Tree, Texts
    <1>5. p # "clone"
        BY DEF Once
    <1>0. Refuse(g) \/ save(g, p, y)
        BY <1>1
    <1> HIDE DEF y
    <1>6. Moves(g, p)
        BY <1>0, <1>3, <1>4 DEF Moves
    <1> QED BY <1>1, <1>2, <1>5, <1>6 DEF Setters

\* AddToList and set_epc_params, when they add.
LEMMA ListMoves ==
    ASSUME TypeOK, BuildInv, NEW g \in Guests,
           NEW step \in {"pins", "nic", "args", "epc", "mwait"}, At(g, step),
           NEW p \in Lists, p = IF step \in {"pins", "nic"} THEN step ELSE "args",
           save(g, step, [xml[g] EXCEPT !.tree.lists[p] = Append(@, g)])
    PROVE  Setters(g)
    <1> DEFINE o == guest[g].opt
               x == xml[g]
               todo == guest[g].todo
               y == [x EXCEPT !.tree.lists[p] = Append(@, g)]
    <1>2. /\ o \in OptionSet /\ x \in VirtXml /\ step \in todo /\ step \in Range(Order)
          /\ todo \subseteq PrepareSteps(o)
        BY AtFacts
    <1>3. PartsInv(g, o, todo, x) => PartsInv(g, o, todo \ {step}, y)
        <2>1. y = [x EXCEPT !.tree.lists[p] = Append(@, g)]
            OBVIOUS
        <2> HIDE DEF x, o, todo, y
        <2> QED BY <1>2, <2>1, ListParts
    <1>4. y \in VirtXml /\ y.filepath = x.filepath
        <2> HIDE DEF x
        <2>1. Append(x.tree.lists[p], g) \in Seq(Texts)
            BY <1>2 DEF VirtXml, Tree, Texts
        <2> QED BY <1>2, <2>1 DEF VirtXml, Tree
    <1>5. save(g, step, y)
        OBVIOUS
    <1> HIDE DEF y
    <1>6. Moves(g, step)
        BY <1>3, <1>4, <1>5 DEF Moves
    <1> QED BY <1>2, <1>6 DEF Setters

\* Every setter is a call whose turn it is, and keeps the tree as it should be.
LEMMA StepMoves ==
    ASSUME TypeOK, BuildInv, NEW g \in Guests, Step(g)
    PROVE  clone(g) \/ Setters(g)
    <1>1. CASE AddToList(g)
        <2>1. PICK step \in DOMAIN ListOf : At(g, step) /\
                IF step = "pins" /\ guest[g].opt.cpu_ids = "one" THEN Refuse(g)
                ELSE save(g, step, [xml[g] EXCEPT !.tree.lists[ListOf[step]] = Append(@, g)])
            BY <1>1 DEF AddToList
        <2>2. /\ step \in {"pins", "nic", "args", "epc", "mwait"} /\ ListOf[step] \in Lists
              /\ ListOf[step] = IF step \in {"pins", "nic"} THEN step ELSE "args"
            BY DEF ListOf, Lists
        <2>3. CASE Refuse(g)
            BY <2>1, <2>2, <2>3, Refused
        <2>4. CASE save(g, step, [xml[g] EXCEPT !.tree.lists[ListOf[step]] = Append(@, g)])
            BY <2>1, <2>2, <2>4, ListMoves
        <2> QED BY <2>1, <2>3, <2>4
    <1>2. CASE set_epc_params(g)
        <2>1. At(g, "epc")
            BY <1>2 DEF set_epc_params
        <2>2. CASE guest[g].opt.epc
            <3>1. save(g, "epc", [xml[g] EXCEPT !.tree.lists["args"] = Append(@, g)])
                BY <1>2, <2>2 DEF set_epc_params
            <3>2. "args" \in Lists
                BY DEF Lists
            <3> QED BY <2>1, <3>1, <3>2, ListMoves
        <2>3. CASE ~guest[g].opt.epc
            <3>1. Refuse(g)
                BY <1>2, <2>3 DEF set_epc_params
            <3> QED BY <2>1, <3>1, Refused
        <2> QED BY <2>2, <2>3
    <1>3. CASE HostUnreadable(g)
        BY <1>3, Refused DEF HostUnreadable
    <1> QED BY <1>1, <1>2, <1>3, SetTextMoves, SetDiskFieldMoves, SetDiskMoves, SetOnceMoves DEF Step

-----------------------------------------------------------------------------
(* Every action keeps the invariant. *)

\* The texts of files that are not XML.
LEMMA FileType ==
    /\ Missing \in File /\ Broken \in File
    /\ \A tree \in Tree : Content(tree) \in File
    <1>1. Template("td") \in Tree
        BY TemplateType DEF Types
    <1> QED BY <1>1 DEF Missing, Broken, Content, File

\* What a write leaves in the file.
LEMMA WriteFacts ==
    ASSUME NEW tree \in Tree, NEW old \in File, NEW w \in Written(tree) \cup NotWritten(old)
    PROVE  /\ w.ok \in BOOLEAN /\ w.to \in File
           /\ w.ok => w.to = Content(tree)
           /\ ~w.ok => ioerrors # MaxIoErrors
    <1>1. Content(tree) \in File /\ Broken \in File
        BY FileType
    <1>2. CASE w \in Written(tree)
        <2>1. w.ok = TRUE /\ w.to = Content(tree)
            BY <1>2 DEF Written
        <2> QED BY <1>1, <2>1
    <1>3. CASE w \in NotWritten(old)
        <2>1. w.ok = FALSE /\ w.to \in {old, Broken} /\ ioerrors # MaxIoErrors
            BY <1>3 DEF NotWritten
        <2> QED BY <1>1, <2>1
    <1> QED BY <1>2, <1>3

\* The guests other than g are as they were.
LEMMA OtherGuests ==
    ASSUME IInv, NEW g \in Guests, NEW h \in Guests, h # g,
           guest'[h] = guest[h], xml'[h] = xml[h], files'[h] = files[h], tainted => tainted'
    PROVE  /\ Cloned(h)' /\ ~tainted' => xml'[h].filepath = "own"
           /\ Cloned(h)' /\ guest'[h].saved /\ xml'[h].filepath = "own"
                => files'[h] = Content(xml'[h].tree)
           /\ guest'[h].state # "none" /\ OnlyRoot(guest'[h].before, RootOf[guest'[h].opt.distro])
                => Effective(guest'[h].cmdline, "root") = RootOf[guest'[h].opt.distro]
           /\ guest'[h].pristine =>
                /\ Cloned(h)' => PartsInv(h, guest'[h].opt, guest'[h].todo, xml'[h])
                /\ guest'[h].state # "raised"
    <1>1. Cloned(h)' <=> Cloned(h)
        BY DEF Cloned
    <1>2. Cloned(h)' /\ ~tainted' => xml'[h].filepath = "own"
        BY <1>1 DEF IInv, PathInv
    <1>3. Cloned(h)' /\ guest'[h].saved /\ xml'[h].filepath = "own"
            => files'[h] = Content(xml'[h].tree)
        BY <1>1 DEF IInv, FileInv
    <1>4. guest'[h].state # "none" /\ OnlyRoot(guest'[h].before, RootOf[guest'[h].opt.distro])
            => Effective(guest'[h].cmdline, "root") = RootOf[guest'[h].opt.distro]
        BY DEF IInv, RootInv
    <1>5. guest'[h].pristine =>
                /\ Cloned(h)' => PartsInv(h, guest'[h].opt, guest'[h].todo, xml'[h])
                /\ guest'[h].state # "raised"
        BY <1>1 DEF IInv, TreeInv, Type
    <1> QED BY <1>2, <1>3, <1>4, <1>5

\* A setter that saves, whether or not the file could be written.
LEMMA SaveInv ==
    ASSUME IInv, NEW g \in Guests, NEW step \in Range(Order) \ {"clone"}, At(g, step),
           NEW x \in VirtXml, x.filepath = xml[g].filepath, save(g, step, x),
           PartsInv(g, guest[g].opt, guest[g].todo, xml[g])
                => PartsInv(g, guest[g].opt, guest[g].todo \ {step}, x)
    PROVE  IInv'
    <1>1. PICK w \in Written(x.tree) \cup
                     NotWritten(IF x.filepath = "own" THEN files[g] ELSE templates[Type(g)]) :
            /\ IF x.filepath = "own"
               THEN files' = [files EXCEPT ![g] = w.to] /\ UNCHANGED templates
               ELSE templates' = [templates EXCEPT ![Type(g)] = w.to] /\ UNCHANGED files
            /\ xml' = [xml EXCEPT ![g] = x]
            /\ ioerrors' = IF w.ok THEN ioerrors ELSE ioerrors + 1
            /\ guest' = [guest EXCEPT ![g].todo = @ \ {step}, ![g].saved = w.ok]
            /\ UNCHANGED <<cmdline, edits, tainted, put>>
        BY DEF save
    <1>2. TypeOK /\ BuildInv
        BY DEF IInv
    <1>3. /\ guest[g] \in Guest /\ guest[g].opt \in OptionSet /\ Type(g) \in Types
          /\ files \in [Guests -> File] /\ templates \in [Types -> File]
          /\ guest \in [Guests -> Guest] /\ xml \in [Guests -> VirtXml]
          /\ ioerrors \in 0..MaxIoErrors /\ MaxIoErrors \in Nat
        BY <1>2, DomainAssumption DEF TypeOK, Guest, OptionSet, Type
    <1>4. /\ guest[g].state = "building" /\ "clone" \notin guest[g].todo
          /\ step \in guest[g].todo /\ Cloned(g)
          /\ \A h \in Guests : guest[h].state = "building" => h = g
        BY <1>2, AtFacts, CloneFirst DEF Cloned
    <1>5. /\ w.ok \in BOOLEAN /\ w.to \in File
          /\ w.ok => w.to = Content(x.tree)
          /\ ~w.ok => ioerrors # MaxIoErrors
        <2>1. x.tree \in Tree
            BY DEF VirtXml
        <2>2. files[g] \in File /\ templates[Type(g)] \in File
            BY <1>3
        <2> QED BY <1>1, <2>1, <2>2, WriteFacts
    <1>6. /\ \A h \in Guests : h # g => guest'[h] = guest[h] /\ xml'[h] = xml[h]
          /\ guest'[g] = [guest[g] EXCEPT !.todo = guest[g].todo \ {step}, !.saved = w.ok]
          /\ xml'[g] = x
        BY <1>1, <1>3 DEF Guest
    <1>7. /\ guest'[g].opt = guest[g].opt /\ guest'[g].state = guest[g].state
          /\ guest'[g].pristine = guest[g].pristine /\ guest'[g].cmdline = guest[g].cmdline
          /\ guest'[g].before = guest[g].before /\ guest'[g].saved = w.ok
          /\ guest'[g].todo = guest[g].todo \ {step} /\ guest'[g] \in Guest
        BY <1>3, <1>5, <1>6 DEF Guest
    <1>8. \A h \in Guests : h # g => files'[h] = files[h]
        BY <1>1, <1>3
    <1>9. TypeOK'
        <2>1. guest' \in [Guests -> Guest]
            BY <1>1, <1>3, <1>6, <1>7
        <2>2. xml' \in [Guests -> VirtXml]
            BY <1>1, <1>3
        <2>3. files' \in [Guests -> File] /\ templates' \in [Types -> File]
            BY <1>1, <1>3, <1>5
        <2>4. ioerrors' \in 0..MaxIoErrors
            BY <1>1, <1>3, <1>5
        <2> QED BY <1>1, <1>2, <2>4, <2>1, <2>2, <2>3 DEF TypeOK
    <1>10. BuildInv'
        <2>1. \A h \in Guests : guest'[h].state = guest[h].state /\ guest'[h].opt = guest[h].opt
                /\ guest'[h].todo \subseteq guest[h].todo
                /\ guest'[h].pristine = guest[h].pristine
            BY <1>6, <1>7
        <2>2. \A h \in Guests : "clone" \notin guest'[h].todo
            BY <1>2, <1>4, <1>6, <1>7 DEF BuildInv
        <2> QED BY <1>2, <2>1, <2>2 DEF BuildInv, Type
    <1>11. TemplateUntouched'
        <2>1. ~tainted => templates' = templates
            BY <1>1, <1>4 DEF IInv, PathInv
        <2> QED BY <1>1, <2>1 DEF IInv, TemplateUntouched
    <1>12. PathInv'
        BY <1>1, <1>4, <1>6, <1>8, OtherGuests, ZenonT(30) DEF IInv, PathInv
    <1>13. FileInv'
        <2>1. guest'[g].saved /\ xml'[g].filepath = "own" => files'[g] = Content(xml'[g].tree)
            BY <1>1, <1>3, <1>5, <1>6, <1>7
        <2>2. ASSUME NEW h \in Guests, h # g
              PROVE  Cloned(h)' /\ guest'[h].saved /\ xml'[h].filepath = "own"
                        => files'[h] = Content(xml'[h].tree)
            <3>1. guest'[h] = guest[h] /\ xml'[h] = xml[h] /\ files'[h] = files[h]
                BY <1>6, <1>8, <2>2
            <3>2. tainted => tainted'
                BY <1>1
            <3> QED BY <2>2, <3>1, <3>2, OtherGuests
        <2> QED BY <2>1, <2>2 DEF FileInv
    <1>14. RootInv'
        <2>1. \A h \in Guests : /\ guest'[h].state = guest[h].state
                                 /\ guest'[h].before = guest[h].before
                                 /\ guest'[h].cmdline = guest[h].cmdline
                                 /\ guest'[h].opt = guest[h].opt
            BY <1>6, <1>7
        <2> QED BY <2>1 DEF IInv, RootInv
    <1>15. TreeInv'
        <2>1. guest'[g].pristine => PartsInv(g, guest'[g].opt, guest'[g].todo, xml'[g])
            BY <1>4, <1>6, <1>7 DEF IInv, TreeInv
        <2>2. guest'[g].state # "raised"
            BY <1>4, <1>7
        <2>3. ASSUME NEW h \in Guests, h # g
              PROVE  guest'[h].pristine =>
                /\ Cloned(h)' => PartsInv(h, guest'[h].opt, guest'[h].todo, xml'[h])
                /\ guest'[h].state # "raised"
            <3>1. /\ guest'[h] = guest[h] /\ xml'[h] = xml[h] /\ files'[h] = files[h]
                  /\ tainted => tainted'
                BY <1>1, <1>6, <1>8, <2>3
            <3> QED BY <2>3, <3>1, OtherGuests
        <2> QED BY <2>1, <2>2, <2>3 DEF TreeInv, Type
    <1>16. LineInv'
        BY <1>1 DEF IInv, LineInv
    <1> QED BY <1>9, <1>10, <1>11, <1>12, <1>13, <1>14, <1>15, <1>16 DEF IInv

\* A setter that has nothing to do.
LEMMA SkipInv ==
    ASSUME IInv, NEW g \in Guests, NEW step \in Range(Order) \ {"clone"}, At(g, step),
           Skip(g, step),
           PartsInv(g, guest[g].opt, guest[g].todo, xml[g])
                => PartsInv(g, guest[g].opt, guest[g].todo \ {step}, xml[g])
    PROVE  IInv'
    <1>1. /\ guest' = [guest EXCEPT ![g].todo = @ \ {step}]
          /\ UNCHANGED <<templates, files, xml, cmdline, edits, ioerrors, tainted, put>>
        BY DEF Skip
    <1>2. TypeOK /\ BuildInv
        BY DEF IInv
    <1>3. guest \in [Guests -> Guest] /\ guest[g] \in Guest
        BY <1>2 DEF TypeOK
    <1>4. /\ guest[g].state = "building" /\ Cloned(g) /\ "clone" \notin guest[g].todo
          /\ \A h \in Guests : guest[h].state = "building" => h = g
        BY <1>2, AtFacts, CloneFirst DEF Cloned
    <1>5. /\ \A h \in Guests : h # g => guest'[h] = guest[h]
          /\ guest'[g] = [guest[g] EXCEPT !.todo = guest[g].todo \ {step}]
        BY <1>1, <1>3 DEF Guest
    <1>6. /\ guest'[g].opt = guest[g].opt /\ guest'[g].state = guest[g].state
          /\ guest'[g].pristine = guest[g].pristine /\ guest'[g].cmdline = guest[g].cmdline
          /\ guest'[g].before = guest[g].before /\ guest'[g].saved = guest[g].saved
          /\ guest'[g].todo = guest[g].todo \ {step} /\ guest'[g] \in Guest
        BY <1>3, <1>5 DEF Guest
    <1>7. TypeOK'
        <2>1. guest' \in [Guests -> Guest]
            BY <1>1, <1>3, <1>5, <1>6
        <2> QED BY <1>1, <1>2, <2>1 DEF TypeOK
    <1>8. \A h \in Guests : /\ guest'[h].state = guest[h].state /\ guest'[h].opt = guest[h].opt
                            /\ guest'[h].todo \subseteq guest[h].todo
                            /\ guest'[h].pristine = guest[h].pristine
                            /\ guest'[h].before = guest[h].before
                            /\ guest'[h].cmdline = guest[h].cmdline
                            /\ guest'[h].saved = guest[h].saved
        BY <1>5, <1>6
    <1>9. BuildInv'
        <2>1. \A h \in Guests : "clone" \notin guest'[h].todo
            BY <1>2, <1>4, <1>5, <1>6 DEF BuildInv
        <2> QED BY <1>2, <1>8, <2>1 DEF BuildInv, Type
    <1>10. TemplateUntouched'
        BY <1>1 DEF IInv, TemplateUntouched
    <1>11. ASSUME NEW h \in Guests PROVE Cloned(h)' <=> Cloned(h)
        BY <1>4, <1>5, <1>6 DEF Cloned
    <1>12. PathInv' /\ FileInv'
        BY <1>1, <1>8, <1>11 DEF IInv, PathInv, FileInv
    <1>13. RootInv'
        BY <1>8 DEF IInv, RootInv
    <1>14. TreeInv'
        <2>1. guest'[g].pristine => PartsInv(g, guest'[g].opt, guest'[g].todo, xml'[g])
            BY <1>1, <1>4, <1>6 DEF IInv, TreeInv
        <2>2. guest'[g].state # "raised"
            BY <1>4, <1>6
        <2>3. ASSUME NEW h \in Guests, h # g
              PROVE  guest'[h].pristine =>
                /\ Cloned(h)' => PartsInv(h, guest'[h].opt, guest'[h].todo, xml'[h])
                /\ guest'[h].state # "raised"
            BY <1>1, <1>5, <2>3, OtherGuests
        <2> QED BY <2>1, <2>2, <2>3 DEF TreeInv, Type
    <1>15. LineInv'
        BY <1>1 DEF IInv, LineInv
    <1> QED BY <1>7, <1>9, <1>10, <1>12, <1>13, <1>14, <1>15 DEF IInv

\* A constructor that raises leaves the files and the object as they are.
LEMMA LeaveInv ==
    ASSUME IInv, NEW g \in Guests, NEW state \in {"raised", "refused"}, Leave(g, state),
           guest[g].state = "building", guest[g].pristine => state = "refused"
    PROVE  IInv'
    <1>1. /\ guest' = [guest EXCEPT ![g].state = state, ![g].todo = {}]
          /\ UNCHANGED <<templates, files, xml, cmdline, edits, ioerrors, tainted, put>>
        BY DEF Leave
    <1>2. TypeOK /\ BuildInv
        BY DEF IInv
    <1>3. guest \in [Guests -> Guest] /\ guest[g] \in Guest
        BY <1>2 DEF TypeOK
    <1>5. /\ \A h \in Guests : h # g => guest'[h] = guest[h]
          /\ guest'[g] = [guest[g] EXCEPT !.state = state, !.todo = {}]
        BY <1>1, <1>3 DEF Guest
    <1>6. /\ guest'[g].opt = guest[g].opt /\ guest'[g].state = state
          /\ guest'[g].pristine = guest[g].pristine /\ guest'[g].cmdline = guest[g].cmdline
          /\ guest'[g].before = guest[g].before
          /\ guest'[g].todo = {} /\ guest'[g] \in Guest
        BY <1>3, <1>5 DEF Guest
    <1>7. TypeOK'
        <2>1. guest' \in [Guests -> Guest]
            BY <1>1, <1>3, <1>5, <1>6
        <2> QED BY <1>1, <1>2, <2>1 DEF TypeOK
    <1>9. BuildInv'
        <2>1. \A h \in Guests : guest'[h].state = "building" => guest[h].state = "building"
            BY <1>5, <1>6
        <2>2. \A h \in Guests : guest'[h].todo = {}
            BY <1>2, <1>5, <1>6, ZenonT(30) DEF BuildInv
        <2>3. \A h \in Guests : guest'[h].opt = guest[h].opt
                                /\ (guest'[h].state # "none" <=> guest[h].state # "none")
            BY <1>5, <1>6
        <2> QED BY <1>2, <2>1, <2>2, <2>3 DEF BuildInv, Type
    <1>10. TemplateUntouched'
        BY <1>1 DEF IInv, TemplateUntouched
    <1>11. ~Cloned(g)'
        BY <1>6 DEF Cloned
    <1>12. ASSUME NEW h \in Guests, h # g
           PROVE  /\ Cloned(h)' <=> Cloned(h)
                  /\ guest'[h] = guest[h]
        BY <1>5, <1>12 DEF Cloned
    <1>13. PathInv' /\ FileInv'
        BY <1>1, <1>11, <1>12 DEF IInv, PathInv, FileInv
    <1>14. RootInv'
        BY <1>6, <1>12 DEF IInv, RootInv
    <1>15. TreeInv'
        BY <1>1, <1>6, <1>11, <1>12 DEF IInv, TreeInv, Type
    <1>16. LineInv'
        BY <1>1 DEF IInv, LineInv
    <1> QED BY <1>7, <1>9, <1>10, <1>13, <1>14, <1>15, <1>16 DEF IInv

\* clone, whether or not the copy could be written.
LEMMA CloneInv ==
    ASSUME IInv, NEW g \in Guests, clone(g)
    PROVE  IInv'
    <1> DEFINE T == templates[Type(g)]
    <1>1. TypeOK /\ BuildInv /\ At(g, "clone")
        BY DEF IInv, clone
    <1>2. /\ guest[g] \in Guest /\ guest[g].opt \in OptionSet /\ Type(g) \in Types
          /\ files \in [Guests -> File] /\ templates \in [Types -> File]
          /\ guest \in [Guests -> Guest] /\ xml \in [Guests -> VirtXml]
          /\ ioerrors \in 0..MaxIoErrors /\ MaxIoErrors \in Nat
        BY <1>1, DomainAssumption DEF TypeOK, Guest, OptionSet, Type
    <1>3. /\ guest[g].state = "building" /\ "clone" \in guest[g].todo
          /\ guest[g].todo = PrepareSteps(guest[g].opt)
          /\ \A h \in Guests : guest[h].state = "building" => h = g
          /\ guest[g].pristine => ~tainted
        BY <1>1, AtFacts DEF BuildInv
    <1>4. guest[g].pristine => T = Content(Template(Type(g))) /\ Loadable(T)
        <2>1. Len(Template(Type(g)).disks) = 1
            BY <1>2, TemplateType
        <2> QED BY <1>2, <1>3, <2>1 DEF IInv, TemplateUntouched, Loadable, Content
    <1>5. CASE ~Loadable(T)
        <2>1. Raise(g)
            BY <1>5 DEF clone
        <2> QED BY <1>3, <1>4, <1>5, <2>1, LeaveInv DEF Raise
    <1>6. CASE Loadable(T)
        <2> DEFINE x(w) == [load(T.tree) EXCEPT !.filepath = Associated(@, w.ok)]
        <2>1. PICK w \in Written(T.tree) \cup NotWritten(files[g]) :
                /\ files' = [files EXCEPT ![g] = w.to]
                /\ xml' = [xml EXCEPT ![g] = x(w)]
                /\ ioerrors' = IF w.ok THEN ioerrors ELSE ioerrors + 1
                /\ tainted' = (tainted \/ ~w.ok)
                /\ guest' = [guest EXCEPT ![g].todo = @ \ {"clone"}, ![g].saved = w.ok]
                /\ UNCHANGED <<templates, cmdline, edits, put>>
            BY <1>6 DEF clone
        <2> DEFINE path == IF w.ok THEN "own" ELSE "template"
                   y == [load(T.tree) EXCEPT !.filepath = path]
        <2>2. T \in File /\ T.tree \in Tree /\ files[g] \in File /\ Len(T.tree.disks) = 1
            BY <1>2, <1>6 DEF File, Loadable
        <2>3. /\ w.ok \in BOOLEAN /\ w.to \in File
              /\ w.ok => w.to = Content(T.tree)
              /\ ~w.ok => ioerrors # MaxIoErrors
            BY <2>2, WriteFacts
        <2>4. x(w) = y /\ path \in {"own", "template"}
            BY DEF load, Associated
        <2>5. y \in VirtXml
            <3> HIDE DEF T
            <3> QED BY <2>2, <2>4, LoadType
        <2>6. y.filepath = path /\ y.tree = T.tree
            BY DEF load
        <2> HIDE DEF T, x, y
        <2>7. /\ \A h \in Guests : h # g => guest'[h] = guest[h] /\ xml'[h] = xml[h]
                                             /\ files'[h] = files[h]
              /\ guest'[g] = [guest[g] EXCEPT !.todo = guest[g].todo \ {"clone"}, !.saved = w.ok]
              /\ xml'[g] = y /\ files'[g] = w.to
            BY <1>2, <2>1, <2>4 DEF Guest
        <2>8. /\ guest'[g].opt = guest[g].opt /\ guest'[g].state = guest[g].state
              /\ guest'[g].pristine = guest[g].pristine /\ guest'[g].cmdline = guest[g].cmdline
              /\ guest'[g].before = guest[g].before /\ guest'[g].saved = w.ok
              /\ guest'[g].todo = guest[g].todo \ {"clone"} /\ guest'[g] \in Guest
            BY <1>2, <2>3, <2>7 DEF Guest
        <2>9. TypeOK'
            <3>1. guest' \in [Guests -> Guest]
                BY <1>2, <2>1, <2>7, <2>8
            <3>2. xml' \in [Guests -> VirtXml]
                BY <1>2, <2>1, <2>4, <2>5
            <3>3. files' \in [Guests -> File]
                BY <1>2, <2>1, <2>3
            <3>4. ioerrors' \in 0..MaxIoErrors
                BY <1>2, <2>1, <2>3
            <3>5. tainted' \in BOOLEAN
                BY <2>1
            <3> QED BY <1>1, <2>1, <3>1, <3>2, <3>3, <3>4, <3>5 DEF TypeOK
        <2>10. BuildInv'
            <3>1. \A h \in Guests : h # g => guest[h].todo = {}
                BY <1>1, <1>3 DEF BuildInv
            <3>2. \A h \in Guests : "clone" \notin guest'[h].todo
                BY <2>7, <2>8, <3>1
            <3>3. \A h \in Guests : guest'[h].state = guest[h].state
                    /\ guest'[h].opt = guest[h].opt /\ guest'[h].todo \subseteq guest[h].todo
                BY <2>7, <2>8
            <3> QED BY <1>1, <3>2, <3>3 DEF BuildInv, Type
        <2>11. TemplateUntouched'
            BY <2>1 DEF IInv, TemplateUntouched
        <2>12. PathInv'
            <3>1. ~tainted' => xml'[g].filepath = "own"
                BY <2>1, <2>6, <2>7
            <3>2. ASSUME NEW h \in Guests, h # g
                  PROVE  Cloned(h)' /\ ~tainted' => xml'[h].filepath = "own"
                BY <2>1, <2>7, <3>2, OtherGuests
            <3> QED BY <3>1, <3>2 DEF PathInv
        <2>13. FileInv'
            <3>1. guest'[g].saved => files'[g] = Content(xml'[g].tree)
                BY <2>8, <2>7, <2>6, <2>3
            <3>2. ASSUME NEW h \in Guests, h # g
                  PROVE  Cloned(h)' /\ guest'[h].saved /\ xml'[h].filepath = "own"
                            => files'[h] = Content(xml'[h].tree)
                BY <2>1, <2>7, <3>2, OtherGuests
            <3> QED BY <3>1, <3>2 DEF FileInv
        <2>14. RootInv'
            <3>1. \A h \in Guests : /\ guest'[h].state = guest[h].state
                                    /\ guest'[h].before = guest[h].before
                                    /\ guest'[h].cmdline = guest[h].cmdline
                                    /\ guest'[h].opt = guest[h].opt
                BY <2>7, <2>8
            <3> QED BY <3>1 DEF IInv, RootInv
        <2>15. TreeInv'
            <3>1. ASSUME guest[g].pristine
                  PROVE  PartsInv(g, guest'[g].opt, guest'[g].todo, xml'[g])
                <4>1. T.tree = Template(guest[g].opt.vmtype)
                    BY <1>4, <3>1 DEF Content, Type
                <4>2. y = [load(Template(guest[g].opt.vmtype)) EXCEPT !.filepath = path]
                    BY <4>1 DEF y
                <4>3. PartsInv(g, guest[g].opt, PrepareSteps(guest[g].opt) \ {"clone"}, y)
                    <5> HIDE DEF path
                    <5> QED BY <1>2, <4>2, CloneParts
                <4> QED BY <1>3, <2>7, <2>8, <4>3
            <3>2. guest'[g].state # "raised"
                BY <1>3, <2>8
            <3>3. ASSUME NEW h \in Guests, h # g
                  PROVE  guest'[h].pristine =>
                    /\ Cloned(h)' => PartsInv(h, guest'[h].opt, guest'[h].todo, xml'[h])
                    /\ guest'[h].state # "raised"
                <4>1. /\ guest'[h] = guest[h] /\ xml'[h] = xml[h] /\ files'[h] = files[h]
                      /\ tainted => tainted'
                    BY <2>1, <2>7, <3>3
                <4> QED BY <3>3, <4>1, OtherGuests
            <3> QED BY <2>8, <3>1, <3>2, <3>3 DEF TreeInv, Type
        <2>16. LineInv'
            BY <2>1 DEF IInv, LineInv
        <2> QED BY <2>16, <2>15, <2>14, <2>13, <2>12, <2>11, <2>10, <2>9 DEF IInv
    <1> QED BY <1>5, <1>6

\* new_vm: a guest that is being built, with every call to make, or that is refused,
\* and the root of its distribution at the end of the command line, if it was not
\* found there.
LEMMA NewInv ==
    ASSUME IInv, NEW g \in Guests, new_vm(g)
    PROVE  IInv'
    <1> DEFINE object(o) == IF o.cmdline = "own" THEN g ELSE "default"
               line(o) == add_field_from_string(cmdline[object(o)], RootOf[o.distro])
               opt(o) == [o EXCEPT !.boot = IF o.vmtype = "sgx" THEN "grub" ELSE @]
    <1>1. PICK o \in Options, goes \in BOOLEAN :
            /\ guest[g].state = "none" /\ NoneBuilding
            /\ cmdline' = [cmdline EXCEPT ![object(o)] = line(o)]
            /\ put' = [put EXCEPT ![object(o)] = @ \cup {RootOf[o.distro]}]
            /\ guest' = [guest EXCEPT ![g] =
                    [state |-> IF goes THEN "building" ELSE "refused",
                     todo |-> IF goes THEN PrepareSteps(o) ELSE {}, opt |-> opt(o),
                     cmdline |-> line(o), before |-> put[object(o)], pristine |-> ~tainted,
                     saved |-> TRUE]]
            /\ UNCHANGED <<templates, files, xml, edits, ioerrors, tainted>>
        <2>1. PICK o \in Options, connected \in BOOLEAN :
            LET goes == Usable(o) /\ connected
            IN  /\ guest[g].state = "none" /\ NoneBuilding
                /\ cmdline' = [cmdline EXCEPT ![object(o)] = line(o)]
                /\ put' = [put EXCEPT ![object(o)] = @ \cup {RootOf[o.distro]}]
                /\ guest' = [guest EXCEPT ![g] =
                        [state |-> IF goes THEN "building" ELSE "refused",
                         todo |-> IF goes THEN PrepareSteps(o) ELSE {}, opt |-> opt(o),
                         cmdline |-> line(o), before |-> put[object(o)],
                         pristine |-> ~tainted, saved |-> TRUE]]
                /\ UNCHANGED <<templates, files, xml, edits, ioerrors, tainted>>
            BY DEF new_vm
        <2>2. (Usable(o) /\ connected) \in BOOLEAN
            OBVIOUS
        <2> HIDE DEF object, line, opt
        <2> QED BY <2>1, <2>2
    <1> DEFINE c == cmdline[object(o)]
               p == put[object(o)]
               root == RootOf[o.distro]
               todo == IF goes THEN PrepareSteps(o) ELSE {}
               state == IF goes THEN "building" ELSE "refused"
    <1>2. TypeOK /\ BuildInv
        BY DEF IInv
    <1>3. o \in OptionSet /\ root \in Fields /\ KeyOf[root] = "root" /\ o.distro \in DOMAIN RootOf
        <2>1. o \in OptionSet
            BY DomainAssumption
        <2>2. o.distro \in {"ubuntu", "centos"}
            BY <2>1 DEF OptionSet
        <2> QED BY <2>1, <2>2, DomainAssumption
    <1>4. /\ c \in Seq(Fields) /\ cmdline \in [Guests \cup {"default"} -> Seq(Fields)]
          /\ c \in Seq(p) /\ p \in SUBSET Fields
          /\ put \in [Guests \cup {"default"} -> SUBSET Fields]
        BY <1>2 DEF TypeOK, IInv, LineInv
    <1>5. line(o) \in Seq(Fields) /\ line(o) \in Seq(p \cup {root})
        <2>1. line(o) = c \/ line(o) = Append(c, root)
            BY DEF add_field_from_string
        <2>2. c \in Seq(p \cup {root})
            BY <1>4, SeqLarger
        <2> HIDE DEF c, root, line, p
        <2>3. Append(c, root) \in Seq(Fields) /\ Append(c, root) \in Seq(p \cup {root})
            BY <1>3, <1>4, <2>2
        <2> QED BY <1>4, <2>1, <2>2, <2>3
    <1>6. OnlyRoot(p, root) => Effective(line(o), "root") = root
        <2>1. CASE is_field_exists(c, root)
            <3>1. line(o) = c
                BY <2>1 DEF add_field_from_string
            <3> HIDE DEF c, line, p
            <3> QED BY <1>3, <1>4, <2>1, <3>1, RootFound
        <2>2. CASE ~is_field_exists(c, root)
            <3>1. line(o) = Append(c, root)
                BY <2>2 DEF add_field_from_string
            <3> HIDE DEF c, root, line
            <3> QED BY <1>3, <1>4, <3>1, RootAdded
        <2> QED BY <2>1, <2>2
    <1>7. /\ opt(o) \in OptionSet /\ opt(o).vmtype = o.vmtype /\ opt(o).distro = o.distro
          /\ opt(o).vmtype = "sgx" => opt(o).boot = "grub"
          /\ \A s : Called(opt(o), s) <=> Called(o, s)
        <2>1. opt(o) \in OptionSet
            BY <1>3 DEF OptionSet
        <2>2. /\ opt(o).vmtype = o.vmtype /\ opt(o).distro = o.distro
              /\ opt(o).cpu_ids = o.cpu_ids /\ opt(o).mem_numa = o.mem_numa
              /\ opt(o).hugepages = o.hugepages /\ opt(o).hugepath = o.hugepath
              /\ opt(o).driver = o.driver /\ opt(o).vsock = o.vsock
              /\ opt(o).diskfile = o.diskfile /\ opt(o).has_vtpm = o.has_vtpm
              /\ opt(o).mwait = o.mwait
            BY <1>3 DEF OptionSet
        <2>3. opt(o).vmtype = "sgx" => opt(o).boot = "grub"
            BY <1>3 DEF OptionSet
        <2> HIDE DEF opt
        <2>4. \A s : Called(opt(o), s) <=> Called(o, s)
            BY <2>2 DEF Called
        <2> QED BY <2>4, <2>1, <2>2, <2>3
    <1>8. PrepareSteps(opt(o)) = PrepareSteps(o)
        <2> HIDE DEF opt
        <2> QED BY <1>7 DEF PrepareSteps
    <1>9. "clone" \in PrepareSteps(o)
        BY StepNames DEF PrepareSteps, Called
    <1>10. /\ tainted \in BOOLEAN
           /\ todo \in SUBSET PrepareSteps(o) /\ state \in {"building", "refused"}
           /\ "clone" \in todo => todo = PrepareSteps(o)
           /\ state = "building" => "clone" \in todo
           /\ state # "building" => todo = {}
        BY <1>2, <1>9 DEF TypeOK
    <1> HIDE DEF opt, line, c, p, todo, state, object
    <1>11. /\ guest'[g] = [state |-> state, todo |-> todo, opt |-> opt(o),
                           cmdline |-> line(o), before |-> p, pristine |-> ~tainted,
                           saved |-> TRUE]
           /\ \A h \in Guests : h # g => guest'[h] = guest[h]
        BY <1>1, <1>2 DEF TypeOK, state, todo, p
    <1>12. TypeOK'
        <2>1. todo \in SUBSET Range(Order)
            BY <1>10 DEF PrepareSteps
        <2>2. guest'[g] \in Guest
            BY <1>4, <1>5, <1>7, <1>10, <1>11, <2>1 DEF Guest
        <2>3. guest' \in [Guests -> Guest]
            BY <1>1, <1>2, <1>11, <2>2 DEF TypeOK
        <2>4. cmdline' \in [Guests \cup {"default"} -> Seq(Fields)]
            BY <1>1, <1>4, <1>5
        <2>5. put' \in [Guests \cup {"default"} -> SUBSET Fields]
            BY <1>1, <1>3, <1>4
        <2> QED BY <1>1, <1>2, <2>3, <2>4, <2>5 DEF TypeOK
    <1>13. BuildInv'
        <2>1. \A h \in Guests : h # g => guest'[h].state # "building" /\ guest'[h].todo = {}
            BY <1>1, <1>2, <1>11 DEF NoneBuilding, BuildInv
        <2>2. /\ guest'[g].todo = todo /\ guest'[g].state = state
              /\ guest'[g].opt = opt(o) /\ guest'[g].pristine = ~tainted
            BY <1>11
        <2>3. guest'[g].opt.vmtype = "sgx" => guest'[g].opt.boot = "grub"
            BY <1>7, <2>2
        <2>4. guest'[g].pristine => ~tainted'
            BY <1>1, <2>2
        <2>5. \A h \in Guests : h # g /\ guest'[h].state # "none"
                /\ guest'[h].opt.vmtype = "sgx" => guest'[h].opt.boot = "grub"
            BY <1>2, <1>11 DEF BuildInv, Type
        <2> QED BY <1>8, <1>10, <2>4, <2>1, <2>2, <2>3, <2>5 DEF BuildInv, Type
    <1>14. TemplateUntouched'
        BY <1>1 DEF IInv, TemplateUntouched
    <1>15. ~Cloned(g)'
        BY <1>10, <1>11 DEF Cloned
    <1>16. ASSUME NEW h \in Guests, h # g
           PROVE  /\ Cloned(h)' <=> Cloned(h)
                  /\ guest'[h] = guest[h]
        BY <1>11, <1>16 DEF Cloned
    <1>17. PathInv' /\ FileInv'
        BY <1>1, <1>15, <1>16 DEF IInv, PathInv, FileInv
    <1>18. RootInv'
        <2>1. OnlyRoot(guest'[g].before, RootOf[guest'[g].opt.distro])
                => Effective(guest'[g].cmdline, "root") = RootOf[guest'[g].opt.distro]
            BY <1>6, <1>7, <1>11
        <2> QED BY <1>16, <2>1 DEF IInv, RootInv
    <1>19. TreeInv'
        <2>1. guest'[g].state # "raised"
            BY <1>10, <1>11
        <2> QED BY <1>1, <1>15, <1>16, <2>1 DEF IInv, TreeInv, Type
    <1>20. LineInv'
        BY <1>1, <1>4, <1>5 DEF IInv, LineInv, p
    <1> QED BY <1>12, <1>13, <1>14, <1>17, <1>18, <1>19, <1>20 DEF IInv

\* The end of the constructor.
LEMMA BuiltInv ==
    ASSUME IInv, NEW g \in Guests, Built(g)
    PROVE  IInv'
    <1>1. /\ guest[g].state = "building" /\ guest[g].todo = {}
          /\ guest' = [guest EXCEPT ![g].state = "built"]
          /\ UNCHANGED <<templates, files, xml, cmdline, edits, ioerrors, tainted, put>>
        BY DEF Built
    <1>2. TypeOK /\ BuildInv
        BY DEF IInv
    <1>3. guest \in [Guests -> Guest] /\ guest[g] \in Guest
        BY <1>2 DEF TypeOK
    <1>4. /\ guest'[g].state = "built" /\ guest'[g] \in Guest
          /\ \A h \in Guests : /\ guest'[h].todo = guest[h].todo /\ guest'[h].opt = guest[h].opt
                               /\ guest'[h].cmdline = guest[h].cmdline
                               /\ guest'[h].before = guest[h].before
                               /\ guest'[h].pristine = guest[h].pristine
                               /\ guest'[h].saved = guest[h].saved
                               /\ h # g => guest'[h] = guest[h]
        BY <1>1, <1>3 DEF Guest
    <1>5. \A h \in Guests : Cloned(h)' <=> Cloned(h)
        BY <1>1, <1>4 DEF Cloned
    <1>6. TypeOK'
        <2>1. guest' \in [Guests -> Guest]
            BY <1>1, <1>3, <1>4
        <2> QED BY <1>1, <1>2, <2>1 DEF TypeOK
    <1>7. BuildInv'
        <2>1. \A h \in Guests : guest'[h].state # "building" /\ guest'[h].todo = {}
            BY <1>1, <1>2, <1>4 DEF BuildInv
        <2>2. \A h \in Guests : guest'[h].state # "none" <=> guest[h].state # "none"
            BY <1>1, <1>4
        <2> QED BY <1>2, <1>4, <2>1, <2>2 DEF BuildInv, Type
    <1>8. TemplateUntouched' /\ PathInv' /\ FileInv'
        BY <1>1, <1>4, <1>5 DEF IInv, TemplateUntouched, PathInv, FileInv
    <1>9. RootInv'
        <2>1. \A h \in Guests : guest'[h].state # "none" <=> guest[h].state # "none"
            BY <1>1, <1>4
        <2> QED BY <1>4, <2>1 DEF IInv, RootInv
    <1>10. TreeInv'
        <2>1. \A h \in Guests : guest'[h].state = "raised" => guest[h].state = "raised"
            BY <1>4
        <2> QED BY <1>1, <1>4, <1>5, <2>1 DEF IInv, TreeInv, Type
    <1>11. LineInv'
        BY <1>1 DEF IInv, LineInv
    <1> QED BY <1>6, <1>7, <1>8, <1>9, <1>10, <1>11 DEF IInv

\* destroy removes the file of the guest.
LEMMA DestroyInv ==
    ASSUME IInv, NEW g \in Guests, destroy(g)
    PROVE  IInv'
    <1>1. /\ guest[g].state = "built" /\ NoneBuilding
          /\ guest' = [guest EXCEPT ![g].state = "destroyed"]
          /\ UNCHANGED <<xml, cmdline, edits, tainted, put>>
        BY DEF destroy
    <1>2. TypeOK /\ BuildInv
        BY DEF IInv
    <1>3. /\ guest \in [Guests -> Guest] /\ guest[g] \in Guest /\ Type(g) \in Types
          /\ files \in [Guests -> File] /\ templates \in [Types -> File]
          /\ ioerrors \in 0..MaxIoErrors /\ MaxIoErrors \in Nat
        BY <1>2, DomainAssumption DEF TypeOK, Guest, OptionSet, Type
    <1>4. /\ guest'[g].state = "destroyed" /\ guest'[g] \in Guest
          /\ \A h \in Guests : /\ guest'[h].todo = guest[h].todo /\ guest'[h].opt = guest[h].opt
                               /\ guest'[h].cmdline = guest[h].cmdline
                               /\ guest'[h].before = guest[h].before
                               /\ guest'[h].pristine = guest[h].pristine
                               /\ h # g => guest'[h] = guest[h]
        BY <1>1, <1>3 DEF Guest
    <1>5. ~Cloned(g)' /\ Cloned(g)
        BY <1>1, <1>4 DEF Cloned
    <1>6. \A h \in Guests : h # g => guest'[h] = guest[h] /\ (Cloned(h)' <=> Cloned(h))
        BY <1>4 DEF Cloned
    <1>7. \A h \in Guests : h # g => files'[h] = files[h]
        BY <1>3 DEF destroy
    <1>8. ~tainted => templates' = templates
        <2>1. ~tainted => xml[g].filepath = "own"
            BY <1>5 DEF IInv, PathInv
        <2> QED BY <2>1 DEF destroy
    <1>9. TypeOK'
        <2>1. guest' \in [Guests -> Guest]
            BY <1>1, <1>3, <1>4
        <2>2. Missing \in File
            BY FileType
        <2>3. files' \in [Guests -> File] /\ templates' \in [Types -> File]
            BY <1>3, <2>2 DEF destroy
        <2>4. ioerrors' \in 0..MaxIoErrors
            BY <1>3 DEF destroy
        <2> QED BY <1>1, <1>2, <2>1, <2>3, <2>4 DEF TypeOK
    <1>10. BuildInv'
        <2>1. \A h \in Guests : guest'[h].state # "building" /\ guest'[h].todo = {}
            BY <1>1, <1>2, <1>4 DEF BuildInv, NoneBuilding
        <2>2. \A h \in Guests : guest'[h].state # "none" <=> guest[h].state # "none"
            BY <1>1, <1>4
        <2> QED BY <1>2, <1>4, <2>1, <2>2 DEF BuildInv, Type
    <1>11. TemplateUntouched'
        BY <1>1, <1>8 DEF IInv, TemplateUntouched
    <1>12. PathInv' /\ FileInv'
        BY <1>1, <1>5, <1>6, <1>7 DEF IInv, PathInv, FileInv
    <1>13. RootInv'
        <2>1. \A h \in Guests : guest'[h].state # "none" <=> guest[h].state # "none"
            BY <1>1, <1>4
        <2> QED BY <1>4, <2>1 DEF IInv, RootInv
    <1>14. TreeInv'
        <2>1. guest'[g].state # "raised"
            BY <1>4
        <2> QED BY <1>1, <1>5, <1>6, <2>1 DEF IInv, TreeInv, Type
    <1>15. LineInv'
        BY <1>1 DEF IInv, LineInv
    <1> QED BY <1>9, <1>10, <1>11, <1>12, <1>13, <1>14, <1>15 DEF IInv

\* The edits of command lines, which the guests have copies of.
LEMMA EditInv ==
    ASSUME IInv, Edit
    PROVE  IInv'
    <1>1. PICK object \in Guests \cup {"default"}, e \in Edits :
            /\ cmdline' = [cmdline EXCEPT ![object] = Edited(@, e)]
            /\ put' = [put EXCEPT ![object] = @ \cup Puts(e)]
        BY DEF Edit
    <1>2. /\ edits < MaxEdits /\ edits' = edits + 1
          /\ UNCHANGED <<templates, files, xml, guest, ioerrors, tainted>>
        BY DEF Edit
    <1>3. cmdline \in [Guests \cup {"default"} -> Seq(Fields)] /\ TypeOK
        BY DEF IInv, TypeOK
    <1>4. /\ Edited(cmdline[object], e) \in Seq(put[object] \cup Puts(e))
          /\ put[object] \cup Puts(e) \subseteq Fields
          /\ put \in [Guests \cup {"default"} -> SUBSET Fields]
        BY <1>3, EditedType, PutsType DEF IInv, LineInv, TypeOK
    <1>5. /\ cmdline' \in [Guests \cup {"default"} -> Seq(Fields)]
          /\ put' \in [Guests \cup {"default"} -> SUBSET Fields]
        <2>1. Edited(cmdline[object], e) \in Seq(Fields)
            BY <1>4, SeqLarger
        <2> QED BY <1>1, <1>3, <1>4, <2>1
    <1>6. edits' \in 0..MaxEdits
        BY <1>2, <1>3, DomainAssumption DEF TypeOK
    <1>7. TypeOK'
        BY <1>2, <1>3, <1>5, <1>6 DEF TypeOK
    <1>8. BuildInv' /\ TemplateUntouched'
        BY <1>2 DEF IInv, BuildInv, TemplateUntouched, Type
    <1>9. PathInv' /\ FileInv' /\ RootInv'
        BY <1>2 DEF IInv, PathInv, FileInv, RootInv, Cloned
    <1>10. TreeInv'
        BY <1>2 DEF IInv, TreeInv, Cloned, Type
    <1>11. LineInv'
        BY <1>1, <1>3, <1>4 DEF IInv, LineInv
    <1> QED BY <1>7, <1>8, <1>9, <1>10, <1>11 DEF IInv

\* The first state.
LEMMA InitInv ==
    ASSUME Init
    PROVE  IInv
    <1> USE DEF Init
    <1>1. TypeOK
        <2>1. templates \in [Types -> File]
            BY TemplateType, FileType
        <2>2. files \in [Guests -> File]
            BY FileType
        <2>3. NoXml \in VirtXml
            <3>1. Template("td") \in Tree
                BY TemplateType DEF Types
            <3> QED BY <3>1 DEF NoXml, VirtXml, Disk, Texts, Common
        <2>4. NoGuest \in Guest
            <3>1. Defaults \in OptionSet
                BY DEF Defaults, OptionSet, Types
            <3> QED BY <3>1 DEF NoGuest, Guest
        <2>5. cmdline \in [Guests \cup {"default"} -> Seq(Fields)]
            BY CmdlineAssumption
        <2>6. edits \in 0..MaxEdits /\ ioerrors \in 0..MaxIoErrors
            BY DomainAssumption
        <2>7. put \in [Guests \cup {"default"} -> SUBSET Fields]
            BY CmdlineAssumption DEF Range
        <2> QED BY <2>4, <2>1, <2>2, <2>3, <2>5, <2>6, <2>7 DEF TypeOK
    <1>2. \A g \in Guests : guest[g].state = "none" /\ guest[g].todo = {}
        BY DEF NoGuest
    <1>3. \A g \in Guests : ~Cloned(g)
        BY <1>2 DEF Cloned
    <1>4. BuildInv
        BY <1>2 DEF BuildInv
    <1>5. TemplateUntouched
        BY DEF TemplateUntouched
    <1>6. PathInv /\ FileInv /\ RootInv /\ TreeInv
        BY <1>2, <1>3 DEF PathInv, FileInv, RootInv, TreeInv
    <1>7. LineInv
        BY CmdlineAssumption DEF LineInv, Range
    <1> QED BY <1>1, <1>4, <1>5, <1>6, <1>7 DEF IInv

\* A step of the program, or none.
LEMMA NextInv ==
    ASSUME IInv, [Next]_vars
    PROVE  IInv'
    <1>1. CASE UNCHANGED vars
        <2>1. TypeOK' /\ BuildInv' /\ TemplateUntouched'
            BY <1>1 DEF vars, IInv, TypeOK, BuildInv, TemplateUntouched, Type
        <2>2. PathInv' /\ FileInv' /\ LineInv' /\ RootInv' /\ TreeInv'
            BY <1>1 DEF vars, IInv, PathInv, FileInv, LineInv, RootInv, TreeInv, Cloned, Type
        <2> QED BY <2>1, <2>2 DEF IInv
    <1>2. ASSUME NEW g \in Guests, Step(g)
          PROVE  IInv'
        <2>1. clone(g) \/ Setters(g)
            BY <1>2, StepMoves DEF IInv
        <2>2. CASE Setters(g)
            <3>1. PICK step \in Range(Order) \ {"clone"} : At(g, step) /\ Moves(g, step)
                BY <2>2 DEF Setters
            <3> DEFINE o == guest[g].opt
                       todo == guest[g].todo
                       before == PartsInv(g, o, todo, xml[g])
            <3>2. CASE Skip(g, step) /\ (before => PartsInv(g, o, todo \ {step}, xml[g]))
                BY <3>1, <3>2, SkipInv
            <3>3. CASE Refuse(g) \/ (Raise(g) /\ ~before)
                <4>1. guest[g].state = "building" /\ Cloned(g)
                    BY <3>1, AtFacts, CloneFirst DEF IInv, Cloned
                <4>2. guest[g].pristine => before
                    BY <4>1 DEF IInv, TreeInv
                <4> QED BY <3>3, <4>1, <4>2, LeaveInv DEF Raise, Refuse
            <3>4. CASE \E x \in VirtXml : /\ x.filepath = xml[g].filepath
                                          /\ save(g, step, x)
                                          /\ before => PartsInv(g, o, todo \ {step}, x)
                BY <3>1, <3>4, SaveInv
            <3> QED BY <3>1, <3>2, <3>3, <3>4 DEF Moves
        <2> QED BY <2>1, <2>2, CloneInv
    <1> QED BY <1>1, <1>2, NewInv, BuiltInv, DestroyInv, EditInv DEF Next

\* The inductive invariant holds in every state.
THEOREM DomainInvariance == Spec => []IInv
    BY InitInv, NextInv, PTL DEF Spec

-----------------------------------------------------------------------------

\* VirtXml.save and destroy: the templates that all guests share are neither
\* changed nor removed as long as each clone could be saved, whatever other
\* writes fail.
THEOREM TemplatesSafe == Spec => []TemplateUntouched
    <1>1. IInv => TemplateUntouched
        BY DEF IInv
    <1> QED BY <1>1, DomainInvariance, PTL

\* _prepare_domain_xml: the definition of a guest is what its options ask for, on
\* every template and for every combination of options, and no setter fails on
\* what it finds in the tree.
THEOREM DefinitionCorrect == Spec => []DefinitionMatches
    <1>1. ASSUME IInv PROVE DefinitionMatches
        <2> SUFFICES ASSUME NEW g \in Guests, guest[g].pristine
                     PROVE  /\ guest[g].state = "built" => xml[g].tree = Wanted(g, guest[g].opt)
                            /\ guest[g].state # "raised"
            BY DEF DefinitionMatches
        <2>1. guest[g].opt \in OptionSet /\ xml[g] \in VirtXml
            BY <1>1 DEF IInv, TypeOK, Guest
        <2>2. ASSUME guest[g].state = "built"
              PROVE  PartsInv(g, guest[g].opt, {}, xml[g])
            <3>1. guest[g].todo = {} /\ Cloned(g)
                BY <1>1, <2>2 DEF IInv, BuildInv, Cloned
            <3>2. PartsInv(g, guest[g].opt, guest[g].todo, xml[g])
                BY <1>1, <3>1 DEF IInv, TreeInv
            <3> QED BY <3>1, <3>2
        <2>3. guest[g].state # "raised"
            BY <1>1 DEF IInv, TreeInv, Type
        <2> QED BY <2>1, <2>2, <2>3, PartsDone
    <1> QED BY <1>1, DomainInvariance, PTL

\* VirtXml.save: the file beside a built guest is its definition, unless the last
\* write failed.
THEOREM FileCorrect == Spec => []FileIsDefinition
    <1>1. IInv => FileIsDefinition
        BY DEF IInv, FileInv, FileIsDefinition, Cloned
    <1> QED BY <1>1, DomainInvariance, PTL

\* VMGuest.__init__: a guest boots from the root of its distribution, however its
\* KernelCmdline was edited and whoever used it, as long as no other root was ever
\* written to that object.
THEOREM RootCorrect == Spec => []RootIsDistro
    <1>1. IInv => RootIsDistro
        BY DEF IInv, RootInv, RootIsDistro
    <1> QED BY <1>1, DomainInvariance, PTL

=============================================================================
