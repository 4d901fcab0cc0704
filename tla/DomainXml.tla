----------------------------- MODULE DomainXml -----------------------------
(***************************************************************************)
(* The domain definitions of the libvirt guests: VirtXml (virtxml.py), the *)
(* calls VMMLibvirt makes on it (_prepare_domain_xml in vmm.py), and the   *)
(* kernel command line that VMGuest.__init__ completes before.             *)
(*                                                                         *)
(* One process builds its guests one after the other.  A guest's XML is    *)
(* cloned from the template of its type, which all guests share, and then  *)
(* changed by setters, each of which writes the file it is associated with. *)
(* A write may fail: VirtXml.save catches the error and returns False, and *)
(* no caller looks at that.                                                *)
(*                                                                         *)
(* A tree is abstracted to the elements the code touches: text elements    *)
(* (sequences: an element may be missing), disks, elements that may be     *)
(* added once, and lists that grow.  The text written for a guest is the   *)
(* guest itself where only its owner matters.                              *)
(***************************************************************************)
EXTENDS KernelCmdline

CONSTANTS
    Guests,
    Options,        \* the argument lists of new_vm
    Edits,          \* the edits of a command line: <<operation, argument>>
    MaxEdits,       \* bound: edits of command lines
    MaxIoErrors,    \* bound: writes that fail
    RootOf          \* distribution -> its root= field

Types == {"efi", "legacy", "td", "sgx", "td_perf", "efi_perf", "legacy_perf", "td_sb"}
Perf == {"td_perf", "efi_perf", "legacy_perf"}

\* What new_vm takes.
OptionSet ==
    [vmtype : Types, boot : {"direct", "grub"}, distro : {"ubuntu", "centos"},
     cmdline : {"default", "own"}, cpu_ids : {"none", "one", "several"},
     mem_numa : BOOLEAN, hugepages : BOOLEAN, hugepath : BOOLEAN, driver : BOOLEAN,
     vsock : BOOLEAN, diskfile : BOOLEAN, has_vtpm : BOOLEAN, mwait : BOOLEAN,
     epc : BOOLEAN,
     hugesize : BOOLEAN,    \* the size of a huge page is one of HUGEPAGE_VALUES
     image : BOOLEAN,       \* the disk image is a VMImage
     kernel : BOOLEAN]      \* the factory was given a kernel, and it exists

\* The texts that are not of one guest, "None" for none.
Common == {"None", "none", "template", "bios", "ovmf", "ovmf.tdx", "qemu"}

ASSUME DomainAssumption ==
    /\ Options \subseteq OptionSet
    /\ MaxEdits \in Nat /\ MaxIoErrors \in Nat
    /\ DOMAIN RootOf = {"ubuntu", "centos"}
    /\ \A d \in DOMAIN RootOf : RootOf[d] \in Fields /\ KeyOf[RootOf[d]] = "root"
    /\ Guests \cap (Common \cup {"default"}) = {}
    /\ \A e \in Edits :
        \/ /\ e[1] \in {"add_field_from_string", "add_field", "remove_field_from_string"}
           /\ e[2] \in Fields
        \/ e[1] = "iadd" /\ e[2] \in Seq(Fields)
        \/ e[1] = "remove_fields"

VARIABLES
    templates,  \* type -> content of its template file
    files,      \* guest -> content of its own XML file
    xml,        \* guest -> its VirtXml object
    guest,      \* guest -> its options and how far its constructor is
    cmdline,    \* KernelCmdline objects: one per guest and the shared default
    edits, ioerrors,
    tainted,    \* a clone could not be saved (for the properties, no code reads it)
    put         \* object -> the fields ever written to it (for the properties too)

vars == <<templates, files, xml, guest, cmdline, edits, ioerrors, tainted, put>>

-----------------------------------------------------------------------------
(* Trees and files. *)

Text == {"name", "uuid", "memory", "vcpu", "sockets", "cores", "threads",
         "kernel", "cmdline", "loader", "log", "emulator"}
Once == {"numa", "hugepages", "hugepath", "vsock", "vtpm"}
Lists == {"pins", "args", "nic"}
DirectBoot == {"kernel", "cmdline"}

\* What the template of a type holds.  sgx-base.xml has no kernel and no cmdline,
\* the perf templates already pin vCPUs and have a numatune element.
Template(t) ==
    [text |-> [p \in Text |-> IF t = "sgx" /\ p \in DirectBoot THEN <<>>
                              ELSE <<"template">>],
     disks |-> << [file |-> "template", io |-> "template", cache |-> "template"] >>,
     once |-> [p \in Once |-> IF p = "numa" /\ t \in Perf THEN "template" ELSE "none"],
     lists |-> [p \in Lists |-> IF p = "pins" /\ t \in Perf THEN <<"template">>
                                ELSE <<>>]]

Content(tree) == [kind |-> "xml", tree |-> tree]
Missing == [kind |-> "missing", tree |-> Template("td")]
Broken == [kind |-> "broken", tree |-> Template("td")]

\* A VirtXml: the tree, the values it remembers, the file it saves to.
NoXml == [tree |-> Template("td"), cached |-> [p \in Text |-> "None"],
          disk |-> [file |-> "None", io |-> "None", cache |-> "None"],
          filepath |-> "None"]

\* new_vm without any argument.
Defaults == [vmtype |-> "td", boot |-> "direct", distro |-> "ubuntu",
             cmdline |-> "default", cpu_ids |-> "none", mem_numa |-> FALSE,
             hugepages |-> FALSE, hugepath |-> FALSE, driver |-> FALSE,
             vsock |-> FALSE, diskfile |-> FALSE, has_vtpm |-> FALSE,
             mwait |-> FALSE, epc |-> FALSE, hugesize |-> TRUE, image |-> TRUE,
             kernel |-> TRUE]

NoGuest == [state |-> "none", todo |-> {}, opt |-> Defaults, cmdline |-> <<>>, before |-> {},
            pristine |-> FALSE, saved |-> TRUE]

-----------------------------------------------------------------------------
(* The file operations of a VirtXml. *)

Type(g) == guest[g].opt.vmtype

\* load: the values remembered are read from the tree, those of log, emulator and
\* topology are not; a tree without exactly one disk cannot be read.
Loadable(c) == c.kind = "xml" /\ Len(c.tree.disks) = 1

NotLoaded == {"log", "emulator", "sockets", "cores", "threads"}

load(tree) ==
    [tree |-> tree,
     cached |-> [p \in Text |-> IF p \in NotLoaded \/ Len(tree.text[p]) # 1
                                THEN "None" ELSE tree.text[p][1]],
     disk |-> tree.disks[1],
     filepath |-> "template"]

\* What a write leaves: opening with "w" empties the file first, the error of
\* opening or writing is caught.
Written(tree) == {[ok |-> TRUE, to |-> Content(tree)]}
NotWritten(old) ==
    IF ioerrors = MaxIoErrors THEN {}
    ELSE {[ok |-> FALSE, to |-> old], [ok |-> FALSE, to |-> Broken]}

\* save(): into the file the object is associated with.
save(g, step, x) ==
    \E w \in Written(x.tree) \cup
             NotWritten(IF x.filepath = "own" THEN files[g] ELSE templates[Type(g)]) :
        /\ IF x.filepath = "own"
           THEN files' = [files EXCEPT ![g] = w.to] /\ UNCHANGED templates
           ELSE templates' = [templates EXCEPT ![Type(g)] = w.to] /\ UNCHANGED files
        /\ xml' = [xml EXCEPT ![g] = x]
        /\ ioerrors' = IF w.ok THEN ioerrors ELSE ioerrors + 1
        /\ guest' = [guest EXCEPT ![g].todo = @ \ {step}, ![g].saved = w.ok]
        /\ UNCHANGED <<cmdline, edits, tainted, put>>

\* The step changes nothing and does not save.
Skip(g, step) ==
    /\ guest' = [guest EXCEPT ![g].todo = @ \ {step}]
    /\ UNCHANGED <<templates, files, xml, cmdline, edits, ioerrors, tainted, put>>

\* An exception leaves the constructor; new_vm does not register the guest.
Leave(g, state) ==
    /\ guest' = [guest EXCEPT ![g].state = state, ![g].todo = {}]
    /\ UNCHANGED <<templates, files, xml, cmdline, edits, ioerrors, tainted, put>>

\* The template cannot be read, or a setter does not find its element in the tree.
Raise(g) == Leave(g, "raised")

\* The arguments fail an assertion, or the host lacks what the code reads of it.
Refuse(g) == Leave(g, "refused")

\* Mutant: the features come before the settings of the image.
FeaturesFirst ==
    <<"clone", "name", "memory", "uuid", "pins", "numa", "hugepages", "nic", "vsock",
      "disk", "image", "iomode", "cache", "log", "vcpu", "sockets", "cores", "threads",
      "emulator", "loader", "hugepath", "args", "epc", "vtpm", "mwait",
      "kernel", "cmdline">>

\* The order of the calls in _prepare_domain_xml and _set_cpu_params_xml.
Order ==
    <<"clone", "name", "memory", "uuid", "image", "iomode", "cache", "log",
      "vcpu", "sockets", "cores", "threads", "pins", "numa", "hugepages", "nic", "vsock",
      "disk", "emulator", "loader", "hugepath", "args", "epc", "vtpm", "mwait",
      "kernel", "cmdline">>

\* Of the calls to be made this is the next one.
At(g, step) ==
    /\ step \in guest[g].todo
    /\ \E i \in 1..Len(Order) :
        Order[i] = step /\ \A j \in 1..(i - 1) : Order[j] \notin guest[g].todo

\* Mutant: the object stays associated with the file it was loaded from.
AssociatedOld(old, ok) == old

\* The end of save(filepath): the new path is kept when the file was written.
Associated(old, ok) == IF ok THEN "own" ELSE old

\* clone: load the template, save it under the new name.  save(newfile) only
\* changes _filepath when it succeeds.
clone(g) ==
    /\ At(g, "clone")
    /\ IF Loadable(templates[Type(g)])
       THEN \E w \in Written(templates[Type(g)].tree) \cup NotWritten(files[g]) :
            /\ files' = [files EXCEPT ![g] = w.to]
            /\ xml' = [xml EXCEPT ![g] =
                    [load(templates[Type(g)].tree) EXCEPT
                        !.filepath = Associated(@, w.ok)]]
            /\ ioerrors' = IF w.ok THEN ioerrors ELSE ioerrors + 1
            /\ tainted' = (tainted \/ ~w.ok)
            /\ guest' = [guest EXCEPT ![g].todo = @ \ {"clone"}, ![g].saved = w.ok]
            /\ UNCHANGED <<templates, cmdline, edits, put>>
       ELSE Raise(g)

-----------------------------------------------------------------------------
(* The setters. *)

Loader(t) == CASE t \in {"legacy", "legacy_perf", "sgx"} -> "bios"
               [] t = "td_sb" -> "ovmf.tdx"
               [] OTHER -> "ovmf"

\* The value a text element is given; "None" deletes the element.
Value(g, o, p) == CASE p = "loader" -> Loader(o.vmtype)
                    [] p = "emulator" -> "qemu"
                    [] p \in DirectBoot /\ o.boot = "grub" -> "None"
                    [] OTHER -> g

\* The text of an element of which there is exactly one.
_set_single_element_value(tree, p, v) == [tree EXCEPT !.text[p] = <<v>>]

\* Mutant: the file is not written after an element was deleted.
DeleteUnsaved(g, p) ==
    /\ xml' = [xml EXCEPT ![g].tree.text[p] = <<>>, ![g].cached[p] = "None"]
    /\ guest' = [guest EXCEPT ![g].todo = @ \ {p}]
    /\ UNCHANGED <<templates, files, cmdline, edits, ioerrors, tainted, put>>

\* kernel = None and cmdline = None.
_delete_element(g, p) ==
    save(g, p, [xml[g] EXCEPT !.tree.text[p] = <<>>, !.cached[p] = "None"])

\* These save only when they found their element.
Careful == {"vcpu", "sockets", "cores", "threads"}

SetText(g) ==
    \E p \in Text :
        LET v == Value(g, guest[g].opt, p)
            x == xml[g]
            found == Len(x.tree.text[p]) = 1
        IN  /\ At(g, p)
            /\ \/ x.cached[p] = v /\ Skip(g, p)
               \/ /\ x.cached[p] # v
                  /\ v = "None"
                  /\ _delete_element(g, p)
               \/ /\ x.cached[p] # v
                  /\ v # "None" /\ found
                  /\ save(g, p, [x EXCEPT !.tree = _set_single_element_value(@, p, v),
                                       !.cached[p] = v])
               \/ /\ x.cached[p] # v
                  /\ v # "None" /\ ~found
                  /\ IF p \in Careful THEN Skip(g, p) ELSE save(g, p, x)

DiskSettings == [image |-> "file", iomode |-> "io", cache |-> "cache"]

\* imagefile, iomode, cache: of the only disk; with two the element is None and
\* its set() raises AttributeError.
SetDiskField(g) ==
    \E step \in DOMAIN DiskSettings :
        LET f == DiskSettings[step]
            x == xml[g]
        IN  /\ At(g, step)
            /\ CASE x.disk[f] = g -> Skip(g, step)
                 [] x.disk[f] # g /\ Len(x.tree.disks) = 1 ->
                        save(g, step, [x EXCEPT !.tree.disks[1][f] = g, !.disk[f] = g])
                 [] OTHER -> Raise(g)

\* set_disk: another disk, with the io mode and cache of the first.
set_disk(g) ==
    /\ At(g, "disk")
    /\ save(g, "disk", [xml[g] EXCEPT !.tree.disks =
            Append(@, [file |-> g, io |-> xml[g].disk.io, cache |-> xml[g].disk.cache])])

\* set_mem_numa, set_hugepage_params, set_hugepage_path, set_vsock, set_vtpm_param:
\* an element that is there once, added when it is missing.  Huge pages of another
\* size than 2M and 1G fail an assertion.
SetOnce(g) ==
    \E p \in Once :
        /\ At(g, p)
        /\ IF p = "hugepages" /\ ~guest[g].opt.hugesize THEN Refuse(g)
           ELSE save(g, p, [xml[g] EXCEPT !.tree.once[p] = g])

\* bind_cpuids, set_cpu_params, set_overcommit_params, set_epc_params, set_driver:
\* elements are added whatever is there.  One cpu id is not enough to pin a guest.
ListOf == [pins |-> "pins", nic |-> "nic", args |-> "args", mwait |-> "args"]

AddToList(g) ==
    \E step \in DOMAIN ListOf :
        /\ At(g, step)
        /\ IF step = "pins" /\ guest[g].opt.cpu_ids = "one" THEN Refuse(g)
           ELSE save(g, step, [xml[g] EXCEPT !.tree.lists[ListOf[step]] = Append(@, g)])

\* The EPC sections are those of an SGXVMSpec; a plain VMSpec has none.
set_epc_params(g) ==
    /\ At(g, "epc")
    /\ IF guest[g].opt.epc
       THEN save(g, "epc", [xml[g] EXCEPT !.tree.lists["args"] = Append(@, g)])
       ELSE Refuse(g)

TdTypes == {"td", "td_perf", "td_sb"}

\* _set_cpu_params_xml reads the distribution of the host, and for a TD the base
\* frequency of its processor: the file may be missing.
HostUnreadable(g) ==
    /\ \/ At(g, "emulator")
       \/ At(g, "args") /\ Type(g) \in TdTypes
    /\ Refuse(g)

-----------------------------------------------------------------------------
(* Building a guest. *)

\* The conditions in _prepare_domain_xml, _set_cpu_params_xml and _set_vtpm_xml.
Called(o, step) ==
    CASE step = "pins" -> o.cpu_ids # "none"
      [] step = "numa" -> o.mem_numa
      [] step = "hugepages" -> o.hugepages
      [] step = "nic" -> o.driver
      [] step = "vsock" -> o.vsock
      [] step = "disk" -> o.diskfile
      [] step = "hugepath" -> o.hugepath /\ o.vmtype \in TdTypes
      [] step = "epc" -> o.vmtype = "sgx"
      [] step = "vtpm" -> o.has_vtpm /\ o.vmtype \in {"td", "td_perf"}
      [] step = "mwait" -> o.mwait
      [] OTHER -> TRUE

PrepareSteps(o) == {step \in Range(Order) : Called(o, step)}

NoneBuilding == \A g \in Guests : guest[g].state # "building"

\* VMGuest.__init__ stops before the VMM when these fail: boot is direct unless
\* the guest is an SGX one.
Usable(o) == o.image /\ (o.kernel \/ o.boot = "grub" \/ o.vmtype = "sgx")

\* new_vm and VMGuest.__init__ up to _prepare_domain_xml: a TD with huge pages needs
\* their path, SGX boots with grub, the root field of the distribution is added to
\* the command line object, which is the shared default unless one is given.  The
\* assertions on the image and the kernel and the connection to libvirt come after.
new_vm(g) ==
    \E o \in Options, connected \in BOOLEAN :
        LET object == IF o.cmdline = "own" THEN g ELSE "default"
            root == RootOf[o.distro]
            line == add_field_from_string(cmdline[object], root)
            goes == Usable(o) /\ connected
        IN  /\ guest[g].state = "none" /\ NoneBuilding
            /\ o.hugepages /\ o.vmtype \in {"td", "td_perf"} => o.hugepath
            /\ cmdline' = [cmdline EXCEPT ![object] = line]
            /\ put' = [put EXCEPT ![object] = @ \cup {root}]
            /\ guest' = [guest EXCEPT ![g] =
                    [state |-> IF goes THEN "building" ELSE "refused",
                     todo |-> IF goes THEN PrepareSteps(o) ELSE {},
                     opt |-> [o EXCEPT !.boot = IF o.vmtype = "sgx" THEN "grub" ELSE @],
                     cmdline |-> line,
                     before |-> put[object],
                     pristine |-> ~tainted,
                     saved |-> TRUE]]
            /\ UNCHANGED <<templates, files, xml, edits, ioerrors, tainted>>

Built(g) ==
    /\ guest[g].state = "building" /\ guest[g].todo = {}
    /\ guest' = [guest EXCEPT ![g].state = "built"]
    /\ UNCHANGED <<templates, files, xml, cmdline, edits, ioerrors, tainted, put>>

\* The end of VMMLibvirt.destroy: the associated file is removed, if it can be.
destroy(g) ==
    /\ guest[g].state = "built" /\ NoneBuilding
    /\ guest' = [guest EXCEPT ![g].state = "destroyed"]
    /\ \/ /\ xml[g].filepath = "own"
          /\ files' = [files EXCEPT ![g] = Missing]
          /\ UNCHANGED <<templates, ioerrors>>
       \/ /\ xml[g].filepath = "template"
          /\ templates' = [templates EXCEPT ![Type(g)] = Missing]
          /\ UNCHANGED <<files, ioerrors>>
       \/ /\ ioerrors < MaxIoErrors /\ ioerrors' = ioerrors + 1
          /\ UNCHANGED <<templates, files>>
    /\ UNCHANGED <<xml, cmdline, edits, tainted, put>>

\* The caller edits a command line before it makes a guest.
Edited(line, e) ==
    CASE e[1] = "add_field_from_string" -> add_field_from_string(line, e[2])
      [] e[1] = "add_field" -> add_field(line, e[2])
      [] e[1] = "iadd" -> iadd(line, e[2])
      [] e[1] = "remove_field_from_string" -> remove_field_from_string(line, e[2])
      [] e[1] = "remove_fields" -> remove_fields(line, e[2])

\* The fields an edit writes.
Puts(e) == CASE e[1] = "iadd" -> Range(e[2])
             [] e[1] = "remove_field_from_string" -> {Rest}
             [] e[1] = "remove_fields" -> {}
             [] OTHER -> {e[2]}

Edit ==
    /\ edits < MaxEdits /\ NoneBuilding
    /\ edits' = edits + 1
    /\ \E object \in Guests \cup {"default"}, e \in Edits :
        /\ cmdline' = [cmdline EXCEPT ![object] = Edited(@, e)]
        /\ put' = [put EXCEPT ![object] = @ \cup Puts(e)]
    /\ UNCHANGED <<templates, files, xml, guest, ioerrors, tainted>>

-----------------------------------------------------------------------------

Init ==
    /\ templates = [t \in Types |-> Content(Template(t))]
    /\ files = [g \in Guests |-> Missing]
    /\ xml = [g \in Guests |-> NoXml]
    /\ guest = [g \in Guests |-> NoGuest]
    /\ cmdline = [c \in Guests \cup {"default"} |-> DEFAULT_CMDLINE]
    /\ edits = 0 /\ ioerrors = 0
    /\ tainted = FALSE
    /\ put = [c \in Guests \cup {"default"} |-> Range(DEFAULT_CMDLINE)]

Step(g) == \/ clone(g) \/ SetText(g) \/ SetDiskField(g) \/ set_disk(g)
           \/ SetOnce(g) \/ AddToList(g) \/ set_epc_params(g)
           \/ HostUnreadable(g)

Next == \/ \E g \in Guests : new_vm(g) \/ Step(g) \/ Built(g) \/ destroy(g)
        \/ Edit

Spec == Init /\ [][Next]_vars

-----------------------------------------------------------------------------
(* Properties *)

Texts == Guests \cup Common
Disk == [file : Texts, io : Texts, cache : Texts]
Tree == [text : [Text -> Seq(Texts)], disks : Seq(Disk), once : [Once -> Texts],
         lists : [Lists -> Seq(Texts)]]
File == [kind : {"xml", "missing", "broken"}, tree : Tree]
VirtXml == [tree : Tree, cached : [Text -> Texts], disk : Disk,
            filepath : {"None", "own", "template"}]
Guest == [state : {"none", "building", "built", "raised", "refused", "destroyed"},
          todo : SUBSET Range(Order), opt : OptionSet, cmdline : Seq(Fields),
          before : SUBSET Fields, pristine : BOOLEAN, saved : BOOLEAN]

TypeOK ==
    /\ templates \in [Types -> File]
    /\ files \in [Guests -> File]
    /\ xml \in [Guests -> VirtXml]
    /\ guest \in [Guests -> Guest]
    /\ cmdline \in [Guests \cup {"default"} -> Seq(Fields)]
    /\ edits \in 0..MaxEdits /\ ioerrors \in 0..MaxIoErrors
    /\ tainted \in BOOLEAN
    /\ put \in [Guests \cup {"default"} -> SUBSET Fields]

(***************************************************************************)
(* The templates, which every guest is cloned from, are neither changed    *)
(* nor removed by building and destroying guests, whatever writes fail     *)
(* later, as long as each clone could be saved under its own name.  (After *)
(* a clone that could not, the object stays associated with the template:  *)
(* every setter writes there and destroy() deletes it.)                    *)
(***************************************************************************)
TemplateUntouched ==
    ~tainted => \A t \in Types : templates[t] = Content(Template(t))

\* What the options of a guest ask of its definition.
One(cond) == IF cond THEN 1 ELSE 0

Wanted(g, o) ==
    LET T == Template(o.vmtype)
        asked == [numa |-> o.mem_numa, hugepages |-> o.hugepages,
                  hugepath |-> o.hugepath /\ o.vmtype \in TdTypes,
                  vsock |-> o.vsock, vtpm |-> o.has_vtpm /\ o.vmtype \in {"td", "td_perf"}]
    IN  [text |-> [p \in Text |->
            IF p \in DirectBoot /\ o.boot = "grub" THEN <<>> ELSE <<Value(g, o, p)>>],
         disks |-> [i \in 1..(1 + One(o.diskfile)) |-> [file |-> g, io |-> g, cache |-> g]],
         once |-> [p \in Once |-> IF asked[p] THEN g ELSE T.once[p]],
         lists |-> [p \in Lists |->
            CASE p = "pins" -> IF o.cpu_ids = "none" THEN T.lists.pins
                           ELSE Append(T.lists.pins, g)
              [] p = "nic" -> IF o.driver THEN <<g>> ELSE <<>>
              [] p = "args" -> [i \in 1..(1 + One(o.vmtype = "sgx") + One(o.mwait)) |-> g]]]

(***************************************************************************)
(* The definition libvirt is given for a guest (VirtXml.tostring) is what  *)
(* its options ask for: every setter of _prepare_domain_xml found its      *)
(* element, in the order they are called, on every template, and no write  *)
(* that failed, of this guest or another, shows in it - as long as every   *)
(* earlier clone could be saved.  No constructor fails on the tree or the  *)
(* template it works on.  (It may be refused for its arguments or by the   *)
(* host: huge pages of a wrong size, one cpu id, no image or kernel, no    *)
(* EPC sections, no libvirt, an unreadable host.)                          *)
(***************************************************************************)
DefinitionMatches ==
    \A g \in Guests :
        guest[g].pristine =>
            /\ guest[g].state = "built" => xml[g].tree = Wanted(g, guest[g].opt)
            /\ guest[g].state # "raised"

(***************************************************************************)
(* The XML file beside a built guest is the definition libvirt was given,  *)
(* unless the last write of its constructor failed: no setter is left      *)
(* unsaved, and writes that failed earlier are made up for.                *)
(***************************************************************************)
FileIsDefinition ==
    \A g \in Guests :
        guest[g].state = "built" /\ guest[g].saved /\ xml[g].filepath = "own"
            => files[g] = Content(xml[g].tree)

\* The kernel would take f for the root file system, or a search for the root field
\* of a distribution would find f.
RootLike(f) == KeyOf[f] = "root" \/ \E d \in DOMAIN RootOf : <<RootOf[d], f>> \in Inside

\* Among fields there is no root but this one.
OnlyRoot(fields, root) == \A f \in fields : RootLike(f) => f = root

(***************************************************************************)
(* A guest boots from the root file system of its distribution, whatever   *)
(* was added to and removed from its command line before and whichever     *)
(* guests and edits shared the KernelCmdline object, as long as the only   *)
(* root ever written there is that of its distribution.  (Nothing more     *)
(* can be said: the default argument is one object for all guests.  After  *)
(* an ubuntu and a centos guest it holds both roots, and the next ubuntu   *)
(* guest boots from the root of centos.)                                   *)
(***************************************************************************)
RootIsDistro ==
    \A g \in Guests :
        LET root == RootOf[guest[g].opt.distro]
        IN  /\ guest[g].state = "built"
            /\ OnlyRoot(guest[g].before, root)
            => Effective(guest[g].cmdline, "root") = root

-----------------------------------------------------------------------------
(* The inductive invariant. *)

\* The guest has a VirtXml of its own, finished or being built.
Cloned(g) == \/ guest[g].state = "built"
             \/ guest[g].state = "building" /\ "clone" \notin guest[g].todo

\* One guest is built at a time, with calls its options lead to.
BuildInv ==
    \A g \in Guests :
        /\ guest[g].state = "building" =>
                \A h \in Guests : guest[h].state = "building" => h = g
        /\ guest[g].state # "building" => guest[g].todo = {}
        /\ guest[g].todo \subseteq PrepareSteps(guest[g].opt)
        /\ guest[g].state # "none" /\ Type(g) = "sgx" => guest[g].opt.boot = "grub"
        /\ "clone" \in guest[g].todo => guest[g].todo = PrepareSteps(guest[g].opt)
        /\ "clone" \in guest[g].todo /\ guest[g].pristine => ~tainted

\* As long as each clone could be saved, every object has its own file.
PathInv ==
    \A g \in Guests : Cloned(g) /\ ~tainted => xml[g].filepath = "own"

FileInv ==
    \A g \in Guests : Cloned(g) /\ guest[g].saved /\ xml[g].filepath = "own"
                        => files[g] = Content(xml[g].tree)

\* A command line is made of fields that were written to it.
LineInv ==
    \A c \in Guests \cup {"default"} : cmdline[c] \in Seq(put[c])

RootInv ==
    \A g \in Guests :
        /\ guest[g].state # "none"
        /\ OnlyRoot(guest[g].before, RootOf[guest[g].opt.distro])
        => Effective(guest[g].cmdline, "root") = RootOf[guest[g].opt.distro]

\* An element is as in the template until its setter is called, and as wanted
\* from then on.
TextInv(g, o, todo, x) ==
    \A p \in Text :
        IF p \in todo
        THEN /\ x.tree.text[p] = Template(o.vmtype).text[p]
             /\ x.cached[p] = load(Template(o.vmtype)).cached[p]
        ELSE x.tree.text[p] = Wanted(g, o).text[p]

OnceInv(g, o, todo, x) ==
    \A p \in Once :
        x.tree.once[p] = IF p \in todo THEN Template(o.vmtype).once[p]
                         ELSE Wanted(g, o).once[p]

ListInv(g, o, todo, x) ==
    /\ \A p \in {"pins", "nic"} :
        x.tree.lists[p] = IF p \in todo THEN Template(o.vmtype).lists[p]
                          ELSE Wanted(g, o).lists[p]
    /\ x.tree.lists["args"] =
            [i \in 1..(One("args" \notin todo)
                       + One(o.vmtype = "sgx" /\ "epc" \notin todo)
                       + One(o.mwait /\ "mwait" \notin todo)) |-> g]

\* The second disk comes when the settings of the first are complete.
DiskInv(g, o, todo, x) ==
    /\ Len(x.tree.disks) = 1 + One(o.diskfile /\ "disk" \notin todo)
    /\ x.tree.disks[1] = x.disk
    /\ \A step \in DOMAIN DiskSettings :
        x.disk[DiskSettings[step]] = IF step \in todo THEN "template" ELSE g
    /\ Len(x.tree.disks) = 2 =>
            /\ x.tree.disks[2] = x.disk
            /\ todo \cap DOMAIN DiskSettings = {}

PartsInv(g, o, todo, x) ==
    /\ TextInv(g, o, todo, x) /\ OnceInv(g, o, todo, x)
    /\ ListInv(g, o, todo, x) /\ DiskInv(g, o, todo, x)

TreeInv ==
    \A g \in Guests :
        guest[g].pristine =>
            /\ Cloned(g) => PartsInv(g, guest[g].opt, guest[g].todo, xml[g])
            /\ guest[g].state # "raised"

IInv == /\ TypeOK /\ BuildInv /\ PathInv /\ TemplateUntouched /\ FileInv
        /\ LineInv /\ RootInv /\ TreeInv

=============================================================================
