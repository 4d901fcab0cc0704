------------------------------- MODULE VarMap -------------------------------
(***************************************************************************)
(* What var_enroll promises of the firmware images: each is a map from the *)
(* name and vendor GUID of a variable to its data, and a request is either *)
(* refused or applied to the map at once.  Where writing may fail, the map  *)
(* that was being written may lose variables, but gains and changes none.  *)
(***************************************************************************)
EXTENDS Sequences

CONSTANTS Paths, Args, Canonical(_), VendorGuid(_, _), PayloadOf(_), IoFails

VARIABLES
  map,    \* map[p]: the data of each variable in p, <<>> when it is not there
  req,    \* the request
  stage   \* "idle", "asked" until the request is answered, "applied" while
          \* what it stored is still on its way

\* The entry a request stores to, and the one its name and GUID spell.
Target(a) == <<Canonical(a.name), VendorGuid(a.name, a.guid)>>
Spelled(a) == <<a.name, a.guid>>

Put(m, k, d)  == [m EXCEPT ![k] = d]
Grow(m, k, p) == [m EXCEPT ![k] = Append(@, p)]

Applied(a, m) ==
  CASE a.operation = "add"    -> Put(m, Target(a), <<PayloadOf(a)>>)
    [] a.operation = "append" -> Grow(m, Target(a), PayloadOf(a))
    [] a.operation = "delete" -> Put(m, Spelled(a), <<>>)
    [] a.operation = "update" -> Grow(Put(m, Spelled(a), <<>>), Target(a), PayloadOf(a))

Init == stage = "idle"

Ask ==
  /\ stage = "idle"
  /\ req' \in Args /\ stage' \in {"idle", "asked"} /\ UNCHANGED map

Refuse == stage = "asked" /\ stage' = "idle" /\ UNCHANGED <<map, req>>

\* The PK is only ever replaced; only what is there is deleted or updated.
Apply ==
  /\ stage = "asked" /\ stage' = "applied"
  /\ req.operation \in {"append", "update"} => Target(req)[1] # "PK"
  /\ req.operation \in {"delete", "update"} => map[req.input][Spelled(req)] # <<>>
  /\ map' = [map EXCEPT ![req.output] = Applied(req, map[req.input])]
  /\ UNCHANGED req

Written == stage = "applied" /\ stage' = "idle" /\ UNCHANGED <<map, req>>

Lose ==
  /\ IoFails /\ stage = "applied" /\ stage' = "idle"
  /\ DOMAIN map' = Paths
  /\ \A p \in Paths \ {req.output} : map'[p] = map[p]
  /\ \A k \in DOMAIN map[req.output] : map'[req.output][k] \in {<<>>, map[req.output][k]}
  /\ UNCHANGED req

Next == Ask \/ Refuse \/ Apply \/ Written \/ Lose

Spec == Init /\ [][Next]_<<map, req, stage>>

=============================================================================
