---------------------------- MODULE ImportTree ----------------------------
(***************************************************************************)
(* The import of locations (planLocations of imports/imports.service.ts)   *)
(* into the tree of Locations, beside the requests of its service.  The    *)
(* whole file is validated first, against the tree it would leave, and     *)
(* written later in one transaction.  An upload waits in between for as    *)
(* long as the preview takes to read.                                      *)
(*                                                                         *)
(* One warehouse; a row is a location and its parent.                      *)
(***************************************************************************)
EXTENDS Locations, Sequences

CONSTANTS MaxRows,          \* bound: rows of a file
          MaxParentDepth    \* MAX_PARENT_DEPTH

\* What an instance has to give its constants.
ImportTreeAssumption == {MaxRows, MaxParentDepth} \subseteq Nat

Row == [code : Location, parent : Location \union {Root}]

Codes(file) == {file[i].code : i \in DOMAIN file}

\* parentOf: the parents in the database, overridden by the file.
FinalParent(file) ==
  [l \in Existing \union Codes(file) |->
     IF l \in Codes(file)
     THEN (CHOOSE row \in {file[i] : i \in DOMAIN file} : row.code = l).parent
     ELSE parent[l]]

\* Mutated form: two locations inside each other are the only cycle.
HasPair(l, final) == final[l] # Root /\ final[final[l]] = l

\* hasCycle
HasCycle(l, final) ==
  LET walk[n \in 0..MaxParentDepth] ==
        IF n = 0 THEN final[l]
        ELSE IF walk[n - 1] \in DOMAIN final THEN final[walk[n - 1]] ELSE Root
  IN  \E n \in 0..(MaxParentDepth - 1) : walk[n] = l

\* planLocations
PlanImport(file) ==
  LET final == FinalParent(file)
  IN  /\ \A i, j \in DOMAIN file : i # j => file[i].code # file[j].code
      /\ \A i \in DOMAIN file :
           /\ file[i].parent # file[i].code
           /\ file[i].parent \in DOMAIN final \union {Root}
           /\ ~HasCycle(file[i].code, final)
      /\ Asked([kind |-> "import", file |-> file])

\* Mutated form: the ids are read before the locations are created.
KnownBefore(codes) == Existing

\* idByKey: read after the locations of the file are created.
Known(codes) == Existing \union codes

\* apply of planLocations: a parent that is gone by now leaves the one there was.
ApplyImport(r) ==
  LET codes == Codes(r.file)
      asked == FinalParent(r.file)
      before(l) == IF l \in Existing THEN parent[l] ELSE Root
  IN  /\ r.kind = "import"
      /\ parent' = [l \in Existing \union codes |->
                      IF l \in codes /\ asked[l] \in Known(codes) \union {Root}
                      THEN asked[l] ELSE before(l)]
      /\ requests' = requests \ {r}
      /\ UNCHANGED units

Plan == \E n \in 1..MaxRows : \E file \in [1..n -> Row] : PlanImport(file)

Apply == \E r \in requests : ApplyImport(r)

\* Nothing happens between the checks of a request or an import and its write.
UndisturbedTreeNext == Write \/ Apply \/ (requests = {} /\ (Change \/ Plan))

-----------------------------------------------------------------------------
(* Correctness *)

\* "nothing is written unless the whole file is valid": what is written is the
\* file, every location of it inside the one it asks for, whatever was created
\* and moved by the same file.
ImportsAsAsked ==
  \A r \in requests \ requests' : r.kind = "import" =>
    \A i \in DOMAIN r.file : parent'[r.file[i].code] = r.file[i].parent

ImportAsAsked == [][ImportsAsAsked]_vars

=============================================================================
