------------------------- MODULE LocationGenerator -------------------------
(***************************************************************************)
(* The generation of a hierarchy of locations                              *)
(* (locations/location-generator.ts and generate of locations.service.ts): *)
(* nested levels are expanded into codes, and the codes that the warehouse *)
(* does not have yet are created, level by level, each under the location  *)
(* that has the code of its parent.                                        *)
(*                                                                         *)
(* A code is the sequence of its parts; joining them with "-" loses        *)
(* nothing but where a part ends, and a location created by hand may have  *)
(* any code, wherever in the tree it is.  A part is a letter, or a number  *)
(* with the digits it is written with.                                     *)
(***************************************************************************)
EXTENDS Totals, SequencesExt

CONSTANTS Request,          \* the sequences of levels a caller may ask for
          MaxGenerated,     \* MAX_GENERATED_LOCATIONS
          LettersLeft,      \* letters from the start of a level to Z
          HandMade,         \* codes that are created by hand
          MaxLocations      \* bound: locations of the warehouse

\* What an instance has to give its constants.
GeneratorAssumption ==
  /\ Request \subseteq
       Seq([letter : BOOLEAN, start : Nat, width : Nat, count : Nat \ {0}])
  /\ HandMade \subseteq Seq([letter : BOOLEAN, n : Nat, width : Nat])
  /\ {MaxGenerated, LettersLeft, MaxLocations} \subseteq Nat

VARIABLES tree,    \* code -> parent (a code) and pick sequence
          asked    \* the last generation that was carried out, by its nodes

vars == <<tree, asked>>

NoCode == <<>>

Init == tree = <<>> /\ asked = <<>>

Digits(n) == IF n < 10 THEN 1 ELSE 2

\* padStart: numbers that outgrow the digits of the first are written whole.
Part(level, i) ==
  LET n == level.start + i - 1
  IN  [letter |-> level.letter, n |-> n,
       width |-> IF level.letter THEN 1 ELSE Greatest(level.width, Digits(n))]

\* sequenceValues
SequenceValues(level) == [i \in 1..level.count |-> Part(level, i)]

PastZ(level) == level.letter /\ level.count > LettersLeft

\* Mutated form: the locations of the last level only.
CountLastLevel(levels) ==
  LET atDepth[d \in 0..Len(levels)] ==
        IF d = 0 THEN 1 ELSE atDepth[d - 1] * levels[d].count
  IN  atDepth[Len(levels)]

\* countGeneratedLocations
CountGeneratedLocations(levels) ==
  LET atDepth[d \in 0..Len(levels)] ==
        IF d = 0 THEN 1 ELSE atDepth[d - 1] * levels[d].count
  IN  Total(atDepth, Len(levels))

\* The codes of one level, by parent and within it by value.
LevelBelow(parents, values) ==
  LET ParentOf(i) == parents[1 + ((i - 1) \div Len(values))]
      ValueAt(i) == values[1 + ((i - 1) % Len(values))]
  IN  [i \in 1..(Len(parents) * Len(values)) |->
         [code |-> Append(ParentOf(i), ValueAt(i)), parent |-> ParentOf(i)]]

\* Mutated form: only the last level is created.
ExpandLeaves(root, levels) ==
  LET below[d \in 0..Len(levels)] ==
        IF d = 0 THEN <<root>>
        ELSE LET level == LevelBelow(below[d - 1], SequenceValues(levels[d]))
             IN  [i \in DOMAIN level |-> level[i].code]
      leaves == below[Len(levels)]
  IN  [i \in DOMAIN leaves |-> [code |-> leaves[i], parent |-> Front(leaves[i])]]

\* expandLevels: the nodes of one level after those of the levels above.
ExpandLevels(root, levels) ==
  LET below[d \in 0..Len(levels)] ==
        IF d = 0 THEN [nodes |-> <<>>, parents |-> <<root>>]
        ELSE LET above == below[d - 1]
                 level == LevelBelow(above.parents, SequenceValues(levels[d]))
             IN  [nodes |-> above.nodes \o level,
                  parents |-> [i \in DOMAIN level |-> level[i].code]]
  IN  below[Len(levels)].nodes

\* Mutated form: sequences are counted from the number of locations.
LastByCount == Cardinality(DOMAIN tree)

LastSequence ==
  Max({0} \union {tree[c].sequence : c \in DOMAIN tree})

\* generate, with createMany and its skipDuplicates: codes the warehouse has
\* use up a sequence number and keep their row.
Generate(root, levels) ==
  /\ root = NoCode \/ root \in DOMAIN tree
  /\ CountGeneratedLocations(levels) <= MaxGenerated
  /\ \A d \in DOMAIN levels : ~PastZ(levels[d])
  /\ LET nodes == ExpandLevels(root, levels)
         new == {i \in DOMAIN nodes : nodes[i].code \notin DOMAIN tree}
         codes == {nodes[i].code : i \in new}
         node(c) == CHOOSE i \in new : nodes[i].code = c
     IN  /\ Cardinality(DOMAIN tree) + Cardinality(codes) <= MaxLocations
         /\ tree' = [c \in DOMAIN tree \union codes |->
              IF c \in DOMAIN tree THEN tree[c]
              ELSE [parent |-> nodes[node(c)].parent, sequence |-> LastSequence + node(c)]]
         /\ asked' = [root |-> root, levels |-> levels]

\* create, with a code and a parent of the caller's choice
CreateByHand(code, parent, sequence) ==
  /\ code \notin DOMAIN tree /\ Cardinality(DOMAIN tree) < MaxLocations
  /\ parent = NoCode \/ parent \in DOMAIN tree
  /\ tree' = [c \in DOMAIN tree \union {code} |->
       IF c = code THEN [parent |-> parent, sequence |-> sequence] ELSE tree[c]]
  /\ UNCHANGED asked

Next ==
  \/ \E root \in {NoCode} \union DOMAIN tree, levels \in Request : Generate(root, levels)
  \/ \E code \in HandMade, parent \in {NoCode} \union DOMAIN tree :
       CreateByHand(code, parent, MaxGenerated)

Spec == Init /\ [][Next]_vars

-----------------------------------------------------------------------------
(* Correctness *)

\* Type invariant: the parent of a location exists.
GeneratorTypeOK ==
  \A c \in DOMAIN tree :
    tree[c].parent \in DOMAIN tree \union {NoCode} /\ tree[c].sequence \in Nat

\* Reference definition of what the levels stand for: every way to choose one
\* value per level, down to some level.
Paths(root, levels) ==
  UNION {{root \o [d \in 1..n |-> Part(levels[d], choice[d])] :
            choice \in {f \in [1..n -> 1..MaxGenerated] : \A d \in 1..n : f[d] <= levels[d].count}} :
         n \in 1..Len(levels)}

\* A generation that was carried out left a location for every path of its
\* levels, as many as were counted against the limit beforehand, so asking
\* again creates none.
GeneratesEveryPath ==
  asked # <<>> =>
    /\ Paths(asked.root, asked.levels) \subseteq DOMAIN tree
    /\ Cardinality(Paths(asked.root, asked.levels)) = CountGeneratedLocations(asked.levels)

\* A location that generate creates comes after every location there was, and
\* after the one it is in, in the order of picking.
PlacesAfter ==
  \A c \in DOMAIN tree' \ DOMAIN tree :
    asked' # asked =>
      /\ \A d \in DOMAIN tree : tree'[c].sequence > tree[d].sequence
      /\ tree'[c].parent \in DOMAIN tree' =>
           tree'[tree'[c].parent].sequence < tree'[c].sequence

WalkedAfter == [][PlacesAfter]_vars

=============================================================================
