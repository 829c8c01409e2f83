----------------------------- MODULE CodesProofs -----------------------------
(***************************************************************************)
(* References, barcodes and the codes of locations are unique and what was *)
(* asked, for any documents, products and levels: proofs about the parts   *)
(* of MCCompany that give them (Numbering, Catalogue, LocationGenerator).  *)
(*                                                                         *)
(* A behaviour is one of the part that `part` names.  Each section has the *)
(* invariant of a part, that its steps preserve it, and that it therefore  *)
(* holds in every behaviour of that part (the lemma that ends in "Part").  *)
(***************************************************************************)
EXTENDS MCCompany, FiniteSetTheorems, FunctionTheorems, SequenceTheorems, TLAPS

\* Facts about numbers (ShelfTheorems, whose locations play no part here).
Sums == INSTANCE ShelfTheorems WITH NumLocations <- 0

-----------------------------------------------------------------------------
(* References.  Both parts have the same invariant, for the documents of    *)
(* each.                                                                    *)

\* A document that is being created with the next reference, which locks the
\* row of the sequence; one that was; and the references of all there are.
Numbering(D) == {d \in D : documents[d].stage = "creating" /\ ~documents[d].typed}
Numbered(D) == {d \in D : documents[d].stage = "created" /\ ~documents[d].typed}
Given(D) == {documents[d].reference : d \in {e \in D : documents[e].stage = "created"}}

\* Documents have their columns; one at a time is numbered, with a reference
\* that no other has, and all it passed over are taken.
NumbersInv(D) ==
  /\ documents = [d \in D |-> documents[d]]
  /\ \A d, e \in Numbering(D) : d = e
  /\ \A d \in Numbering(D) :
       /\ documents[d].reference[1] = sequence.prefix
       /\ documents[d].reference[2] >= sequence.next
       /\ \A e \in Numbered(D) : documents[d].reference # documents[e].reference
       /\ \A n \in sequence.next..(documents[d].reference[2] - 1) :
            <<sequence.prefix, n>> \in Given(D)

\* nextReference takes a number that is free, after those that are not.
LEMMA NumberTaken ==
  ASSUME NEW D, NumbersInv(D), NEW d \in D, documents[d].stage = "none", Numbering(D) = {},
         NEW n, n >= sequence.next, <<sequence.prefix, n>> \notin Given(D),
         \A k \in sequence.next..(n - 1) : <<sequence.prefix, k>> \in Given(D),
         sequence' = sequence,
         documents' = [documents EXCEPT ![d] =
           [stage |-> "creating", typed |-> FALSE, next |-> sequence.next,
            reference |-> <<sequence.prefix, n>>]]
  PROVE  NumbersInv(D)'
<1>1. \A e \in D : documents'[e] = IF e = d THEN
           [stage |-> "creating", typed |-> FALSE, next |-> sequence.next,
            reference |-> <<sequence.prefix, n>>] ELSE documents[e]
  BY DEF NumbersInv
<1>2. Numbering(D)' = {d} /\ Numbered(D)' = Numbered(D) /\ Given(D)' = Given(D)
  <2>1. Numbering(D)' = {d} /\ Numbered(D)' = Numbered(D)
    BY <1>1 DEF Numbering, Numbered
  <2>2. {e \in D : documents'[e].stage = "created"} = {e \in D : documents[e].stage = "created"}
    BY <1>1
  <2>3. \A e \in {e \in D : documents[e].stage = "created"} : documents'[e].reference = documents[e].reference
    BY <1>1
  <2> QED BY <2>1, <2>2, <2>3 DEF Given
<1>3. \A e \in Numbered(D) : documents[e].reference \in Given(D) /\ documents'[e] = documents[e]
  BY <1>1 DEF Numbered, Given
<1>4. documents'[d].reference = <<sequence.prefix, n>>
  BY <1>1
<1>5. documents' = [e \in D |-> documents'[e]]
  BY DEF NumbersInv
<1> QED
  BY <1>2, <1>3, <1>4, <1>5 DEF NumbersInv

\* A creation with a reference of its own, and the end of one that fails, give
\* no reference.
LEMMA NumberKept ==
  ASSUME NEW D, NumbersInv(D), NEW d \in D, documents[d].stage # "created", NEW row,
         row.stage = "none" \/ (row.stage = "creating" /\ row.typed),
         documents' = [documents EXCEPT ![d] = row], sequence' = sequence
  PROVE  NumbersInv(D)'
<1>1. \A e \in D : documents'[e] = IF e = d THEN row ELSE documents[e]
  BY DEF NumbersInv
<1>2. /\ Numbering(D)' = Numbering(D) \ {d} /\ Numbered(D)' = Numbered(D)
      /\ {e \in D : documents'[e].stage = "created"} = {e \in D : documents[e].stage = "created"}
  BY <1>1 DEF Numbering, Numbered
<1>3. Given(D)' = Given(D)
  BY <1>1, <1>2 DEF Given
<1>4. \A e \in Numbered(D) \union Numbering(D)' : documents'[e] = documents[e]
  BY <1>1, <1>2 DEF Numbered
<1>5. documents' = [e \in D |-> documents'[e]]
  BY DEF NumbersInv
<1> QED
  BY <1>2, <1>3, <1>4, <1>5 DEF NumbersInv

\* The commit of a document that was numbered unlocks the row; that of another
\* one adds to the references that are taken.
LEMMA NumberCommitted ==
  ASSUME NEW D, NumbersInv(D), NEW d \in D, documents[d].stage = "creating",
         documents' = [documents EXCEPT ![d].stage = "created"],
         documents'[d].stage = "created", documents'[d].typed = documents[d].typed,
         documents'[d].reference = documents[d].reference,
         documents[d].typed => sequence' = sequence
  PROVE  NumbersInv(D)'
<1>1. \A e \in D \ {d} : documents'[e] = documents[e]
  BY DEF NumbersInv
<1>2. documents'[d].stage = "created"
  OBVIOUS
<1>3. Numbering(D)' = Numbering(D) \ {d}
  BY <1>1, <1>2 DEF Numbering
<1>4. Given(D) \subseteq Given(D)'
  <2> SUFFICES ASSUME NEW e \in D, documents[e].stage = "created"
               PROVE  documents[e].reference \in Given(D)'
    BY DEF Given
  <2>1. documents'[e] = documents[e]
    BY <1>1
  <2> QED BY <2>1 DEF Given
<1>5. documents' = [e \in D |-> documents'[e]]
  BY DEF NumbersInv
<1>6. CASE d \in Numbering(D)
  <2>1. Numbering(D)' = {}
    BY <1>3, <1>6 DEF NumbersInv
  <2> QED BY <2>1, <1>5 DEF NumbersInv
<1>7. CASE d \notin Numbering(D)
  <2>1. sequence' = sequence
    BY <1>7 DEF Numbering
  <2>2. Numbered(D)' = Numbered(D) /\ Numbering(D)' = Numbering(D)
    BY <1>1, <1>2, <1>3, <1>7 DEF Numbered, Numbering
  <2>3. \A e \in Numbered(D) \union Numbering(D) : documents'[e] = documents[e]
    BY <1>1, <1>7 DEF Numbered, Numbering
  <2>4. ASSUME NEW e \in Numbering(D)
        PROVE  /\ documents'[e].reference[1] = sequence'.prefix
               /\ documents'[e].reference[2] >= sequence'.next
               /\ \A c \in Numbered(D)' : documents'[e].reference # documents'[c].reference
               /\ \A n \in sequence'.next..(documents'[e].reference[2] - 1) :
                    <<sequence'.prefix, n>> \in Given(D)'
    <3>1. /\ documents'[e] = documents[e]
          /\ \A c \in Numbered(D) : documents'[c] = documents[c]
      BY <2>3
    <3>2. /\ documents[e].reference[1] = sequence.prefix
          /\ documents[e].reference[2] >= sequence.next
          /\ \A c \in Numbered(D) : documents[e].reference # documents[c].reference
          /\ \A n \in sequence.next..(documents[e].reference[2] - 1) :
               <<sequence.prefix, n>> \in Given(D)
      BY DEF NumbersInv
    <3> QED BY <2>1, <2>2, <3>1, <3>2, <1>4
  <2>5. \A c, e \in Numbering(D) : c = e
    BY DEF NumbersInv
  <2> QED BY <2>2, <2>4, <2>5, <1>5 DEF NumbersInv
<1> QED BY <1>6, <1>7

\* Of some numbers from `low` on, one is the first.
LEMMA FirstOf ==
  ASSUME NEW T, NEW low \in Nat, NEW high \in Int, T \subseteq low..high, T # {}
  PROVE  \E first \in T : /\ first = (CHOOSE n \in T : \A k \in T : n <= k)
                          /\ \A k \in low..(first - 1) : k \notin T
<1>1. T \subseteq Nat
  OBVIOUS
<1>2. \E n \in T : \A k \in T : n <= k
  BY <1>1, Sums!NatMin
<1> DEFINE first == CHOOSE n \in T : \A k \in T : n <= k
<1>3. first \in T /\ \A k \in T : first <= k
  BY <1>2
<1>4. \A k \in low..(first - 1) : k \notin T
  <2> HIDE DEF first
  <2> QED BY <1>1, <1>3
<1> QED BY <1>3, <1>4

\* Documents of either part: none, numbered, or typed.
NumberRow(Pr) ==
  [stage : {"creating", "created"}, typed : {FALSE}, next : 1..MaxNumber,
   reference : Pr \X (1..(MaxNumber - 1))]
    \union [stage : {"creating", "created"}, typed : {TRUE},
            reference : {DefaultPrefix} \X TypedNumbers]

NumbersTyped(D, Pr) ==
  /\ sequence \in [prefix : Pr, next : 1..MaxNumber]
  /\ documents \in [D -> {[stage |-> "none"]} \union NumberRow(Pr)]

\* A document that is not none has its columns.
LEMMA RowTyped ==
  ASSUME NEW D, NEW Pr, NumbersTyped(D, Pr), NEW d \in D, documents[d].stage # "none"
  PROVE  /\ documents[d] \in NumberRow(Pr)
         /\ documents[d].typed \in BOOLEAN
         /\ documents[d].typed => documents[d].reference \in {DefaultPrefix} \X TypedNumbers
         /\ ~documents[d].typed => documents[d].reference \in Pr \X (1..(MaxNumber - 1))
<1>1. documents[d] \in NumberRow(Pr)
  BY DEF NumbersTyped
<1> QED BY <1>1 DEF NumberRow

LEMMA NumbersStay ==
  ASSUME NEW D, NEW Pr, NumbersTyped(D, Pr), NumbersInv(D), sequence' = sequence, documents' = documents
  PROVE  NumbersTyped(D, Pr)' /\ NumbersInv(D)'
<1>1. Numbering(D)' = Numbering(D) /\ Numbered(D)' = Numbered(D) /\ Given(D)' = Given(D)
  BY DEF Numbering, Numbered, Given
<1> QED BY <1>1 DEF NumbersTyped, NumbersInv

\* The step of an automatic creation, if a reference is free.
LEMMA NTakes ==
  ASSUME NumbersTyped(Documents, {DefaultPrefix}), NumbersInv(Documents), NEW d \in Documents, N!NextReference(d)
  PROVE  NumbersTyped(Documents, {DefaultPrefix})' /\ NumbersInv(Documents)'
<1> DEFINE row == [stage |-> "creating", typed |-> FALSE, next |-> sequence.next,
                   reference |-> <<sequence.prefix, N!FirstFree>>]
<1>1. /\ sequence.next \in Nat \ {0} /\ Attempts \in Nat /\ MaxNumber \in Nat
      /\ sequence.prefix \in {DefaultPrefix} /\ sequence.next \in 1..MaxNumber
  BY NumberingAssumption DEF N!NumberingAssumption, NumbersTyped
<1>2. /\ N!FirstFree \in N!FreeCandidates
      /\ \A k \in sequence.next..(N!FirstFree - 1) : k \notin N!FreeCandidates
  <2>1. N!FreeCandidates \subseteq sequence.next..(sequence.next + Attempts - 1)
    BY DEF N!FreeCandidates, N!Candidates
  <2>2. N!FreeCandidates # {} /\ sequence.next + Attempts - 1 \in Int /\ sequence.next \in Nat
    BY <1>1 DEF N!NextReference
  <2>3. \E first \in N!FreeCandidates :
          /\ first = (CHOOSE n \in N!FreeCandidates : \A k \in N!FreeCandidates : n <= k)
          /\ \A k \in sequence.next..(first - 1) : k \notin N!FreeCandidates
    BY <2>1, <2>2, FirstOf
  <2> QED BY <2>3 DEF N!FirstFree
<1>3. /\ N!FirstFree \in Nat /\ N!FirstFree >= sequence.next
      /\ N!FirstFree <= sequence.next + Attempts - 1 /\ N!FirstFree < MaxNumber
      /\ ~N!IsTaken(<<sequence.prefix, N!FirstFree>>)
  BY <1>1, <1>2 DEF N!FreeCandidates, N!Candidates, N!NextReference
<1>4. \A k \in sequence.next..(N!FirstFree - 1) : N!IsTaken(<<sequence.prefix, k>>)
  BY <1>1, <1>2, <1>3 DEF N!FreeCandidates, N!Candidates
<1>5. Given(Documents) = N!References
  BY DEF Given, N!References, N!At
<1>6. /\ Numbering(Documents) = {} /\ documents[d].stage = "none"
      /\ sequence' = sequence /\ documents' = [documents EXCEPT ![d] = row]
  BY DEF N!NextReference, N!RowFree, N!At, Numbering
<1>7. row \in NumberRow({DefaultPrefix})
  <2>1. N!FirstFree \in 1..(MaxNumber - 1)
    BY <1>1, <1>3
  <2>2. <<sequence.prefix, N!FirstFree>> \in {DefaultPrefix} \X (1..(MaxNumber - 1))
    BY <1>1, <2>1
  <2> QED BY <1>1, <2>2 DEF NumberRow
<1>8. NumbersTyped(Documents, {DefaultPrefix})'
  <2> HIDE DEF row
  <2> QED BY <1>6, <1>7 DEF NumbersTyped
<1> HIDE DEF row
<1>9. /\ <<sequence.prefix, N!FirstFree>> \notin Given(Documents)
      /\ \A k \in sequence.next..(N!FirstFree - 1) : <<sequence.prefix, k>> \in Given(Documents)
  BY <1>3, <1>4, <1>5 DEF N!IsTaken
<1> QED BY <1>3, <1>6, <1>8, <1>9, NumberTaken DEF row

\* The other steps of a document.
LEMMA NEnds ==
  ASSUME NumbersTyped(Documents, {DefaultPrefix}), NumbersInv(Documents), NEW d \in Documents,
         N!Commit(d) \/ N!Rollback(d) \/ \E r \in {DefaultPrefix} \X TypedNumbers : N!TypeReference(d, r)
  PROVE  NumbersTyped(Documents, {DefaultPrefix})' /\ NumbersInv(Documents)'
<1>0. [stage |-> "none"] \in {[stage |-> "none"]} \union NumberRow({DefaultPrefix})
  OBVIOUS
<1>1. ASSUME N!Rollback(d)
      PROVE  NumbersTyped(Documents, {DefaultPrefix})' /\ NumbersInv(Documents)'
  BY <1>1, NumberKept DEF N!Rollback, N!NoDocument, NumbersTyped
<1>2. ASSUME NEW r \in {DefaultPrefix} \X TypedNumbers, N!TypeReference(d, r)
      PROVE  NumbersTyped(Documents, {DefaultPrefix})' /\ NumbersInv(Documents)'
  <2> DEFINE row == [stage |-> "creating", typed |-> TRUE, reference |-> r]
  <2>1. row \in NumberRow({DefaultPrefix}) /\ row.stage = "creating" /\ row.typed
    BY DEF NumberRow
  <2>2. documents[d].stage = "none" /\ documents' = [documents EXCEPT ![d] = row] /\ sequence' = sequence
    BY <1>2 DEF N!TypeReference
  <2> HIDE DEF row
  <2> QED BY <2>1, <2>2, NumberKept DEF NumbersTyped
<1>3. ASSUME N!Commit(d)
      PROVE  NumbersTyped(Documents, {DefaultPrefix})' /\ NumbersInv(Documents)'
  <2>1. /\ documents[d].stage = "creating" /\ documents[d] \in NumberRow({DefaultPrefix})
        /\ documents' = [documents EXCEPT ![d].stage = "created"]
    BY <1>3, RowTyped DEF N!Commit
  <2>2. [documents[d] EXCEPT !.stage = "created"] \in NumberRow({DefaultPrefix})
    BY <2>1 DEF NumberRow
  <2>3. documents'[d] = [documents[d] EXCEPT !.stage = "created"]
    BY <2>1 DEF NumbersTyped
  <2>4. /\ documents'[d].stage = "created" /\ documents'[d].typed = documents[d].typed
        /\ documents'[d].reference = documents[d].reference
    <3>1. documents[d] = [stage |-> documents[d].stage, typed |-> documents[d].typed,
            next |-> documents[d].next, reference |-> documents[d].reference]
          \/ documents[d] = [stage |-> documents[d].stage, typed |-> documents[d].typed,
               reference |-> documents[d].reference]
      BY <2>1 DEF NumberRow
    <3> QED BY <2>3, <3>1
  <2>5. documents' \in [Documents -> {[stage |-> "none"]} \union NumberRow({DefaultPrefix})]
    BY <2>1, <2>2, <2>3 DEF NumbersTyped
  <2>6. documents[d].typed => sequence' = sequence
    BY <1>3 DEF N!Commit, N!Advanced
  <2>7. sequence' \in [prefix : {DefaultPrefix}, next : 1..MaxNumber]
    <3>1. CASE documents[d].typed
      BY <2>6, <3>1 DEF NumbersTyped
    <3>2. CASE ~documents[d].typed
      <4>1. sequence' = [sequence EXCEPT !.next = documents[d].reference[2] + 1]
        BY <1>3, <3>2 DEF N!Commit, N!Advanced
      <4>2. documents[d].reference[2] \in 1..(MaxNumber - 1) /\ MaxNumber \in Nat
        BY <2>1, <3>2, RowTyped, NumberingAssumption DEF N!NumberingAssumption
      <4> QED BY <4>1, <4>2 DEF NumbersTyped
    <3> QED BY <3>1, <3>2
  <2> QED BY <2>1, <2>4, <2>5, <2>6, <2>7, NumberCommitted DEF NumbersTyped
<1> QED BY <1>1, <1>2, <1>3

\* Every step keeps the invariant and passes over taken numbers only.
LEMMA NStep ==
  ASSUME NumbersTyped(Documents, {DefaultPrefix}), NumbersInv(Documents), [N!Next]_numberVars
  PROVE  /\ NumbersTyped(Documents, {DefaultPrefix})' /\ NumbersInv(Documents)'
         /\ N!SkipsOnlyTaken
<1>1. N!SkipsOnlyTaken
  <2>1. Given(Documents) = N!References
    BY DEF Given, N!References, N!At
  <2> QED BY <2>1 DEF NumbersInv, Numbering, N!SkipsOnlyTaken, N!IsTaken
<1>2. ASSUME sequence' = sequence, documents' = documents
      PROVE  NumbersTyped(Documents, {DefaultPrefix})' /\ NumbersInv(Documents)'
  BY <1>2, NumbersStay
<1>3. ASSUME NEW prefix \in {DefaultPrefix}, NEW next \in {}, N!UpdateSequence(prefix, next)
      PROVE  NumbersTyped(Documents, {DefaultPrefix})' /\ NumbersInv(Documents)'
  <2>1. next \in 1..MaxNumber
    BY NumberingAssumption DEF N!NumberingAssumption
  <2>2. Numbering(Documents) = {} /\ documents' = documents
    BY <1>3 DEF N!UpdateSequence, N!RowFree, N!At, Numbering
  <2>3. Numbering(Documents)' = {}
    BY <2>2 DEF Numbering
  <2> QED BY <1>3, <2>1, <2>2, <2>3 DEF N!UpdateSequence, NumbersTyped, NumbersInv
<1> QED BY <1>1, <1>2, <1>3, NTakes, NEnds DEF N!Next, N!GiveUp, numberVars

LEMMA NInit ==
  ASSUME N!Init
  PROVE  NumbersTyped(Documents, {DefaultPrefix}) /\ NumbersInv(Documents)
<1>1. Numbering(Documents) = {}
  BY DEF N!Init, N!NoDocument, Numbering
<1>2. MaxNumber \in Nat \ {0} /\ DefaultPrefix \in {DefaultPrefix}
  BY NumberingAssumption DEF N!NumberingAssumption
<1> QED BY <1>1, <1>2 DEF N!Init, N!NoDocument, NumbersTyped, NumbersInv

\* What the invariant says.
LEMMA NGives ==
  ASSUME NumbersTyped(Documents, {DefaultPrefix}), NumbersInv(Documents)
  PROVE  N!NumberingTypeOK /\ N!NeverShared
<1>1. N!NeverShared
  BY DEF NumbersInv, Numbering, Numbered, N!NeverShared, N!At
<1>2. ASSUME NEW d \in Documents, documents[d].stage # "none"
      PROVE  documents[d].reference \in {DefaultPrefix} \X (1..MaxNumber)
  <2>1. {DefaultPrefix} \X TypedNumbers \subseteq {DefaultPrefix} \X (1..MaxNumber)
    BY NumberingAssumption DEF N!NumberingAssumption
  <2>2. {DefaultPrefix} \X (1..(MaxNumber - 1)) \subseteq {DefaultPrefix} \X (1..MaxNumber)
    BY NumberingAssumption DEF N!NumberingAssumption
  <2> QED BY <1>2, <2>1, <2>2, RowTyped
<1> QED BY <1>1, <1>2 DEF N!NumberingTypeOK, N!At, NumbersTyped

\* The same of the part where prefix and next number are set.
LEMMA SetTakes ==
  ASSUME NumbersTyped(FewDocuments, Prefixes), NumbersInv(FewDocuments), NEW d \in FewDocuments, Set!NextReference(d)
  PROVE  NumbersTyped(FewDocuments, Prefixes)' /\ NumbersInv(FewDocuments)'
<1> DEFINE row == [stage |-> "creating", typed |-> FALSE, next |-> sequence.next,
                   reference |-> <<sequence.prefix, Set!FirstFree>>]
<1>1. /\ sequence.next \in Nat \ {0} /\ Attempts \in Nat /\ MaxNumber \in Nat
      /\ sequence.prefix \in Prefixes /\ sequence.next \in 1..MaxNumber
  BY NumberingAssumption DEF Set!NumberingAssumption, NumbersTyped
<1>2. /\ Set!FirstFree \in Set!FreeCandidates
      /\ \A k \in sequence.next..(Set!FirstFree - 1) : k \notin Set!FreeCandidates
  <2>1. Set!FreeCandidates \subseteq sequence.next..(sequence.next + Attempts - 1)
    BY DEF Set!FreeCandidates, Set!Candidates
  <2>2. Set!FreeCandidates # {} /\ sequence.next + Attempts - 1 \in Int /\ sequence.next \in Nat
    BY <1>1 DEF Set!NextReference
  <2>3. \E first \in Set!FreeCandidates :
          /\ first = (CHOOSE n \in Set!FreeCandidates : \A k \in Set!FreeCandidates : n <= k)
          /\ \A k \in sequence.next..(first - 1) : k \notin Set!FreeCandidates
    BY <2>1, <2>2, FirstOf
  <2> QED BY <2>3 DEF Set!FirstFree
<1>3. /\ Set!FirstFree \in Nat /\ Set!FirstFree >= sequence.next
      /\ Set!FirstFree <= sequence.next + Attempts - 1 /\ Set!FirstFree < MaxNumber
      /\ ~Set!IsTaken(<<sequence.prefix, Set!FirstFree>>)
  BY <1>1, <1>2 DEF Set!FreeCandidates, Set!Candidates, Set!NextReference
<1>4. \A k \in sequence.next..(Set!FirstFree - 1) : Set!IsTaken(<<sequence.prefix, k>>)
  BY <1>1, <1>2, <1>3 DEF Set!FreeCandidates, Set!Candidates
<1>5. Given(FewDocuments) = Set!References
  BY DEF Given, Set!References, Set!At
<1>6. /\ Numbering(FewDocuments) = {} /\ documents[d].stage = "none"
      /\ sequence' = sequence /\ documents' = [documents EXCEPT ![d] = row]
  BY DEF Set!NextReference, Set!RowFree, Set!At, Numbering
<1>7. row \in NumberRow(Prefixes)
  <2>1. Set!FirstFree \in 1..(MaxNumber - 1)
    BY <1>1, <1>3
  <2>2. <<sequence.prefix, Set!FirstFree>> \in Prefixes \X (1..(MaxNumber - 1))
    BY <1>1, <2>1
  <2> QED BY <1>1, <2>2 DEF NumberRow
<1>8. NumbersTyped(FewDocuments, Prefixes)'
  <2> HIDE DEF row
  <2> QED BY <1>6, <1>7 DEF NumbersTyped
<1> HIDE DEF row
<1>9. /\ <<sequence.prefix, Set!FirstFree>> \notin Given(FewDocuments)
      /\ \A k \in sequence.next..(Set!FirstFree - 1) : <<sequence.prefix, k>> \in Given(FewDocuments)
  BY <1>3, <1>4, <1>5 DEF Set!IsTaken
<1> QED BY <1>3, <1>6, <1>8, <1>9, NumberTaken DEF row

LEMMA SetEnds ==
  ASSUME NumbersTyped(FewDocuments, Prefixes), NumbersInv(FewDocuments), NEW d \in FewDocuments,
         Set!Commit(d) \/ Set!Rollback(d) \/ \E r \in {DefaultPrefix} \X TypedNumbers : Set!TypeReference(d, r)
  PROVE  NumbersTyped(FewDocuments, Prefixes)' /\ NumbersInv(FewDocuments)'
<1>0. [stage |-> "none"] \in {[stage |-> "none"]} \union NumberRow(Prefixes)
  OBVIOUS
<1>1. ASSUME Set!Rollback(d)
      PROVE  NumbersTyped(FewDocuments, Prefixes)' /\ NumbersInv(FewDocuments)'
  BY <1>1, NumberKept DEF Set!Rollback, Set!NoDocument, NumbersTyped
<1>2. ASSUME NEW r \in {DefaultPrefix} \X TypedNumbers, Set!TypeReference(d, r)
      PROVE  NumbersTyped(FewDocuments, Prefixes)' /\ NumbersInv(FewDocuments)'
  <2> DEFINE row == [stage |-> "creating", typed |-> TRUE, reference |-> r]
  <2>1. row \in NumberRow(Prefixes) /\ row.stage = "creating" /\ row.typed
    BY DEF NumberRow
  <2>2. documents[d].stage = "none" /\ documents' = [documents EXCEPT ![d] = row] /\ sequence' = sequence
    BY <1>2 DEF Set!TypeReference
  <2> HIDE DEF row
  <2> QED BY <2>1, <2>2, NumberKept DEF NumbersTyped
<1>3. ASSUME Set!Commit(d)
      PROVE  NumbersTyped(FewDocuments, Prefixes)' /\ NumbersInv(FewDocuments)'
  <2>1. /\ documents[d].stage = "creating" /\ documents[d] \in NumberRow(Prefixes)
        /\ documents' = [documents EXCEPT ![d].stage = "created"]
    BY <1>3, RowTyped DEF Set!Commit
  <2>2. [documents[d] EXCEPT !.stage = "created"] \in NumberRow(Prefixes)
    BY <2>1 DEF NumberRow
  <2>3. documents'[d] = [documents[d] EXCEPT !.stage = "created"]
    BY <2>1 DEF NumbersTyped
  <2>4. /\ documents'[d].stage = "created" /\ documents'[d].typed = documents[d].typed
        /\ documents'[d].reference = documents[d].reference
    <3>1. documents[d] = [stage |-> documents[d].stage, typed |-> documents[d].typed,
            next |-> documents[d].next, reference |-> documents[d].reference]
          \/ documents[d] = [stage |-> documents[d].stage, typed |-> documents[d].typed,
               reference |-> documents[d].reference]
      BY <2>1 DEF NumberRow
    <3> QED BY <2>3, <3>1
  <2>5. documents' \in [FewDocuments -> {[stage |-> "none"]} \union NumberRow(Prefixes)]
    BY <2>1, <2>2, <2>3 DEF NumbersTyped
  <2>6. documents[d].typed => sequence' = sequence
    BY <1>3 DEF Set!Commit, Set!Advanced
  <2>7. sequence' \in [prefix : Prefixes, next : 1..MaxNumber]
    <3>1. CASE documents[d].typed
      BY <2>6, <3>1 DEF NumbersTyped
    <3>2. CASE ~documents[d].typed
      <4>1. sequence' = [sequence EXCEPT !.next = documents[d].reference[2] + 1]
        BY <1>3, <3>2 DEF Set!Commit, Set!Advanced
      <4>2. documents[d].reference[2] \in 1..(MaxNumber - 1) /\ MaxNumber \in Nat
        BY <2>1, <3>2, RowTyped, NumberingAssumption DEF Set!NumberingAssumption
      <4> QED BY <4>1, <4>2 DEF NumbersTyped
    <3> QED BY <3>1, <3>2
  <2> QED BY <2>1, <2>4, <2>5, <2>6, <2>7, NumberCommitted DEF NumbersTyped
<1> QED BY <1>1, <1>2, <1>3

LEMMA SetStep ==
  ASSUME NumbersTyped(FewDocuments, Prefixes), NumbersInv(FewDocuments), [Set!Next]_numberVars
  PROVE  /\ NumbersTyped(FewDocuments, Prefixes)' /\ NumbersInv(FewDocuments)'
         /\ Set!SkipsOnlyTaken
<1>1. Set!SkipsOnlyTaken
  <2>1. Given(FewDocuments) = Set!References
    BY DEF Given, Set!References, Set!At
  <2> QED BY <2>1 DEF NumbersInv, Numbering, Set!SkipsOnlyTaken, Set!IsTaken
<1>2. ASSUME sequence' = sequence, documents' = documents
      PROVE  NumbersTyped(FewDocuments, Prefixes)' /\ NumbersInv(FewDocuments)'
  BY <1>2, NumbersStay
<1>3. ASSUME NEW prefix \in Prefixes, NEW next \in SetNumbers, Set!UpdateSequence(prefix, next)
      PROVE  NumbersTyped(FewDocuments, Prefixes)' /\ NumbersInv(FewDocuments)'
  <2>1. next \in 1..MaxNumber
    BY NumberingAssumption DEF Set!NumberingAssumption
  <2>2. Numbering(FewDocuments) = {} /\ documents' = documents
    BY <1>3 DEF Set!UpdateSequence, Set!RowFree, Set!At, Numbering
  <2>3. Numbering(FewDocuments)' = {}
    BY <2>2 DEF Numbering
  <2> QED BY <1>3, <2>1, <2>2, <2>3 DEF Set!UpdateSequence, NumbersTyped, NumbersInv
<1> QED BY <1>1, <1>2, <1>3, SetTakes, SetEnds DEF Set!Next, Set!GiveUp, numberVars

LEMMA SetInit ==
  ASSUME Set!Init
  PROVE  NumbersTyped(FewDocuments, Prefixes) /\ NumbersInv(FewDocuments)
<1>1. Numbering(FewDocuments) = {}
  BY DEF Set!Init, Set!NoDocument, Numbering
<1>2. MaxNumber \in Nat \ {0} /\ DefaultPrefix \in Prefixes
  BY NumberingAssumption DEF Set!NumberingAssumption
<1> QED BY <1>1, <1>2 DEF Set!Init, Set!NoDocument, NumbersTyped, NumbersInv

LEMMA SetGives ==
  ASSUME NumbersTyped(FewDocuments, Prefixes), NumbersInv(FewDocuments)
  PROVE  Set!NumberingTypeOK /\ Set!NeverShared
<1>1. Set!NeverShared
  BY DEF NumbersInv, Numbering, Numbered, Set!NeverShared, Set!At
<1>2. ASSUME NEW d \in FewDocuments, documents[d].stage # "none"
      PROVE  documents[d].reference \in Prefixes \X (1..MaxNumber)
  <2>1. {DefaultPrefix} \X TypedNumbers \subseteq Prefixes \X (1..MaxNumber)
    BY NumberingAssumption DEF Set!NumberingAssumption
  <2>2. Prefixes \X (1..(MaxNumber - 1)) \subseteq Prefixes \X (1..MaxNumber)
    BY NumberingAssumption DEF Set!NumberingAssumption
  <2> QED BY <1>2, <2>1, <2>2, RowTyped
<1> QED BY <1>1, <1>2 DEF Set!NumberingTypeOK, Set!At, NumbersTyped

\* While the sequence is not set, the numbers it gave lie behind it.
SequenceInv == NumbersTyped(Documents, {DefaultPrefix}) /\ NumbersInv(Documents) /\ N!NoSecondTry

LEMMA SequenceStep ==
  ASSUME SequenceInv, [N!Next]_numberVars
  PROVE  SequenceInv' /\ N!SkipsOnlyTaken
<1> USE DEF SequenceInv
<1>1. N!NoSecondTry <=> \A d \in Numbered(Documents) : documents[d].reference[2] < sequence.next
  BY DEF N!NoSecondTry, N!At, Numbered
<1>2. N!NoSecondTry' <=> \A d \in Numbered(Documents)' : documents'[d].reference[2] < sequence'.next
  BY DEF N!NoSecondTry, N!At, Numbered
<1>3. ASSUME sequence' = sequence,
             \A d \in Numbered(Documents)' : d \in Numbered(Documents) /\ documents'[d] = documents[d]
      PROVE  N!NoSecondTry'
  BY <1>1, <1>2, <1>3
<1>4. ASSUME NEW d \in Documents, NEW row, documents' = [documents EXCEPT ![d] = row],
             sequence' = sequence, row.stage # "created"
      PROVE  N!NoSecondTry'
  BY <1>3, <1>4 DEF Numbered, NumbersTyped
<1>5. ASSUME NEW d \in Documents, N!Commit(d)
      PROVE  N!NoSecondTry'
  <2>1. \A e \in Documents \ {d} : documents'[e] = documents[e]
    BY <1>5 DEF N!Commit, NumbersTyped
  <2>2. /\ documents'[d].typed = documents[d].typed
        /\ documents'[d].reference = documents[d].reference
        /\ documents[d].stage = "creating"
    <3>1. documents'[d] = [documents[d] EXCEPT !.stage = "created"] /\ documents[d].stage = "creating"
      BY <1>5 DEF N!Commit, NumbersTyped
    <3>2. documents[d] \in NumberRow({DefaultPrefix})
      BY <3>1, RowTyped
    <3>3. documents[d] = [stage |-> documents[d].stage, typed |-> documents[d].typed,
            next |-> documents[d].next, reference |-> documents[d].reference]
          \/ documents[d] = [stage |-> documents[d].stage, typed |-> documents[d].typed,
               reference |-> documents[d].reference]
      BY <3>2 DEF NumberRow
    <3> QED BY <3>1, <3>3
  <2>3. CASE documents[d].typed
    BY <1>3, <1>5, <2>1, <2>2, <2>3 DEF N!Commit, N!Advanced, Numbered
  <2>4. CASE ~documents[d].typed
    <3>1. /\ documents[d].reference[2] \in Nat /\ d \in Numbering(Documents)
          /\ documents[d].reference[2] >= sequence.next /\ sequence.next \in Nat
      BY <2>2, <2>4, RowTyped, NumberingAssumption
         DEF Numbering, NumbersInv, NumbersTyped, N!NumberingAssumption
    <3>2. sequence'.next = documents[d].reference[2] + 1
      BY <1>5, <2>4 DEF N!Commit, N!Advanced, NumbersTyped
    <3>3. ASSUME NEW e \in Numbered(Documents)', e # d
          PROVE  documents'[e].reference[2] < sequence'.next
      <4>1. e \in Numbered(Documents) /\ documents'[e] = documents[e]
        BY <2>1, <3>3 DEF Numbered
      <4>2. documents[e].reference[2] \in Int
        BY <4>1, RowTyped, NumberingAssumption DEF Numbered, N!NumberingAssumption
      <4>3. documents[e].reference[2] < sequence.next
        BY <1>1, <4>1
      <4> QED BY <3>1, <3>2, <4>1, <4>2, <4>3
    <3> QED BY <1>2, <2>2, <3>1, <3>2, <3>3
  <2> QED BY <2>3, <2>4
<1>6. ASSUME sequence' = sequence, documents' = documents
      PROVE  N!NoSecondTry'
  BY <1>3, <1>6 DEF Numbered
<1>7. N!NoSecondTry'
  BY <1>4, <1>5, <1>6
     DEF N!Next, N!NextReference, N!GiveUp, N!Rollback, N!NoDocument, N!TypeReference, numberVars
<1> QED BY <1>7, NStep

\* No creation gives up, if of any numbers that one tries some were not typed.
LEMMA NeverGivesUp ==
  ASSUME SequenceInv, gaveUp = {}, [N!Next]_numberVars
  PROVE  gaveUp' = {}
<1>1. ASSUME NEW d \in Documents, N!GiveUp(d)
      PROVE  FALSE
  <2>1. sequence.next \in 1..MaxNumber /\ sequence.next \in Nat /\ sequence.prefix = DefaultPrefix
    BY NumberingAssumption DEF SequenceInv, NumbersTyped, N!NumberingAssumption
  <2>2. PICK k \in sequence.next..(sequence.next + Attempts - 1) : k \notin TypedNumbers
    BY <2>1, FewTypedInARow
  <2>3. N!IsTaken(<<sequence.prefix, k>>)
    BY <1>1, <2>2 DEF N!GiveUp, N!FreeCandidates, N!Candidates
  <2>4. PICK e \in Documents : documents[e].stage = "created" /\ documents[e].reference = <<sequence.prefix, k>>
    BY <2>3 DEF N!IsTaken, N!References, N!At
  <2>5. documents[e].reference[2] = k
    BY <2>4
  <2>6. ~documents[e].typed
    BY <2>2, <2>4, <2>5, RowTyped DEF SequenceInv
  <2>7. k < sequence.next
    BY <2>4, <2>5, <2>6 DEF SequenceInv, N!NoSecondTry, N!At
  <2> QED BY <2>1, <2>2, <2>7, NumberingAssumption DEF N!NumberingAssumption
<1> QED
  BY <1>1 DEF N!Next, N!NextReference, N!Commit, N!Rollback, N!TypeReference, N!UpdateSequence, numberVars

LEMMA SequencePart ==
  CompanySpec => /\ [](part = "sequence" => SequenceInv)
                 /\ [][part = "sequence" => N!SkipsOnlyTaken]_companyVars
<1> DEFINE Inv == part = "sequence" => SequenceInv
<1>1. CompanyInit => Inv
  <2>1. N!Init => N!NoSecondTry
    BY DEF N!Init, N!NoDocument, N!NoSecondTry, N!At
  <2> QED BY <2>1, NInit DEF CompanyInit, NumbersInit, SequenceInv
<1>2. Inv /\ [CompanyNext]_companyVars => Inv' /\ (part = "sequence" => N!SkipsOnlyTaken)
  BY SequenceStep DEF CompanyNext, NumbersNext, companyVars, numberVars
<1> QED
  BY <1>1, <1>2, PTL DEF CompanySpec

SetSequenceInv == NumbersTyped(FewDocuments, Prefixes) /\ NumbersInv(FewDocuments)

LEMMA SetSequencePart ==
  CompanySpec => /\ [](part = "set sequence" => SetSequenceInv)
                 /\ [][part = "set sequence" => Set!SkipsOnlyTaken]_companyVars
<1> DEFINE Inv == part = "set sequence" => SetSequenceInv
<1>1. CompanyInit => Inv
  BY SetInit DEF CompanyInit, NumbersInit, SetSequenceInv
<1>2. Inv /\ [CompanyNext]_companyVars => Inv' /\ (part = "set sequence" => Set!SkipsOnlyTaken)
  BY SetStep DEF CompanyNext, NumbersNext, companyVars, numberVars, SetSequenceInv
<1> QED
  BY <1>1, <1>2, PTL DEF CompanySpec

LEMMA AutomaticPart == CompanySpec => [](part = "sequence" => N!AutomaticNeverRefused)
<1> DEFINE Inv == part = "sequence" => gaveUp = {}
<1>1. CompanyInit => Inv
  BY DEF CompanyInit, NumbersInit, N!Init
<1>2. Inv /\ (part = "sequence" => SequenceInv) /\ [CompanyNext]_companyVars => Inv'
  BY NeverGivesUp DEF CompanyNext, NumbersNext, companyVars, numberVars
<1>3. Inv => (part = "sequence" => N!AutomaticNeverRefused)
  BY DEF N!AutomaticNeverRefused
<1> QED
  BY <1>1, <1>2, <1>3, SequencePart, PTL DEF CompanySpec

-----------------------------------------------------------------------------
(* Products and barcodes.                                                   *)

Codes == Barcodes \union {None}

Table == UNION {[D -> Codes] : D \in SUBSET Products}

\* Products of a file, each once.
Files == {f \in Seq(P!Row) : P!NothingRepeated(f)}

\* A request is for a product that exists, or one to be created.
Asking ==
  [kind : {"create"}, product : Products, code : Codes]
    \union [kind : {"update"}, product : DOMAIN main, code : Codes, active : BOOLEAN]
    \union [kind : {"extra"}, product : DOMAIN main, code : Barcodes]
    \union [kind : {"import"}, file : Files]

Unique(table) ==
  \A p, q \in DOMAIN table : p # q => table[p] # table[q] \/ table[p] = None

CatalogueInv ==
  /\ main \in Table /\ sold \subseteq DOMAIN main
  /\ extra \in UNION {[D -> DOMAIN main] : D \in SUBSET Barcodes}
  /\ Unique(main)
  /\ requests \subseteq Asking

NoneApart == None \notin Barcodes

LEMMA TableIs ==
  \A t : t \in Table <=> /\ t = [p \in DOMAIN t |-> t[p]] /\ DOMAIN t \subseteq Products
                         /\ \A p \in DOMAIN t : t[p] \in Codes
<1> TAKE t
<1>1. ASSUME t \in Table
      PROVE  /\ t = [p \in DOMAIN t |-> t[p]] /\ DOMAIN t \subseteq Products
             /\ \A p \in DOMAIN t : t[p] \in Codes
  BY <1>1 DEF Table
<1>2. ASSUME t = [p \in DOMAIN t |-> t[p]], DOMAIN t \subseteq Products,
             \A p \in DOMAIN t : t[p] \in Codes
      PROVE  t \in Table
  <2>1. t \in [DOMAIN t -> Codes]
    BY <1>2
  <2> QED
    BY <1>2, <2>1 DEF Table
<1> QED
  BY <1>1, <1>2

\* A product more, or another barcode for one.
LEMMA WithTable ==
  ASSUME NEW t \in Table, NEW p \in Products, NEW c \in Codes
  PROVE  /\ P!With(t, p, c) \in Table /\ DOMAIN P!With(t, p, c) = DOMAIN t \union {p}
         /\ P!With(t, p, c)[p] = c /\ \A q \in DOMAIN t \ {p} : P!With(t, p, c)[q] = t[q]
         /\ Unique(t) /\ P!UniqueMain(t, p, c) => Unique(P!With(t, p, c))
<1>1. P!With(t, p, c) = [q \in DOMAIN t \union {p} |-> IF q = p THEN c ELSE t[q]]
  BY DEF P!With
<1>2. DOMAIN t \union {p} \subseteq Products /\ \A q \in DOMAIN t : t[q] \in Codes
  BY TableIs
<1>3. P!With(t, p, c) \in Table
  BY <1>1, <1>2, TableIs
<1>4. Unique(t) /\ P!UniqueMain(t, p, c) => Unique(P!With(t, p, c))
  BY <1>1 DEF Unique, P!UniqueMain
<1> QED
  BY <1>1, <1>3, <1>4

\* A row of a file leaves a table, in which its product has the code asked for.
LEMMA UpsertedTable ==
  ASSUME NEW t \in Table, NEW row \in P!Row
  PROVE  /\ P!Upserted(t, row) \in Table
         /\ DOMAIN P!Upserted(t, row) = DOMAIN t \union {row.product}
         /\ row.code # None => P!Upserted(t, row)[row.product] = row.code
         /\ \A q \in DOMAIN t : P!Upserted(t, row)[q] = t[q] \/ (q = row.product /\ row.code # None)
         /\ row.product \notin DOMAIN t => P!Upserted(t, row)[row.product] = row.code
         /\ Unique(t) /\ P!UniqueMain(t, row.product, row.code) => Unique(P!Upserted(t, row))
<1>1. row.product \in Products /\ row.code \in Codes
  BY DEF P!Row, Codes
<1>2. CASE row.code = None /\ row.product \in DOMAIN t
  <2>1. P!Upserted(t, row) = t
    BY <1>2 DEF P!Upserted
  <2> QED
    BY <1>2, <2>1
<1>3. CASE ~ (row.code = None /\ row.product \in DOMAIN t)
  <2>1. P!Upserted(t, row) = P!With(t, row.product, row.code)
    BY <1>3 DEF P!Upserted
  <2> DEFINE u == P!With(t, row.product, row.code)
  <2>2. /\ u \in Table /\ DOMAIN u = DOMAIN t \union {row.product}
        /\ u[row.product] = row.code /\ \A q \in DOMAIN t \ {row.product} : u[q] = t[q]
        /\ Unique(t) /\ P!UniqueMain(t, row.product, row.code) => Unique(u)
    BY <1>1, WithTable
  <2> HIDE DEF u
  <2>3. \A q \in DOMAIN t : u[q] = t[q] \/ (q = row.product /\ row.code # None)
    BY <1>3, <2>2
  <2>4. P!Upserted(t, row) = u
    BY <2>1 DEF u
  <2> QED
    BY <2>2, <2>3, <2>4
<1> QED
  BY <1>2, <1>3

\* apply: the tables after each row of a file.
LEMMA AppliedRows ==
  ASSUME main \in Table, NEW file \in Seq(P!Row), NEW after,
         after = CHOOSE g : g = [n \in 0..Len(file) |->
                   IF n = 0 THEN main ELSE P!Upserted(g[n - 1], file[n])]
  PROVE  /\ after[0] = main
         /\ \A n \in 1..Len(file) : after[n] = P!Upserted(after[n - 1], file[n])
         /\ \A n \in 0..Len(file) : after[n] \in Table
<1> DEFINE size == Len(file)
           Body(g) == [n \in 0..size |-> IF n = 0 THEN main ELSE P!Upserted(g[n - 1], file[n])]
           step == [s \in Table \X (1..size) |-> P!Upserted(s[1], file[s[2]])]
<1>1. size \in Nat /\ \A n \in 1..size : file[n] \in P!Row
  OBVIOUS
<1>2. step \in [Table \X (1..size) -> Table]
  <2>1. ASSUME NEW s \in Table \X (1..size)
        PROVE  P!Upserted(s[1], file[s[2]]) \in Table
    <3>1. s[1] \in Table /\ file[s[2]] \in P!Row
      BY <1>1
    <3> QED
      BY <3>1, UpsertedTable
  <2> QED
    BY <2>1
<1>3. PICK h : Sums!IsComputed(h, Table, main, step, size)
  <2> HIDE DEF step, size
  <2> QED
    BY <1>1, <1>2, Sums!ComputedExists
<1>4. h = Body(h)
  <2>1. h \in [0..size -> Table] /\ h[0] = main /\ \A n \in 1..size : h[n] = step[<<h[n - 1], n>>]
    BY <1>3 DEF Sums!IsComputed
  <2>2. ASSUME NEW n \in 0..size
        PROVE  h[n] = IF n = 0 THEN main ELSE P!Upserted(h[n - 1], file[n])
    <3>1. CASE n = 0
      BY <2>1, <3>1
    <3>2. CASE n # 0
      <4>1. n \in 1..size /\ n - 1 \in 0..size
        BY <1>1, <3>2
      <4>2. <<h[n - 1], n>> \in Table \X (1..size)
        BY <2>1, <4>1
      <4>3. h[n] = step[<<h[n - 1], n>>]
        BY <2>1, <4>1
      <4> QED
        BY <3>2, <4>2, <4>3
    <3> QED
      BY <3>1, <3>2
  <2> HIDE DEF step
  <2> QED
    BY <2>1, <2>2
<1>5. after = Body(after)
  <2>1. after = CHOOSE g : g = Body(g)
    OBVIOUS
  <2> HIDE DEF Body
  <2> QED
    BY <1>4, <2>1
<1>6. /\ after[0] = main
      /\ \A n \in 1..size : after[n] = P!Upserted(after[n - 1], file[n])
  <2>1. \A n \in 0..size : after[n] = IF n = 0 THEN main ELSE P!Upserted(after[n - 1], file[n])
    BY <1>5
  <2> HIDE DEF Body
  <2> QED
    BY <1>1, <2>1
<1>7. ASSUME NEW n \in 1..size, after[n - 1] \in Table
      PROVE  after[n] \in Table
  BY <1>1, <1>6, <1>7, UpsertedTable
<1>8. \A n \in 0..size : after[n] \in Table
  <2> DEFINE T == {n \in 0..size : after[n] \in Table}
  <2>1. 0 \in T /\ \A n \in 1..size : n - 1 \in T => n \in T
    BY <1>1, <1>6, <1>7
  <2>2. \A n \in 0..size : n \in T
    <3> HIDE DEF T
    <3> QED
      BY <1>1, <2>1, Sums!UpTo
  <2> QED
    BY <2>2
<1> QED
  BY <1>6, <1>8

\* What the first n rows of a file made of the table.
AfterRows(file, t, n) ==
  /\ DOMAIN main \subseteq DOMAIN t /\ Unique(t)
  /\ \A p \in DOMAIN t :
       \/ p \in DOMAIN main /\ t[p] = main[p]
       \/ \E i \in 1..n : file[i] = [product |-> p, code |-> t[p]]
  /\ \A i \in 1..n : file[i].code # None =>
       file[i].product \in DOMAIN t /\ t[file[i].product] = file[i].code

LEMMA NextRow ==
  ASSUME NEW file \in Files, NEW t \in Table, NEW n \in 1..Len(file), AfterRows(file, t, n - 1),
         P!UniqueMain(t, file[n].product, file[n].code)
  PROVE  AfterRows(file, P!Upserted(t, file[n]), n)
<1> DEFINE row == file[n]
           u == P!Upserted(t, row)
<1>1. row \in P!Row /\ file \in Seq(P!Row) /\ row = [product |-> row.product, code |-> row.code]
  <2>1. file \in Seq(P!Row)
    BY DEF Files
  <2>2. row \in P!Row
    <3> HIDE DEF P!Row
    <3> QED
      BY <2>1
  <2> QED
    BY <2>1, <2>2 DEF P!Row
<1>2. /\ DOMAIN u = DOMAIN t \union {row.product}
      /\ row.code # None => u[row.product] = row.code
      /\ \A q \in DOMAIN t : u[q] = t[q] \/ (q = row.product /\ row.code # None)
      /\ row.product \notin DOMAIN t => u[row.product] = row.code
      /\ Unique(t) => Unique(u)
  BY <1>1, UpsertedTable
<1>3. \A i \in 1..(n - 1) : i \in 1..Len(file) /\ i # n /\ file[i].product # row.product
  BY <1>1 DEF Files, P!NothingRepeated
<1>4. 1..n = 1..(n - 1) \union {n}
  OBVIOUS
<1> HIDE DEF u
<1>5. ASSUME NEW p \in DOMAIN u
      PROVE  \/ p \in DOMAIN main /\ u[p] = main[p]
             \/ \E i \in 1..n : file[i] = [product |-> p, code |-> u[p]]
  <2>1. CASE p = row.product /\ (row.code # None \/ p \notin DOMAIN t)
    <3>1. file[n] = [product |-> p, code |-> u[p]]
      BY <1>1, <1>2, <2>1
    <3> QED
      BY <1>4, <3>1
  <2>2. CASE p \in DOMAIN t /\ u[p] = t[p]
    BY <1>4, <2>2 DEF AfterRows
  <2> QED
    BY <1>2, <2>1, <2>2
<1>6. ASSUME NEW i \in 1..n, file[i].code # None
      PROVE  file[i].product \in DOMAIN u /\ u[file[i].product] = file[i].code
  <2>1. CASE i = n
    BY <1>2, <1>6, <2>1
  <2>2. CASE i # n
    <3>1. i \in 1..(n - 1)
      BY <2>2
    <3> QED
      BY <1>2, <1>3, <1>6, <3>1 DEF AfterRows
  <2> QED
    BY <2>1, <2>2
<1>7. DOMAIN main \subseteq DOMAIN u /\ Unique(u)
  BY <1>2 DEF AfterRows
<1> QED
  BY <1>5, <1>6, <1>7 DEF AfterRows, u

\* An import leaves the table as it is, or with its rows.
LEMMA ImportApplied ==
  ASSUME CatalogueInv, NEW r \in requests, P!ApplyImport(r)
  PROVE  /\ r.file \in Files /\ main' \in Table
         /\ main' = main \/ AfterRows(r.file, main', Len(r.file))
         /\ DOMAIN main \subseteq DOMAIN main' /\ Unique(main')
<1> DEFINE file == r.file
           after == CHOOSE g : g = [n \in 0..Len(file) |->
                      IF n = 0 THEN main ELSE P!Upserted(g[n - 1], file[n])]
           ok == \A n \in DOMAIN file : P!UniqueMain(after[n - 1], file[n].product, file[n].code)
<1>1. file \in Files /\ file \in Seq(P!Row) /\ DOMAIN file = 1..Len(file) /\ Len(file) \in Nat
  <2>1. r.file \in Files
    BY DEF CatalogueInv, Asking, P!ApplyImport
  <2> QED
    BY <2>1 DEF Files
<1>2. main' = IF ok THEN after[Len(file)] ELSE main
  BY DEF P!ApplyImport
<1> HIDE DEF file
<1>3. /\ after[0] = main
      /\ \A n \in 1..Len(file) : after[n] = P!Upserted(after[n - 1], file[n])
      /\ \A n \in 0..Len(file) : after[n] \in Table
  BY <1>1, AppliedRows DEF CatalogueInv
<1>4. CASE ok
  <2> HIDE DEF after
  <2> DEFINE T == {n \in 0..Len(file) : AfterRows(file, after[n], n)}
  <2>1. 0 \in T
    BY <1>1, <1>3 DEF AfterRows, CatalogueInv
  <2>2. ASSUME NEW n \in 1..Len(file), n - 1 \in T
        PROVE  n \in T
    <3>1. /\ P!UniqueMain(after[n - 1], file[n].product, file[n].code)
          /\ after[n - 1] \in Table /\ AfterRows(file, after[n - 1], n - 1)
          /\ n \in 0..Len(file)
      BY <1>1, <1>3, <1>4, <2>2
    <3>2. AfterRows(file, P!Upserted(after[n - 1], file[n]), n)
      BY <1>1, <3>1, NextRow
    <3> QED
      BY <1>3, <3>1, <3>2
  <2>3. Len(file) \in T
    <3> HIDE DEF T, ok
    <3>1. \A n \in 0..Len(file) : n \in T
      BY <1>1, <2>1, <2>2, Sums!UpTo
    <3> QED
      BY <1>1, <3>1
  <2>4. AfterRows(file, main', Len(file)) /\ main' \in Table
    BY <1>1, <1>2, <1>3, <1>4, <2>3
  <2> QED
    BY <1>1, <2>4 DEF AfterRows, file
<1>5. CASE ~ok
  BY <1>1, <1>2, <1>5 DEF CatalogueInv, file
<1> QED
  BY <1>4, <1>5

LEMMA ExtraIs ==
  CatalogueInv => /\ extra = [c \in DOMAIN extra |-> extra[c]] /\ DOMAIN extra \subseteq Barcodes
                  /\ \A c \in DOMAIN extra : extra[c] \in DOMAIN main
  BY DEF CatalogueInv

\* Products stay, so requests about them are still about some.
LEMMA AskingStays ==
  ASSUME DOMAIN main \subseteq DOMAIN main'
  PROVE  Asking \subseteq Asking'
<1>1. [kind : {"update"}, product : DOMAIN main, code : Codes, active : BOOLEAN]
        \subseteq [kind : {"update"}, product : DOMAIN main', code : Codes, active : BOOLEAN]
  OBVIOUS
<1>2. [kind : {"extra"}, product : DOMAIN main, code : Barcodes]
        \subseteq [kind : {"extra"}, product : DOMAIN main', code : Barcodes]
  OBVIOUS
<1> QED
  BY <1>1, <1>2 DEF Asking

\* A request is asked for what its kind is about.
LEMMA AskInv ==
  ASSUME CatalogueInv, P!Ask
  PROVE  CatalogueInv'
<1>1. ASSUME NEW r \in Asking, P!Asked(r)
      PROVE  CatalogueInv'
  BY <1>1 DEF P!Asked, CatalogueInv, Asking
<1>2. ASSUME NEW p \in Products, NEW c \in Codes, P!CheckCreate(p, c)
      PROVE  CatalogueInv'
  <2>1. [kind |-> "create", product |-> p, code |-> c] \in Asking
    BY DEF Asking
  <2> QED
    BY <1>1, <1>2, <2>1 DEF P!CheckCreate
<1>3. ASSUME NEW p \in Products, NEW c \in Codes, NEW a \in BOOLEAN, P!CheckUpdate(p, c, a)
      PROVE  CatalogueInv'
  <2>1. [kind |-> "update", product |-> p, code |-> c, active |-> a] \in Asking
    BY <1>3 DEF Asking, P!CheckUpdate, P!Existing
  <2> QED
    BY <1>1, <1>3, <2>1 DEF P!CheckUpdate
<1>4. ASSUME NEW p \in Products, NEW c \in Barcodes, P!CheckAddBarcode(p, c)
      PROVE  CatalogueInv'
  <2>1. [kind |-> "extra", product |-> p, code |-> c] \in Asking
    BY <1>4 DEF Asking, P!CheckAddBarcode, CatalogueInv
  <2> QED
    BY <1>1, <1>4, <2>1 DEF P!CheckAddBarcode
<1>5. ASSUME NEW p \in Products, NEW c \in Barcodes, P!RemoveBarcode(p, c)
      PROVE  CatalogueInv'
  <2> DEFINE T == DOMAIN extra \ {c}
  <2>1. extra' = [d \in T |-> extra[d]] /\ UNCHANGED <<main, sold, requests>>
    BY <1>5 DEF P!RemoveBarcode
  <2>2. T \in SUBSET Barcodes /\ \A d \in T : extra[d] \in DOMAIN main
    BY ExtraIs
  <2> HIDE DEF T
  <2>3. extra' \in [T -> DOMAIN main]
    BY <2>1, <2>2
  <2>4. extra' \in UNION {[D -> DOMAIN main] : D \in SUBSET Barcodes}
    BY <2>2, <2>3
  <2> QED
    BY <2>1, <2>4 DEF CatalogueInv, Asking
<1>6. ASSUME NEW p \in Products, P!SoftDelete(p)
      PROVE  CatalogueInv'
  BY <1>6 DEF P!SoftDelete, CatalogueInv, Asking
<1>7. ASSUME NEW n \in 1..FileRows, NEW file \in [1..n -> P!Row], P!PlanImport(file)
      PROVE  CatalogueInv'
  <2>1. file \in Seq(P!Row)
    <3>1. n \in Nat
      BY CatalogueAssumption DEF P!CatalogueAssumption
    <3> QED
      BY <3>1
  <2>2. file \in Files
    BY <1>7, <2>1 DEF P!PlanImport, Files
  <2>3. [kind |-> "import", file |-> file] \in Asking
    BY <2>2 DEF Asking
  <2> QED
    BY <1>1, <1>7, <2>3 DEF P!PlanImport
<1>8. Barcodes \union {None} = Codes
  BY DEF Codes
<1> QED
  BY <1>2, <1>3, <1>4, <1>5, <1>6, <1>7, <1>8 DEF P!Ask

\* A write keeps the unique index, and an import takes no barcode of others.
LEMMA WriteInv ==
  ASSUME CatalogueInv, NEW r \in requests,
         P!WriteCreate(r) \/ P!WriteUpdate(r) \/ P!WriteAddBarcode(r) \/ P!ApplyImport(r)
  PROVE  CatalogueInv' /\ requests' = requests \ {r}
<1>1. r \in Asking /\ requests' = requests \ {r}
  BY DEF CatalogueInv, P!WriteCreate, P!WriteUpdate, P!WriteAddBarcode, P!ApplyImport, P!Done
<1>2. ASSUME main' \in Table, DOMAIN main \subseteq DOMAIN main', Unique(main'),
             sold' \subseteq DOMAIN main', extra' = extra
      PROVE  CatalogueInv'
  <2>1. extra \in UNION {[D -> DOMAIN main'] : D \in SUBSET Barcodes}
    <3>1. extra \in [DOMAIN extra -> DOMAIN main'] /\ DOMAIN extra \in SUBSET Barcodes
      BY <1>2, ExtraIs
    <3> QED
      BY <3>1
  <2> QED
    BY <1>1, <1>2, <2>1, AskingStays DEF CatalogueInv
<1>3. ASSUME P!WriteCreate(r)
      PROVE  CatalogueInv'
  <2>1. r.product \in Products /\ r.code \in Codes
    BY <1>1, <1>3 DEF Asking, P!WriteCreate
  <2>2. CASE r.product \notin DOMAIN main /\ P!UniqueMain(main, r.product, r.code)
    <3>1. main' = P!With(main, r.product, r.code) /\ sold' = sold \union {r.product} /\ extra' = extra
      BY <1>3, <2>2 DEF P!WriteCreate, P!Existing
    <3>2. main \in Table /\ Unique(main) /\ sold \subseteq DOMAIN main
      BY DEF CatalogueInv
    <3>3. ASSUME NEW p \in Products, NEW c \in Codes, P!UniqueMain(main, p, c)
          PROVE  /\ P!With(main, p, c) \in Table /\ Unique(P!With(main, p, c))
                 /\ DOMAIN P!With(main, p, c) = DOMAIN main \union {p}
      BY <3>2, <3>3, WithTable
    <3>4. /\ main' \in Table /\ Unique(main')
          /\ DOMAIN main' = DOMAIN main \union {r.product}
      BY <2>1, <2>2, <3>1, <3>3
    <3> QED
      BY <1>2, <3>1, <3>2, <3>3, <3>4
  <2>3. CASE ~ (r.product \notin DOMAIN main /\ P!UniqueMain(main, r.product, r.code))
    BY <1>2, <1>3, <2>3 DEF P!WriteCreate, P!Existing, CatalogueInv
  <2> QED
    BY <2>2, <2>3
<1>4. ASSUME P!WriteUpdate(r)
      PROVE  CatalogueInv'
  <2>1. r.product \in DOMAIN main /\ r.code \in Codes
    BY <1>1, <1>4 DEF Asking, P!WriteUpdate
  <2>2. CASE P!UniqueMain(main, r.product, r.code)
    <3>1. main' = [main EXCEPT ![r.product] = r.code] /\ extra' = extra
          /\ sold' \subseteq sold \union {r.product}
      BY <1>4, <2>2 DEF P!WriteUpdate
    <3>2. main = [p \in DOMAIN main |-> main[p]] /\ DOMAIN main \subseteq Products
          /\ \A p \in DOMAIN main : main[p] \in Codes
      BY TableIs DEF CatalogueInv
    <3>3. /\ DOMAIN main' = DOMAIN main
          /\ main' = [p \in DOMAIN main |-> IF p = r.product THEN r.code ELSE main[p]]
      BY <3>1, <3>2
    <3>4. main' \in Table
      BY <2>1, <3>2, <3>3, TableIs
    <3>5. Unique(main')
      BY <2>2, <3>3 DEF Unique, P!UniqueMain, CatalogueInv
    <3> QED
      BY <1>2, <2>1, <3>1, <3>3, <3>4, <3>5 DEF CatalogueInv
  <2>3. CASE ~P!UniqueMain(main, r.product, r.code)
    BY <1>2, <1>4, <2>3 DEF P!WriteUpdate, CatalogueInv
  <2> QED
    BY <2>2, <2>3
<1>5. ASSUME P!WriteAddBarcode(r)
      PROVE  CatalogueInv'
  <2>1. r.product \in DOMAIN main /\ r.code \in Barcodes
    BY <1>1, <1>5 DEF Asking, P!WriteAddBarcode
  <2>2. main' = main /\ sold' = sold
    BY <1>5 DEF P!WriteAddBarcode
  <2>3. extra' \in UNION {[D -> DOMAIN main] : D \in SUBSET Barcodes}
    <3>1. CASE r.code \in DOMAIN extra
      BY <1>5, <3>1 DEF P!WriteAddBarcode, CatalogueInv
    <3>2. CASE r.code \notin DOMAIN extra
      <4>1. extra' = [c \in DOMAIN extra \union {r.code} |-> IF c = r.code THEN r.product ELSE extra[c]]
        BY <1>5, <3>2 DEF P!WriteAddBarcode, P!With
      <4>2. extra' \in [DOMAIN extra \union {r.code} -> DOMAIN main]
        BY <2>1, <4>1, ExtraIs
      <4>3. DOMAIN extra \union {r.code} \in SUBSET Barcodes
        BY <2>1, ExtraIs
      <4> QED
        BY <4>2, <4>3
    <3> QED
      BY <3>1, <3>2
  <2> QED
    BY <1>1, <2>2, <2>3 DEF CatalogueInv, Asking
<1>6. ASSUME P!ApplyImport(r)
      PROVE  CatalogueInv'
  <2>1. extra' = extra /\ sold' = sold \union (DOMAIN main' \ DOMAIN main)
    BY <1>6 DEF P!ApplyImport, P!Existing
  <2> QED
    BY <1>2, <1>6, <2>1, ImportApplied DEF CatalogueInv
<1> QED
  BY <1>1, <1>3, <1>4, <1>5, <1>6

LEMMA CatalogueStep ==
  ASSUME CatalogueInv, [P!Next]_productVars
  PROVE  CatalogueInv'
<1>1. CASE UNCHANGED productVars
  BY <1>1 DEF productVars, CatalogueInv, Asking
<1>2. CASE P!Write
  BY <1>2, WriteInv DEF P!Write
<1> QED
  BY <1>1, <1>2, AskInv DEF P!Next

LEMMA CatalogueStarts == P!Init => CatalogueInv
<1> SUFFICES ASSUME P!Init PROVE CatalogueInv
  OBVIOUS
<1>1. main = <<>> /\ extra = <<>> /\ sold = {} /\ requests = {}
  BY DEF P!Init
<1>2. DOMAIN main = {} /\ DOMAIN extra = {}
  BY <1>1
<1>3. main \in [{} -> Codes] /\ extra \in [{} -> DOMAIN main]
  BY <1>1, <1>2
<1> QED
  BY <1>1, <1>2, <1>3 DEF CatalogueInv, Unique, Table

\* Each request that is gone has been written.
LEMMA OnlyWritesEnd ==
  ASSUME CatalogueInv, [P!Next]_productVars
  PROVE  P!TakesNothing
<1>1. CASE UNCHANGED productVars \/ P!Ask
  <2>1. requests \subseteq requests'
    BY <1>1 DEF productVars, P!Ask, P!CheckCreate, P!CheckUpdate, P!CheckAddBarcode,
                P!RemoveBarcode, P!SoftDelete, P!PlanImport, P!Asked
  <2> QED
    BY <2>1 DEF P!TakesNothing
<1>2. ASSUME NEW r \in requests,
             P!WriteCreate(r) \/ P!WriteUpdate(r) \/ P!WriteAddBarcode(r) \/ P!ApplyImport(r)
      PROVE  P!TakesNothing
  <2>1. requests' = requests \ {r}
    BY <1>2, WriteInv
  <2>2. CASE r.kind # "import"
    BY <2>1, <2>2 DEF P!TakesNothing
  <2>3. ASSUME r.kind = "import", main' # main
        PROVE  /\ \A p \in DOMAIN main : main'[p] # main[p] =>
                    \E i \in DOMAIN r.file : r.file[i] = [product |-> p, code |-> main'[p]]
               /\ \A i \in DOMAIN r.file :
                    r.file[i].code # None => main'[r.file[i].product] = r.file[i].code
    <3>1. P!ApplyImport(r)
      BY <1>2, <2>3 DEF P!WriteCreate, P!WriteUpdate, P!WriteAddBarcode
    <3>2. AfterRows(r.file, main', Len(r.file)) /\ r.file \in Files
      BY <2>3, <3>1, ImportApplied
    <3>3. DOMAIN r.file = 1..Len(r.file)
      BY <3>2 DEF Files
    <3> QED
      BY <3>2, <3>3 DEF AfterRows
  <2> QED
    BY <2>1, <2>2, <2>3 DEF P!TakesNothing, P!Existing
<1> QED
  BY <1>1, <1>2 DEF P!Next, P!Write

-----------------------------------------------------------------------------
(* The same, with nothing between check and write: a scan finds the owner. *)

\* The checks of the request hold until it is written.
StillFree(r) ==
  /\ r.kind = "create" => r.code = None \/ P!BarcodeFree(r.code)
  /\ r.kind = "update" => r.code \in {None, main[r.product]} \/ P!BarcodeFree(r.code)
  /\ r.kind = "extra" => P!BarcodeFree(r.code)
  /\ r.kind = "import" => \A i \in DOMAIN r.file : P!RowFree(r.file[i])

ScanInv ==
  /\ CatalogueInv
  /\ \A p \in DOMAIN main : main[p] \notin DOMAIN extra
  /\ \A r, q \in requests : r = q
  /\ \A r \in requests : StillFree(r)

LEMMA ScanGives == ScanInv => P!ScanFindsOwner
<1> SUFFICES ASSUME ScanInv PROVE P!ScanFindsOwner
  OBVIOUS
<1>1. sold \subseteq DOMAIN main /\ Unique(main)
  BY DEF ScanInv, CatalogueInv
<1>2. ASSUME NEW p \in sold, main[p] # None
      PROVE  P!Scan(main[p]) = {p}
  <2>1. main[p] \notin DOMAIN extra
    BY <1>1 DEF ScanInv
  <2>2. \A q \in sold : main[q] = main[p] => q = p
    BY <1>1, <1>2 DEF Unique
  <2> QED
    BY <2>1, <2>2 DEF P!Scan
<1>3. ASSUME NEW c \in DOMAIN extra, extra[c] \in sold
      PROVE  P!Scan(c) = {extra[c]}
  BY <1>3 DEF P!Scan
<1> QED
  BY <1>2, <1>3 DEF P!ScanFindsOwner

LEMMA ScanStep ==
  ASSUME ScanInv, [P!UndisturbedNext]_productVars
  PROVE  ScanInv'
<1>1. CatalogueInv /\ CatalogueInv' /\ NoneApart
  <2>1. [P!Next]_productVars
    BY DEF P!UndisturbedNext, P!Next
  <2> QED
    BY <2>1, CatalogueStep, CatalogueAssumption DEF ScanInv, P!CatalogueAssumption, NoneApart
<1>2. CASE UNCHANGED productVars
  BY <1>1, <1>2 DEF productVars, ScanInv, StillFree, P!BarcodeFree, P!IsMain, P!RowFree, P!Existing
<1>3. CASE requests = {} /\ P!Ask
  <2>1. ASSUME NEW r, P!Asked(r), StillFree(r)
        PROVE  ScanInv'
    <3>1. requests' = {r} /\ UNCHANGED <<main, sold, extra>>
      BY <1>3, <2>1 DEF P!Asked
    <3>2. StillFree(r)'
      BY <2>1, <3>1 DEF StillFree, P!BarcodeFree, P!IsMain, P!RowFree, P!Existing
    <3> QED
      BY <1>1, <3>1, <3>2 DEF ScanInv
  <2>2. ASSUME NEW p \in Products, NEW c \in Codes, P!CheckCreate(p, c)
        PROVE  ScanInv'
    BY <2>1, <2>2 DEF P!CheckCreate, StillFree
  <2>3. ASSUME NEW p \in Products, NEW c \in Codes, NEW a \in BOOLEAN, P!CheckUpdate(p, c, a)
        PROVE  ScanInv'
    BY <2>1, <2>3 DEF P!CheckUpdate, StillFree
  <2>4. ASSUME NEW p \in Products, NEW c \in Barcodes, P!CheckAddBarcode(p, c)
        PROVE  ScanInv'
    BY <2>1, <2>4 DEF P!CheckAddBarcode, StillFree
  <2>5. ASSUME NEW n \in 1..FileRows, NEW file \in [1..n -> P!Row], P!PlanImport(file)
        PROVE  ScanInv'
    BY <2>1, <2>5 DEF P!PlanImport, StillFree
  <2>6. ASSUME NEW p, NEW c, P!RemoveBarcode(p, c)
        PROVE  ScanInv'
    BY <1>1, <1>3, <2>6 DEF P!RemoveBarcode, ScanInv
  <2>7. ASSUME NEW p, P!SoftDelete(p)
        PROVE  ScanInv'
    BY <1>1, <1>3, <2>7 DEF P!SoftDelete, ScanInv
  <2>8. Barcodes \union {None} = Codes
    BY DEF Codes
  <2> QED
    BY <1>3, <2>2, <2>3, <2>4, <2>5, <2>6, <2>7, <2>8 DEF P!Ask
<1>4. ASSUME NEW r \in requests,
             P!WriteCreate(r) \/ P!WriteUpdate(r) \/ P!WriteAddBarcode(r) \/ P!ApplyImport(r)
      PROVE  ScanInv'
  <2>1. requests' = {} /\ StillFree(r) /\ r \in Asking
    BY <1>4, WriteInv DEF ScanInv, CatalogueInv
  <2>2. SUFFICES \A p \in DOMAIN main' : main'[p] \notin DOMAIN extra'
    BY <1>1, <2>1 DEF ScanInv
  <2>3. None \notin DOMAIN extra /\ None \notin DOMAIN extra'
    BY <1>1 DEF CatalogueInv, NoneApart
  <2>4. ASSUME P!WriteCreate(r), NEW p \in DOMAIN main'
        PROVE  main'[p] \notin DOMAIN extra'
    <3>1. (p \in DOMAIN main /\ main'[p] = main[p]) \/ main'[p] = r.code
      BY <2>4 DEF P!WriteCreate, P!With
    <3> QED
      BY <2>1, <2>3, <2>4, <3>1 DEF P!WriteCreate, StillFree, P!BarcodeFree, ScanInv
  <2>5. ASSUME P!WriteUpdate(r), NEW p \in DOMAIN main'
        PROVE  main'[p] \notin DOMAIN extra'
    <3>1. p \in DOMAIN main /\ (main'[p] = main[p] \/ main'[p] = r.code)
      BY <2>5 DEF P!WriteUpdate
    <3>2. r.product \in DOMAIN main
      BY <2>1, <2>5 DEF Asking, P!WriteUpdate
    <3> QED
      BY <2>1, <2>3, <2>5, <3>1, <3>2 DEF P!WriteUpdate, StillFree, P!BarcodeFree, ScanInv
  <2>6. ASSUME P!WriteAddBarcode(r), NEW p \in DOMAIN main'
        PROVE  main'[p] \notin DOMAIN extra'
    <3>1. main' = main /\ \A q \in DOMAIN main : main[q] # r.code
      BY <2>1, <2>6 DEF P!WriteAddBarcode, StillFree, P!BarcodeFree, P!IsMain, P!Existing
    <3>2. DOMAIN extra' \subseteq DOMAIN extra \union {r.code}
      BY <2>6 DEF P!WriteAddBarcode, P!With
    <3> QED
      BY <3>1, <3>2 DEF ScanInv
  <2>7. ASSUME P!ApplyImport(r), NEW p \in DOMAIN main'
        PROVE  main'[p] \notin DOMAIN extra'
    <3>1. extra' = extra /\ r.kind = "import"
      BY <2>7 DEF P!ApplyImport
    <3>2. r.file \in Files /\ (main' = main \/ AfterRows(r.file, main', Len(r.file)))
      BY <1>1, <2>7, ImportApplied
    <3>3. DOMAIN r.file = 1..Len(r.file)
      BY <3>2 DEF Files
    <3>4. CASE p \in DOMAIN main /\ main'[p] = main[p]
      BY <3>1, <3>4 DEF ScanInv
    <3>5. ASSUME NEW i \in DOMAIN r.file, r.file[i] = [product |-> p, code |-> main'[p]]
          PROVE  main'[p] \notin DOMAIN extra'
      BY <2>1, <2>3, <3>1, <3>5 DEF StillFree, P!RowFree
    <3> QED
      BY <2>7, <3>2, <3>3, <3>4, <3>5 DEF AfterRows
  <2> QED
    BY <1>4, <2>4, <2>5, <2>6, <2>7
<1> QED
  BY <1>2, <1>3, <1>4 DEF P!UndisturbedNext, P!Write

ProductParts == {"products", "products alone"}

LEMMA CataloguePart ==
  CompanySpec => /\ [](part \in ProductParts => CatalogueInv)
                 /\ [][(part \in ProductParts) => P!TakesNothing]_companyVars
<1> DEFINE Inv == part \in ProductParts => CatalogueInv
<1>1. CompanyInit => Inv
  BY CatalogueStarts DEF CompanyInit
<1>2. Inv /\ [CompanyNext]_companyVars => Inv' /\ (part \in ProductParts => P!TakesNothing)
  <2> SUFFICES ASSUME Inv, [CompanyNext]_companyVars, part \in ProductParts
               PROVE  CatalogueInv' /\ P!TakesNothing
    BY DEF CompanyNext, companyVars
  <2>1. [P!Next]_productVars
    BY DEF ProductParts, CompanyNext, ProductsNext, companyVars, P!UndisturbedNext, P!Next
  <2> QED
    BY <2>1, CatalogueStep, OnlyWritesEnd
<1> QED
  BY <1>1, <1>2, PTL DEF CompanySpec

LEMMA ScanPart == CompanySpec => [](part = "products alone" => ScanInv)
<1> DEFINE Inv == part = "products alone" => ScanInv
<1>1. CompanyInit => Inv
  <2> SUFFICES ASSUME P!Init PROVE ScanInv
    BY DEF CompanyInit
  <2>1. main = <<>> /\ requests = {}
    BY DEF P!Init
  <2>2. DOMAIN main = {}
    BY <2>1
  <2> QED
    BY <2>1, <2>2, CatalogueStarts DEF ScanInv
<1>2. Inv /\ [CompanyNext]_companyVars => Inv'
  BY ScanStep DEF CompanyNext, ProductsNext, companyVars
<1> QED
  BY <1>1, <1>2, PTL DEF CompanySpec

LEMMA CatalogueGives == CatalogueInv => P!CatalogueTypeOK
<1> SUFFICES ASSUME CatalogueInv PROVE P!CatalogueTypeOK
  OBVIOUS
<1>1. DOMAIN main \subseteq Products /\ \A p \in DOMAIN main : main[p] \in Codes
  BY TableIs DEF CatalogueInv
<1> QED
  BY <1>1, ExtraIs DEF CatalogueInv, P!CatalogueTypeOK, P!Existing, Unique, Codes

-----------------------------------------------------------------------------
LEMMA RowAndColumn ==
  ASSUME NEW p \in Nat, NEW v \in Nat \ {0}, NEW i \in 1..(p * v)
  PROVE  /\ (i - 1) \div v \in 0..(p - 1) /\ (i - 1) % v \in 0..(v - 1)
         /\ i = ((i - 1) \div v) * v + ((i - 1) % v) + 1
<1> DEFINE q == (i - 1) \div v
           r == (i - 1) % v
<1>1. q \in Int /\ r \in 0..(v - 1) /\ i - 1 = v * q + r
  OBVIOUS
<1> HIDE DEF q, r
<1>2. q >= 0
  <2> SUFFICES ASSUME q < 0 PROVE FALSE
    BY <1>1
  <2>1. v * q <= 0 - v
    BY <1>1
  <2> QED
    BY <1>1, <2>1
<1>3. q < p
  <2> SUFFICES ASSUME q >= p PROVE FALSE
    BY <1>1
  <2>1. v * q >= v * p /\ v * p = p * v
    BY <1>1
  <2> QED
    BY <1>1, <2>1
<1>4. v * q = q * v
  BY <1>1
<1> QED
  BY <1>1, <1>2, <1>3, <1>4 DEF q, r

LEMMA PlaceOf ==
  ASSUME NEW p \in Nat, NEW v \in Nat \ {0}, NEW k \in 1..p, NEW m \in 1..v
  PROVE  LET i == (k - 1) * v + m
         IN  i \in 1..(p * v) /\ (i - 1) \div v = k - 1 /\ (i - 1) % v = m - 1
<1> DEFINE i == (k - 1) * v + m
           q == (i - 1) \div v
           r == (i - 1) % v
           a == (k - 1) * v
<1>1. a \in Nat /\ a <= (p - 1) * v /\ (p - 1) * v = p * v - v
  OBVIOUS
<1>2. i \in 1..(p * v)
  BY <1>1
<1>3. q \in Int /\ r \in 0..(v - 1) /\ i - 1 = v * q + r
  OBVIOUS
<1> HIDE DEF q, r
<1>4. (k - 1) * v - q * v = r - (m - 1)
  BY <1>1, <1>3
<1>5. (k - 1 - q) * v = r - (m - 1)
  BY <1>3, <1>4
<1>6. k - 1 - q < 1
  <2> SUFFICES ASSUME k - 1 - q >= 1 PROVE FALSE
    BY <1>3
  <2>1. (k - 1 - q) * v >= v
    BY <1>3
  <2> QED
    BY <1>3, <1>5, <2>1
<1>7. k - 1 - q > 0 - 1
  <2> SUFFICES ASSUME k - 1 - q <= 0 - 1 PROVE FALSE
    BY <1>3
  <2>1. (k - 1 - q) * v <= 0 - v
    BY <1>3
  <2> QED
    BY <1>3, <1>5, <2>1
<1>8. q = k - 1
  BY <1>3, <1>6, <1>7
<1>9. r = m - 1
  BY <1>3, <1>4, <1>8
<1> QED
  BY <1>2, <1>8, <1>9 DEF q, r

PlacesIn(p, v) ==
  \A k \in 1..p, m \in 1..v :
    LET i == (k - 1) * v + m
    IN  i \in 1..(p * v) /\ (i - 1) \div v = k - 1 /\ (i - 1) % v = m - 1

LEMMA PlaceIs == \A p \in Nat, v \in Nat \ {0} : PlacesIn(p, v)
BY PlaceOf DEF PlacesIn

-----------------------------------------------------------------------------
(* Generated locations: the nodes of the levels. *)

CodeParts == [letter : BOOLEAN, n : Nat, width : Nat]
LocationCodes == Seq(CodeParts)
LevelShapes == [letter : BOOLEAN, start : Nat, width : Nat, count : Nat \ {0}]
Nodes == [code : LocationCodes, parent : LocationCodes]

LEMMA ValuesOfLevel ==
  ASSUME NEW level \in LevelShapes
  PROVE  LET values == G!SequenceValues(level)
         IN  /\ values \in Seq(CodeParts) /\ Len(values) = level.count
             /\ \A i \in 1..level.count : values[i] = G!Part(level, i) /\ values[i] \in CodeParts
             /\ \A i, j \in 1..level.count : values[i] = values[j] => i = j
<1> DEFINE values == G!SequenceValues(level)
<1>1. level.count \in Nat /\ level.start \in Nat /\ level.width \in Nat /\ level.letter \in BOOLEAN
  BY DEF LevelShapes
<1>2. ASSUME NEW i \in 1..level.count
      PROVE  G!Part(level, i) \in CodeParts /\ G!Part(level, i).n = level.start + i - 1
  BY <1>1 DEF G!Part, CodeParts, G!Greatest, G!Digits
<1>3. values = [i \in 1..level.count |-> G!Part(level, i)]
  BY DEF G!SequenceValues
<1> HIDE DEF values
<1>4. values \in Seq(CodeParts) /\ Len(values) = level.count
  BY <1>1, <1>2, <1>3
<1>5. \A i, j \in 1..level.count : values[i] = values[j] => i = j
  <2> SUFFICES ASSUME NEW i \in 1..level.count, NEW j \in 1..level.count, values[i] = values[j]
               PROVE  i = j
    OBVIOUS
  <2>1. level.start + i - 1 = level.start + j - 1
    BY <1>2, <1>3
  <2> QED
    BY <1>1, <2>1
<1> QED
  BY <1>2, <1>3, <1>4, <1>5 DEF values

\* The rows of a level: value m below parent k, in this order.
Place(values, k, m) == (k - 1) * Len(values) + m

Longer(code, value) == Append(code, value)

LEMMA LongerCode ==
  ASSUME NEW a \in LocationCodes, NEW x \in CodeParts
  PROVE  /\ Longer(a, x) \in LocationCodes /\ Len(Longer(a, x)) = Len(a) + 1
         /\ \A b \in LocationCodes, y \in CodeParts :
              Longer(a, x) = Longer(b, y) => a = b /\ x = y
BY AppendProperties, AppendInjective DEF LocationCodes, Longer

Below(parent, value) == [code |-> Longer(parent, value), parent |-> parent]

IsLevelBelow(level, parents, values) ==
  /\ level \in Seq(Nodes) /\ Len(level) = Len(parents) * Len(values)
  /\ \A i \in 1..Len(level) : \E k \in 1..Len(parents), m \in 1..Len(values) :
       i = Place(values, k, m) /\ level[i] = Below(parents[k], values[m])
  /\ \A k \in 1..Len(parents), m \in 1..Len(values) : \E i \in 1..Len(level) :
       i = Place(values, k, m) /\ level[i] = Below(parents[k], values[m])

LEMMA LevelBelowIs ==
  ASSUME NEW parents \in Seq(LocationCodes), NEW values \in Seq(CodeParts), Len(values) > 0
  PROVE  IsLevelBelow(G!LevelBelow(parents, values), parents, values)
<1> DEFINE P_ == Len(parents)
           V == Len(values)
           level == G!LevelBelow(parents, values)
           node(k, m) == [code |-> Append(parents[k], values[m]), parent |-> parents[k]]
<1>1. P_ \in Nat /\ V \in Nat \ {0} /\ P_ * V \in Nat
  OBVIOUS
<1>2. level = [i \in 1..(P_ * V) |-> node(1 + ((i - 1) \div V), 1 + ((i - 1) % V))]
  BY DEF G!LevelBelow
<1>3. ASSUME NEW k \in 1..P_, NEW m \in 1..V
      PROVE  node(k, m) \in Nodes
  <2>1. parents[k] \in LocationCodes /\ values[m] \in CodeParts
    OBVIOUS
  <2>2. Append(parents[k], values[m]) \in LocationCodes
    BY <2>1 DEF LocationCodes
  <2> QED
    BY <2>1, <2>2 DEF Nodes
<1>4. ASSUME NEW i \in 1..(P_ * V)
      PROVE  \E k \in 1..P_, m \in 1..V :
               i = (k - 1) * V + m /\ k = 1 + ((i - 1) \div V) /\ m = 1 + ((i - 1) % V)
  <2>1. /\ (i - 1) \div V \in 0..(P_ - 1) /\ (i - 1) % V \in 0..(V - 1)
        /\ i = ((i - 1) \div V) * V + ((i - 1) % V) + 1
    BY <1>1, RowAndColumn
  <2> DEFINE q == (i - 1) \div V
             r == (i - 1) % V
  <2>2. q \in 0..(P_ - 1) /\ r \in 0..(V - 1) /\ i = q * V + r + 1
    BY <2>1
  <2> HIDE DEF q, r
  <2>3. 1 + q \in 1..P_ /\ 1 + r \in 1..V /\ (1 + q) - 1 = q
    BY <1>1, <2>2
  <2>4. i = ((1 + q) - 1) * V + (1 + r)
    BY <1>1, <2>2, <2>3
  <2> QED
    BY <2>3, <2>4 DEF q, r
<1> HIDE DEF level, node
<1>5. ASSUME NEW i \in 1..(P_ * V)
      PROVE  \E k \in 1..P_, m \in 1..V : i = (k - 1) * V + m /\ level[i] = node(k, m)
  BY <1>2, <1>4
<1>6. ASSUME NEW k \in 1..P_, NEW m \in 1..V
      PROVE  \E i \in 1..(P_ * V) : i = (k - 1) * V + m /\ level[i] = node(k, m)
  <2> DEFINE i == (k - 1) * V + m
  <2>1. i \in 1..(P_ * V) /\ (i - 1) \div V = k - 1 /\ (i - 1) % V = m - 1
    <3>1. P_ \in Nat /\ V \in Nat \ {0}
      BY <1>1
    <3>2. PlacesIn(P_, V)
      BY ONLY <3>1, PlaceIs
    <3> QED
      BY <3>2 DEF PlacesIn
  <2>2. 1 + (k - 1) = k /\ 1 + (m - 1) = m
    BY ONLY k \in 1..P_, m \in 1..V
  <2>3. level[i] = node(k, m)
    BY <1>2, <2>1, <2>2
  <2> QED
    BY <2>1, <2>3
<1>7. level \in [1..(P_ * V) -> Nodes]
  BY <1>2, <1>3, <1>4
<1>8. level \in Seq(Nodes) /\ Len(level) = P_ * V
  BY <1>1, <1>7
<1>9. IsLevelBelow(level, parents, values)
  <2> USE DEF node
  <2>1. Len(level) = P_ * V /\ level \in Seq(Nodes)
    BY <1>8
  <2>2. \A i \in 1..Len(level) : \E k \in 1..P_, m \in 1..V : i = (k - 1) * V + m /\ level[i] = node(k, m)
    BY <1>5, <2>1
  <2>3. \A k \in 1..P_, m \in 1..V : \E i \in 1..Len(level) : i = (k - 1) * V + m /\ level[i] = node(k, m)
    BY <1>6, <2>1
  <2> QED
    BY <2>1, <2>2, <2>3 DEF IsLevelBelow, Place, Below, Longer
<1> QED
  BY <1>9 DEF level

-----------------------------------------------------------------------------
(* What is expanded, and counted, level by level. *)

Expansions == [nodes : Seq(Nodes), parents : Seq(LocationCodes)]

Deeper(above, shape) ==
  LET level == G!LevelBelow(above.parents, G!SequenceValues(shape))
  IN  [nodes |-> above.nodes \o level, parents |-> [i \in DOMAIN level |-> level[i].code]]

LEMMA DeeperIs ==
  ASSUME NEW above \in Expansions, NEW shape \in LevelShapes
  PROVE  Deeper(above, shape) \in Expansions
<1> DEFINE level == G!LevelBelow(above.parents, G!SequenceValues(shape))
<1>1. IsLevelBelow(level, above.parents, G!SequenceValues(shape))
  BY ValuesOfLevel, LevelBelowIs DEF Expansions, LevelShapes
<1> HIDE DEF level
<1>2. level \in Seq(Nodes)
  BY <1>1 DEF IsLevelBelow
<1>3. \A i \in DOMAIN level : level[i].code \in LocationCodes
  <2>1. \A i \in DOMAIN level : level[i] \in Nodes
    BY <1>2
  <2> QED
    BY <2>1 DEF Nodes
<1>4. [i \in DOMAIN level |-> level[i].code] \in Seq(LocationCodes)
  BY <1>2, <1>3
<1>5. above.nodes \o level \in Seq(Nodes)
  BY <1>2 DEF Expansions
<1> QED
  BY <1>4, <1>5 DEF Deeper, Expansions, level

LEMMA ExpandedByLevel ==
  ASSUME NEW root \in LocationCodes, NEW levels \in Seq(LevelShapes)
  PROVE  \E below \in [0..Len(levels) -> Expansions] :
           /\ below[0] = [nodes |-> <<>>, parents |-> <<root>>]
           /\ \A d \in 1..Len(levels) : below[d] = Deeper(below[d - 1], levels[d])
           /\ G!ExpandLevels(root, levels) = below[Len(levels)].nodes
<1> DEFINE size == Len(levels)
           base == [nodes |-> <<>>, parents |-> <<root>>]
           Body(g) == [d \in 0..size |-> IF d = 0 THEN base ELSE Deeper(g[d - 1], levels[d])]
           step == [s \in Expansions \X (1..size) |-> Deeper(s[1], levels[s[2]])]
<1>1. size \in Nat /\ \A d \in 1..size : levels[d] \in LevelShapes
  OBVIOUS
<1>2. base \in Expansions
  BY DEF Expansions
<1>3. step \in [Expansions \X (1..size) -> Expansions]
  BY <1>1, DeeperIs
<1> HIDE DEF base
<1>4. PICK h : Sums!IsComputed(h, Expansions, base, step, size)
  <2> HIDE DEF step, size
  <2> QED
    BY <1>1, <1>2, <1>3, Sums!ComputedExists
<1>5. /\ h \in [0..size -> Expansions] /\ h[0] = base
      /\ \A d \in 1..size : h[d] = Deeper(h[d - 1], levels[d])
  <2>1. h \in [0..size -> Expansions] /\ h[0] = base /\ \A d \in 1..size : h[d] = step[<<h[d - 1], d>>]
    BY <1>4 DEF Sums!IsComputed
  <2>2. ASSUME NEW d \in 1..size
        PROVE  h[d] = Deeper(h[d - 1], levels[d])
    <3>1. d - 1 \in 0..size
      BY <1>1
    <3>2. <<h[d - 1], d>> \in Expansions \X (1..size)
      BY <2>1, <3>1
    <3> QED
      BY <2>1, <3>2
  <2> QED
    BY <2>1, <2>2
<1>6. h = Body(h)
  <2> HIDE DEF step
  <2>1. \A d \in 0..size : d # 0 => d \in 1..size
    BY <1>1
  <2> QED
    BY <1>5, <2>1
<1> DEFINE below == CHOOSE g : g = Body(g)
<1>7. below = Body(below)
  <2> HIDE DEF Body
  <2> QED
    BY <1>6
<1>8. G!ExpandLevels(root, levels) = below[size].nodes
  BY DEF G!ExpandLevels, Deeper, base
<1> HIDE DEF below
<1>9. /\ below[0] = base
      /\ \A d \in 1..size : below[d] = Deeper(below[d - 1], levels[d])
  <2>1. \A d \in 0..size : below[d] = IF d = 0 THEN base ELSE Deeper(below[d - 1], levels[d])
    BY <1>7
  <2> HIDE DEF Body
  <2> QED
    BY <1>1, <2>1
<1>10. below \in [0..size -> Expansions]
  <2>1. DOMAIN below = 0..size /\ below = [d \in 0..size |-> below[d]]
    BY <1>7
  <2> HIDE DEF Body
  <2> DEFINE T == {d \in 0..size : below[d] \in Expansions}
  <2>2. 0 \in T
    BY <1>1, <1>2, <1>9
  <2>3. \A d \in 1..size : d - 1 \in T => d \in T
    BY <1>1, <1>9, DeeperIs
  <2>4. \A d \in 0..size : d \in T
    <3> HIDE DEF T
    <3> QED
      BY <1>1, <2>2, <2>3, Sums!UpTo
  <2> QED
    BY <2>1, <2>4
<1> QED
  BY <1>8, <1>9, <1>10 DEF base

LEMMA CountedByLevel ==
  ASSUME NEW levels \in Seq(LevelShapes)
  PROVE  \E atDepth \in [0..Len(levels) -> Nat \ {0}] :
           /\ atDepth[0] = 1
           /\ \A d \in 1..Len(levels) : atDepth[d] = atDepth[d - 1] * levels[d].count
           /\ G!CountGeneratedLocations(levels) = Sums!Total(atDepth, Len(levels))
<1> DEFINE size == Len(levels)
           Some == Nat \ {0}
           Body(g) == [d \in 0..size |-> IF d = 0 THEN 1 ELSE g[d - 1] * levels[d].count]
           step == [s \in Some \X (1..size) |-> s[1] * levels[s[2]].count]
<1>1. size \in Nat /\ \A d \in 1..size : levels[d].count \in Some
  <2>1. size \in Nat /\ \A d \in 1..size : levels[d] \in LevelShapes
    OBVIOUS
  <2> QED
    BY <2>1 DEF LevelShapes
<1>2. \A m, n \in Some : m * n \in Some
  OBVIOUS
<1>3. step \in [Some \X (1..size) -> Some] /\ 1 \in Some
  <2> HIDE DEF Some
  <2> QED
    BY <1>1, <1>2 DEF Some
<1> HIDE DEF Some
<1>4. PICK h : Sums!IsComputed(h, Some, 1, step, size)
  <2> HIDE DEF step, size
  <2> QED
    BY <1>1, <1>3, Sums!ComputedExists
<1>5. /\ h \in [0..size -> Some] /\ h[0] = 1
      /\ \A d \in 1..size : h[d] = h[d - 1] * levels[d].count
  <2>1. h \in [0..size -> Some] /\ h[0] = 1 /\ \A d \in 1..size : h[d] = step[<<h[d - 1], d>>]
    BY <1>4 DEF Sums!IsComputed
  <2>2. ASSUME NEW d \in 1..size
        PROVE  h[d] = h[d - 1] * levels[d].count
    <3>1. d - 1 \in 0..size
      BY <1>1
    <3>2. <<h[d - 1], d>> \in Some \X (1..size)
      BY <2>1, <3>1
    <3> QED
      BY <2>1, <3>2
  <2> QED
    BY <2>1, <2>2
<1>6. h = Body(h)
  <2> HIDE DEF step
  <2>1. \A d \in 0..size : d # 0 => d \in 1..size
    BY <1>1
  <2> QED
    BY <1>5, <2>1
<1> DEFINE atDepth == CHOOSE g : g = Body(g)
<1>7. atDepth = Body(atDepth)
  <2> HIDE DEF Body
  <2> QED
    BY <1>6
<1>8. G!CountGeneratedLocations(levels) = Sums!Total(atDepth, size)
  BY DEF G!CountGeneratedLocations, G!Total, Sums!Total
<1> HIDE DEF atDepth
<1>9. /\ atDepth[0] = 1
      /\ \A d \in 1..size : atDepth[d] = atDepth[d - 1] * levels[d].count
  <2>1. \A d \in 0..size : atDepth[d] = IF d = 0 THEN 1 ELSE atDepth[d - 1] * levels[d].count
    BY <1>7
  <2> HIDE DEF Body
  <2> QED
    BY <1>1, <2>1
<1>10. atDepth \in [0..size -> Some]
  <2>1. DOMAIN atDepth = 0..size /\ atDepth = [d \in 0..size |-> atDepth[d]]
    BY <1>7
  <2> HIDE DEF Body
  <2> DEFINE T == {d \in 0..size : atDepth[d] \in Some}
  <2>2. 0 \in T
    BY <1>1, <1>3, <1>9
  <2>3. \A d \in 1..size : d - 1 \in T => d \in T
    BY <1>1, <1>2, <1>9
  <2>4. \A d \in 0..size : d \in T
    <3> HIDE DEF T
    <3> QED
      BY <1>1, <2>2, <2>3, Sums!UpTo
  <2> QED
    BY <2>1, <2>4
<1> QED
  BY <1>8, <1>9, <1>10 DEF Some

-----------------------------------------------------------------------------
(* The nodes are the paths. *)

\* The paths that end at a depth (Paths is all of them).
Choices(levels, n) ==
  {f \in [1..n -> 1..MostGenerated] : \A d \in 1..n : f[d] <= levels[d].count}

PathOf(root, levels, n, choice) == root \o [d \in 1..n |-> G!Part(levels[d], choice[d])]

PathsAt(root, levels, n) == {PathOf(root, levels, n, choice) : choice \in Choices(levels, n)}

LEMMA PathsByDepth ==
  ASSUME NEW root, NEW levels
  PROVE  G!Paths(root, levels) = UNION {PathsAt(root, levels, n) : n \in 1..Len(levels)}
BY DEF G!Paths, PathsAt, PathOf, Choices

LEMMA LongerPath ==
  ASSUME NEW root \in LocationCodes, NEW n \in Nat, NEW g \in [1..(n + 1) -> CodeParts], NEW h,
         h = [d \in 1..n |-> g[d]]
  PROVE  root \o g = Append(root \o h, g[n + 1])
<1>1. root \in Seq(CodeParts) /\ g \in Seq(CodeParts) /\ h \in Seq(CodeParts)
      /\ Len(g) = n + 1 /\ Len(h) = n /\ Len(root) \in Nat /\ g[n + 1] \in CodeParts
  BY DEF LocationCodes
<1>2. /\ root \o g \in Seq(CodeParts) /\ Len(root \o g) = Len(root) + n + 1
      /\ \A i \in 1..(Len(root) + n + 1) :
           (root \o g)[i] = IF i <= Len(root) THEN root[i] ELSE g[i - Len(root)]
  <2>1. /\ root \o g \in Seq(CodeParts) /\ Len(root \o g) = Len(root) + Len(g)
        /\ \A i \in 1..(Len(root) + Len(g)) :
             (root \o g)[i] = IF i <= Len(root) THEN root[i] ELSE g[i - Len(root)]
    BY <1>1, ConcatProperties
  <2>2. Len(root) + Len(g) = Len(root) + n + 1
    BY <1>1
  <2> QED
    BY <2>1, <2>2
<1>3. /\ root \o h \in Seq(CodeParts) /\ Len(root \o h) = Len(root) + n
      /\ \A i \in 1..(Len(root) + n) :
           (root \o h)[i] = IF i <= Len(root) THEN root[i] ELSE h[i - Len(root)]
  BY <1>1, ConcatProperties
<1> DEFINE a == Append(root \o h, g[n + 1])
<1>4. /\ a \in Seq(CodeParts) /\ Len(a) = Len(root) + n + 1
      /\ \A i \in 1..(Len(root) + n) : a[i] = (root \o h)[i]
      /\ a[Len(root) + n + 1] = g[n + 1]
  BY <1>1, <1>3, AppendProperties
<1> HIDE DEF a
<1>5. ASSUME NEW i \in 1..(Len(root) + n + 1)
      PROVE  (root \o g)[i] = a[i]
  <2>1. CASE i = Len(root) + n + 1
    <3>1. i - Len(root) = n + 1 /\ ~(i <= Len(root))
      BY <1>1, <2>1
    <3> QED
      BY <1>2, <1>4, <2>1, <3>1
  <2>2. CASE i <= Len(root)
    <3>1. i \in 1..(Len(root) + n)
      BY <1>1, <2>2
    <3>2. (root \o g)[i] = root[i]
      BY <1>2, <2>2
    <3>3. a[i] = (root \o h)[i]
      BY <1>4, <3>1
    <3>4. (root \o h)[i] = root[i]
      BY <1>3, <2>2, <3>1
    <3> QED
      BY <3>2, <3>3, <3>4
  <2>3. CASE i # Len(root) + n + 1 /\ ~(i <= Len(root))
    <3>1. i - Len(root) \in 1..n /\ i \in 1..(Len(root) + n)
      BY <1>1, <2>3
    <3>2. h[i - Len(root)] = g[i - Len(root)]
      BY <3>1
    <3> QED
      BY <1>2, <1>3, <1>4, <2>3, <3>1, <3>2
  <2> QED
    BY <2>1, <2>2, <2>3
<1>6. root \o g = a
  BY <1>2, <1>4, <1>5, SeqEqual
<1> QED
  BY <1>6 DEF a

LEMMA NoPath ==
  ASSUME NEW root \in LocationCodes, NEW levels
  PROVE  PathsAt(root, levels, 0) = {root}
<1>1. \A choice : PathOf(root, levels, 0, choice) = root
  <2> TAKE choice
  <2> DEFINE g == [d \in 1..0 |-> G!Part(levels[d], choice[d])]
  <2>1. g = <<>>
    OBVIOUS
  <2>2. root \o <<>> = root
    BY ConcatEmptySeq DEF LocationCodes
  <2> QED
    BY <2>1, <2>2 DEF PathOf
<1>2. [d \in 1..0 |-> 1] \in Choices(levels, 0)
  BY DEF Choices
<1> QED
  BY <1>1, <1>2 DEF PathsAt

\* The paths of the next depth, if the counts are within the limit.
LEMMA PathsNext ==
  ASSUME NEW root \in LocationCodes, NEW levels \in Seq(LevelShapes), NEW n \in Nat,
         n + 1 <= Len(levels), levels[n + 1].count <= MostGenerated
  PROVE  \A x : x \in PathsAt(root, levels, n + 1) <=>
           \E p \in PathsAt(root, levels, n), m \in 1..levels[n + 1].count :
             x = Longer(p, G!Part(levels[n + 1], m))
<1> DEFINE count == levels[n + 1].count
           last(m) == G!Part(levels[n + 1], m)
<1>1. /\ \A d \in 1..(n + 1) : levels[d] \in LevelShapes
      /\ \A d \in 1..(n + 1) : levels[d].count \in Nat \ {0}
      /\ n + 1 \in 1..(n + 1) /\ count \in Nat \ {0} /\ MostGenerated \in Nat
  <2>1. \A d \in 1..(n + 1) : levels[d] \in LevelShapes
    <3>1. \A d \in 1..(n + 1) : d \in 1..Len(levels)
      OBVIOUS
    <3> QED
      BY <3>1
  <2>2. MostGenerated \in Nat
    BY GeneratorAssumption DEF G!GeneratorAssumption
  <2>3. \A d \in 1..(n + 1) : levels[d].count \in Nat \ {0}
    BY ONLY <2>1 DEF LevelShapes
  <2>4. n + 1 \in 1..(n + 1)
    BY ONLY n \in Nat
  <2> QED
    BY <2>1, <2>2, <2>3, <2>4
<1>2. ASSUME NEW d \in 1..(n + 1), NEW m \in 1..levels[d].count
      PROVE  G!Part(levels[d], m) \in CodeParts
  <2>1. levels[d] \in LevelShapes
    BY <1>1
  <2> QED
    BY <2>1, ValuesOfLevel
<1>3. ASSUME NEW f \in Choices(levels, n + 1)
      PROVE  \E p \in PathsAt(root, levels, n), m \in 1..count :
               PathOf(root, levels, n + 1, f) = Longer(p, last(m))
  <2> DEFINE g == [d \in 1..(n + 1) |-> G!Part(levels[d], f[d])]
             e == [d \in 1..n |-> f[d]]
             h == [d \in 1..n |-> G!Part(levels[d], e[d])]
  <2>1. f \in [1..(n + 1) -> 1..MostGenerated] /\ \A d \in 1..(n + 1) : f[d] <= levels[d].count
    BY DEF Choices
  <2>2. \A d \in 1..(n + 1) : f[d] \in 1..levels[d].count
    BY <1>1, <2>1
  <2>3. g \in [1..(n + 1) -> CodeParts] /\ g[n + 1] = last(f[n + 1])
    BY <1>1, <1>2, <2>2
  <2>4. e \in Choices(levels, n)
    BY <2>1 DEF Choices
  <2>5. h = [d \in 1..n |-> g[d]]
    OBVIOUS
  <2> HIDE DEF g, h
  <2>6. root \o g = Longer(root \o h, g[n + 1])
    BY <2>3, <2>5, LongerPath DEF Longer
  <2>7. PathOf(root, levels, n + 1, f) = root \o g /\ PathOf(root, levels, n, e) = root \o h
    BY DEF PathOf, g, h
  <2>8. PathOf(root, levels, n, e) \in PathsAt(root, levels, n)
    BY <2>4 DEF PathsAt
  <2> HIDE DEF e, last
  <2> QED
    BY <1>1, <2>2, <2>3, <2>6, <2>7, <2>8
<1>4. ASSUME NEW e \in Choices(levels, n), NEW m \in 1..count
      PROVE  Longer(PathOf(root, levels, n, e), last(m)) \in PathsAt(root, levels, n + 1)
  <2> DEFINE f == [d \in 1..(n + 1) |-> IF d = n + 1 THEN m ELSE e[d]]
             g == [d \in 1..(n + 1) |-> G!Part(levels[d], f[d])]
             h == [d \in 1..n |-> G!Part(levels[d], e[d])]
  <2>1. e \in [1..n -> 1..MostGenerated] /\ \A d \in 1..n : e[d] <= levels[d].count
    BY DEF Choices
  <2>2. m \in 1..MostGenerated
    BY <1>1
  <2>3. f \in [1..(n + 1) -> 1..MostGenerated] /\ \A d \in 1..(n + 1) : f[d] <= levels[d].count
    <3>1. \A d \in 1..(n + 1) : d # n + 1 => d \in 1..n
      OBVIOUS
    <3>2. ASSUME NEW d \in 1..(n + 1)
          PROVE  f[d] \in 1..MostGenerated /\ f[d] <= levels[d].count
      BY <2>1, <2>2, <3>1
    <3> QED
      BY <3>2
  <2>4. f \in Choices(levels, n + 1)
    BY <2>3 DEF Choices
  <2>5. \A d \in 1..(n + 1) : f[d] \in 1..levels[d].count
    BY <1>1, <2>3
  <2>6. g \in [1..(n + 1) -> CodeParts] /\ g[n + 1] = last(m)
    BY <1>1, <1>2, <2>5
  <2>7. h = [d \in 1..n |-> g[d]]
    <3>1. \A d \in 1..n : d \in 1..(n + 1) /\ d # n + 1
      OBVIOUS
    <3> QED
      BY <3>1
  <2>8. PathOf(root, levels, n + 1, f) = root \o g /\ PathOf(root, levels, n, e) = root \o h
    BY DEF PathOf
  <2> HIDE DEF g, h, f
  <2>9. root \o g = Longer(root \o h, g[n + 1])
    BY <2>6, <2>7, LongerPath DEF Longer
  <2> HIDE DEF last
  <2> QED
    BY <2>4, <2>6, <2>8, <2>9 DEF PathsAt
<1>5. \A x : x \in PathsAt(root, levels, n + 1) <=>
        \E p \in PathsAt(root, levels, n), m \in 1..count : x = Longer(p, last(m))
  <2> HIDE DEF last, count
  <2> QED
    BY <1>3, <1>4 DEF PathsAt
<1> QED
  BY <1>5

LEMMA PathsTyped ==
  ASSUME NEW root \in LocationCodes, NEW levels \in Seq(LevelShapes), NEW n \in 0..Len(levels)
  PROVE  \A p \in PathsAt(root, levels, n) : p \in LocationCodes /\ Len(p) = Len(root) + n
<1> SUFFICES ASSUME NEW f \in Choices(levels, n)
             PROVE  LET p == PathOf(root, levels, n, f)
                    IN  p \in LocationCodes /\ Len(p) = Len(root) + n
  BY DEF PathsAt
<1> DEFINE g == [d \in 1..n |-> G!Part(levels[d], f[d])]
<1>1. \A d \in 1..n : levels[d] \in LevelShapes
  <2>1. \A d \in 1..n : d \in 1..Len(levels)
    OBVIOUS
  <2> QED
    BY <2>1
<1>2. \A d \in 1..n : f[d] \in 1..levels[d].count
  BY <1>1 DEF Choices, LevelShapes
<1>3. g \in [1..n -> CodeParts]
  BY <1>1, <1>2, ValuesOfLevel
<1> HIDE DEF g
<1>4. g \in Seq(CodeParts) /\ Len(g) = n
  BY <1>3
<1>5. root \o g \in Seq(CodeParts) /\ Len(root \o g) = Len(root) + n
  BY <1>4, ConcatProperties DEF LocationCodes
<1> QED
  BY <1>5 DEF LocationCodes, PathOf, g

\* The elements of a sequence differ; all of a sequence are as long.
Differ(seq) == \A i, j \in 1..Len(seq) : seq[i] = seq[j] => i = j
AllLong(seq, L) == \A i \in 1..Len(seq) : Len(seq[i]) = L

\* What a level adds: the paths of one depth, below those of the depth above.
LevelAdds(level, parents, values, L) ==
  /\ \A i \in 1..Len(level) :
       /\ Len(level[i].code) = L + 1 /\ Len(level[i].parent) = L
       /\ \E k \in 1..Len(parents) : level[i].parent = parents[k]
  /\ \A i, j \in 1..Len(level) : level[i].code = level[j].code => i = j
  /\ \A x : (\E i \in 1..Len(level) : x = level[i].code) <=>
            (\E k \in 1..Len(parents), m \in 1..Len(values) : x = Longer(parents[k], values[m]))

LEMMA LevelCodes ==
  ASSUME NEW parents, parents \in Seq(LocationCodes), NEW values, values \in Seq(CodeParts),
         NEW level, IsLevelBelow(level, parents, values), NEW L, AllLong(parents, L),
         Differ(parents), Differ(values)
  PROVE  LevelAdds(level, parents, values, L)
<1> DEFINE code(i) == level[i].code
           parent(i) == level[i].parent
           longer(k, m) == Longer(parents[k], values[m])
           a(k) == parents[k]
           v(m) == values[m]
           row(i) == level[i]
           K == 1..Len(parents)
           V == 1..Len(values)
           I_ == 1..Len(level)
<1>1. /\ \A k \in K : a(k) \in LocationCodes /\ Len(a(k)) = L
      /\ \A k, o \in K : a(k) = a(o) => k = o
  BY DEF AllLong, Differ
<1>2. /\ \A m \in V : v(m) \in CodeParts
      /\ \A m, n \in V : v(m) = v(n) => m = n
  BY DEF Differ
<1>3. /\ \A i \in I_ : \E k \in K, m \in V : i = Place(values, k, m) /\ row(i) = Below(a(k), v(m))
      /\ \A k \in K, m \in V : \E i \in I_ : row(i) = Below(a(k), v(m))
  BY DEF IsLevelBelow
<1>4. /\ \A x, y : Below(x, y).code = Longer(x, y) /\ Below(x, y).parent = x
      /\ \A i : code(i) = row(i).code /\ parent(i) = row(i).parent
      /\ \A k, m : longer(k, m) = Longer(a(k), v(m))
  BY DEF Below
<1> HIDE DEF code, parent, longer, a, v, row, K, V, I_
<1>5. ASSUME NEW k \in K, NEW m \in V
      PROVE  /\ Len(longer(k, m)) = L + 1
             /\ \A o \in K, n \in V : longer(k, m) = longer(o, n) => k = o /\ m = n
  <2>1. /\ Len(Longer(a(k), v(m))) = Len(a(k)) + 1
        /\ \A x \in LocationCodes, y \in CodeParts :
             Longer(a(k), v(m)) = Longer(x, y) => a(k) = x /\ v(m) = y
    BY <1>1, <1>2, LongerCode
  <2> QED
    BY <1>1, <1>2, <1>4, <2>1
<1>6. ASSUME NEW i \in I_
      PROVE  \E k \in K, m \in V :
               i = Place(values, k, m) /\ code(i) = longer(k, m) /\ parent(i) = a(k)
  BY <1>3, <1>4
<1>7. ASSUME NEW k \in K, NEW m \in V
      PROVE  \E i \in I_ : code(i) = longer(k, m)
  BY <1>3, <1>4
<1>8. ASSUME NEW i \in I_
      PROVE  /\ Len(code(i)) = L + 1 /\ Len(parent(i)) = L
             /\ \E k \in K : parent(i) = a(k)
  BY <1>1, <1>5, <1>6
<1>9. ASSUME NEW i \in I_, NEW j \in I_, code(i) = code(j)
      PROVE  i = j
  <2>1. PICK k \in K, m \in V : i = Place(values, k, m) /\ code(i) = longer(k, m)
    BY <1>6
  <2>2. PICK o \in K, n \in V : j = Place(values, o, n) /\ code(j) = longer(o, n)
    BY <1>6
  <2>3. longer(k, m) = longer(o, n)
    BY <1>9, <2>1, <2>2
  <2>4. k = o /\ m = n
    BY <1>5, <2>3
  <2> QED
    BY <2>1, <2>2, <2>4
<1>10. ASSUME NEW x
       PROVE  (\E i \in I_ : x = code(i)) <=> (\E k \in K, m \in V : x = longer(k, m))
  BY <1>6, <1>7
<1>11. /\ \A i \in I_ : /\ Len(code(i)) = L + 1 /\ Len(parent(i)) = L
                        /\ \E k \in K : parent(i) = a(k)
       /\ \A i, j \in I_ : code(i) = code(j) => i = j
       /\ \A x : (\E i \in I_ : x = code(i)) <=> (\E k \in K, m \in V : x = longer(k, m))
  BY <1>8, <1>9, <1>10
<1> QED
  BY ONLY <1>11 DEF LevelAdds, code, parent, longer, a, I_, K, V

\* The nodes and parents after d levels: each path once, the shorter first, below
\* one that came before.
ExpandedTo(root, levels, at, nodes, parents, numNodes, leaves, d) ==
  /\ leaves = at[d] /\ numNodes = Sums!Total(at, d)
  /\ \A i, j \in 1..leaves : parents[i] = parents[j] => i = j
  /\ \A i \in 1..leaves : parents[i] = root \/ \E j \in 1..numNodes : nodes[j].code = parents[i]
  /\ \A x : (\E i \in 1..leaves : x = parents[i]) <=> x \in PathsAt(root, levels, d)
  /\ \A i, j \in 1..numNodes :
       /\ nodes[i].code = nodes[j].code => i = j
       /\ i < j => Len(nodes[i].code) <= Len(nodes[j].code)
  /\ \A i \in 1..numNodes :
       /\ Len(nodes[i].code) = Len(nodes[i].parent) + 1
       /\ nodes[i].parent = root \/ \E j \in 1..numNodes : nodes[j].code = nodes[i].parent
       /\ Len(nodes[i].code) <= Len(root) + d
  /\ \A x : (\E i \in 1..numNodes : x = nodes[i].code)
              <=> \E n \in 1..d : x \in PathsAt(root, levels, n)

Expanded(root, levels, at, s, d) ==
  ExpandedTo(root, levels, at, s.nodes, s.parents, Len(s.nodes), Len(s.parents), d)

LEMMA ExpandedNext ==
  ASSUME NEW root \in LocationCodes, NEW levels \in Seq(LevelShapes), NEW d \in 1..Len(levels),
         \A n \in 1..Len(levels) : levels[n].count <= MostGenerated,
         NEW at \in [0..Len(levels) -> Nat \ {0}], at[d] = at[d - 1] * levels[d].count,
         NEW s \in Expansions, Expanded(root, levels, at, s, d - 1)
  PROVE  Expanded(root, levels, at, Deeper(s, levels[d]), d)
<1> DEFINE shape == levels[d]
           values == G!SequenceValues(shape)
           level == G!LevelBelow(s.parents, values)
           nodes == s.nodes \o level
           parents == [i \in DOMAIN level |-> level[i].code]
           N_ == Len(s.nodes)
           M == Len(level)
           L == Len(root) + (d - 1)
<1>1. /\ Deeper(s, shape).nodes = nodes /\ Deeper(s, shape).parents = parents
      /\ s.nodes \in Seq(Nodes) /\ s.parents \in Seq(LocationCodes)
  BY DEF Deeper, Expansions
<1>2. /\ d - 1 \in Nat /\ d - 1 \in 0..Len(levels) /\ d \in 0..Len(levels) /\ (d - 1) + 1 = d
      /\ Len(root) \in Nat /\ L \in Nat /\ L + 1 = Len(root) + d
  BY DEF LocationCodes
<1>3. shape \in LevelShapes /\ shape.count \in Nat \ {0}
  <2>1. shape \in LevelShapes
    OBVIOUS
  <2> QED
    BY <2>1 DEF LevelShapes
<1> HIDE DEF shape
<1>4. /\ values \in Seq(CodeParts) /\ Len(values) = shape.count
      /\ \A i \in 1..shape.count : values[i] = G!Part(shape, i)
      /\ \A i, j \in 1..shape.count : values[i] = values[j] => i = j
  BY <1>3, ValuesOfLevel
<1> HIDE DEF values
<1>5. IsLevelBelow(level, s.parents, values)
  BY <1>1, <1>3, <1>4, LevelBelowIs
<1> HIDE DEF level
<1>6. /\ \A x : (\E k \in 1..Len(s.parents) : x = s.parents[k]) <=> x \in PathsAt(root, levels, d - 1)
      /\ \A i, j \in 1..Len(s.parents) : s.parents[i] = s.parents[j] => i = j
      /\ \A i \in 1..Len(s.parents) : Len(s.parents[i]) = L
  <2>1. /\ \A x : (\E k \in 1..Len(s.parents) : x = s.parents[k]) <=> x \in PathsAt(root, levels, d - 1)
        /\ \A i, j \in 1..Len(s.parents) : s.parents[i] = s.parents[j] => i = j
    BY DEF Expanded, ExpandedTo
  <2>2. \A p \in PathsAt(root, levels, d - 1) : Len(p) = L
    BY <1>2, PathsTyped
  <2> QED
    BY <2>1, <2>2
<1>7. /\ \A i \in 1..M :
           /\ Len(level[i].code) = L + 1 /\ Len(level[i].parent) = L
           /\ \E k \in 1..Len(s.parents) : level[i].parent = s.parents[k]
      /\ \A i, j \in 1..M : level[i].code = level[j].code => i = j
      /\ \A x : (\E i \in 1..M : x = level[i].code) <=>
                (\E k \in 1..Len(s.parents), m \in 1..Len(values) : x = Longer(s.parents[k], values[m]))
  <2>1. /\ s.parents \in Seq(LocationCodes) /\ values \in Seq(CodeParts) /\ L \in Nat
        /\ IsLevelBelow(level, s.parents, values)
        /\ Differ(s.parents) /\ Differ(values) /\ AllLong(s.parents, L)
    BY <1>1, <1>2, <1>4, <1>5, <1>6 DEF Differ, AllLong
  <2> HIDE DEF L
  <2>2. LevelAdds(level, s.parents, values, L)
    BY <2>1, LevelCodes
  <2> QED
    BY <2>2 DEF LevelAdds
<1>8. ASSUME NEW x
      PROVE  (\E i \in 1..M : x = level[i].code) <=> x \in PathsAt(root, levels, d)
  <2> DEFINE At(y) == y \in PathsAt(root, levels, d - 1)
             part_(m) == G!Part(shape, m)
             g(k) == s.parents[k]
  <2>1. x \in PathsAt(root, levels, d) <=>
          \E p \in PathsAt(root, levels, d - 1), m \in 1..shape.count : x = Longer(p, part_(m))
    <3>1. levels[d].count <= MostGenerated /\ d <= Len(levels)
      OBVIOUS
    <3>2. ASSUME NEW n \in Nat, d = n + 1
          PROVE  x \in PathsAt(root, levels, d) <=>
                   \E p \in PathsAt(root, levels, n), m \in 1..shape.count : x = Longer(p, part_(m))
      <4>1. n + 1 <= Len(levels) /\ levels[n + 1].count <= MostGenerated
        BY <3>1, <3>2
      <4>2. x \in PathsAt(root, levels, n + 1) <=>
              \E p \in PathsAt(root, levels, n), m \in 1..levels[n + 1].count :
                 x = Longer(p, G!Part(levels[n + 1], m))
        BY ONLY <4>1, <3>2, PathsNext, root \in LocationCodes, levels \in Seq(LevelShapes), n \in Nat
      <4> QED
        BY <4>2, <3>2 DEF shape
    <3> QED
      BY <1>2, <3>2
  <2>2. x \in PathsAt(root, levels, d) <=> \E p, m : At(p) /\ m \in 1..shape.count /\ x = Longer(p, part_(m))
    BY <2>1
  <2>3. \A y : At(y) <=> \E k \in 1..Len(s.parents) : y = g(k)
    BY <1>6
  <2>4. (\E i \in 1..M : x = level[i].code) <=>
          (\E k \in 1..Len(s.parents), m \in 1..shape.count : x = Longer(g(k), part_(m)))
    <3>1. \A m \in 1..shape.count : values[m] = part_(m)
      BY <1>4
    <3>2. (\E i \in 1..M : x = level[i].code) <=>
            (\E k \in 1..Len(s.parents), m \in 1..Len(values) : x = Longer(g(k), values[m]))
      BY <1>7
    <3>3. Len(values) = shape.count
      BY <1>4
    <3> HIDE DEF g, part_
    <3> QED
      BY ONLY <3>1, <3>2, <3>3
  <2> HIDE DEF At, part_, g, M
  <2> QED
    BY <2>2, <2>3, <2>4
<1>9. /\ level \in Seq(Nodes) /\ M = Len(s.parents) * shape.count /\ M \in Nat /\ N_ \in Nat
      /\ DOMAIN level = 1..M
  BY <1>1, <1>4, <1>5 DEF IsLevelBelow
<1>10. Len(parents) = M /\ \A i \in 1..M : parents[i] = level[i].code
  BY <1>9
<1>11. /\ Len(nodes) = N_ + M
       /\ \A i \in 1..N_ : nodes[i] = s.nodes[i]
       /\ \A i \in 1..M : nodes[N_ + i] = level[i]
  <2>1. \A i \in 1..(N_ + M) : nodes[i] = IF i <= N_ THEN s.nodes[i] ELSE level[i - N_]
    BY <1>1, <1>9, ConcatProperties
  <2>2. Len(nodes) = N_ + M
    BY <1>1, <1>9, ConcatProperties
  <2>3. \A i \in 1..N_ : i \in 1..(N_ + M) /\ i <= N_
    BY <1>9
  <2>4. \A i \in 1..M : N_ + i \in 1..(N_ + M) /\ ~(N_ + i <= N_) /\ (N_ + i) - N_ = i
    BY <1>9
  <2> QED
    BY <2>1, <2>2, <2>3, <2>4
<1>12. \A i \in 1..(N_ + M) : i \in 1..N_ \/ \E j \in 1..M : i = N_ + j
  <2> SUFFICES ASSUME NEW i \in 1..(N_ + M), i \notin 1..N_
               PROVE  \E j \in 1..M : i = N_ + j
    OBVIOUS
  <2>1. i - N_ \in 1..M /\ i = N_ + (i - N_)
    BY <1>9
  <2> QED
    BY <2>1
<1> HIDE DEF nodes, parents, N_, M, L
<1>13. M = at[d] /\ N_ + M = Sums!Total(at, d)
  <2>1. M = at[d]
    BY <1>9 DEF Expanded, ExpandedTo, shape
  <2>2. \A i \in 1..d : at[i] \in Int
    <3>1. \A i \in 1..d : i \in 0..Len(levels)
      OBVIOUS
    <3> QED
      BY <3>1
  <2>3. Sums!Total(at, d) = Sums!Total(at, d - 1) + at[d]
    BY <2>2, Sums!TotalStep
  <2> QED
    BY <2>1, <2>3 DEF Expanded, ExpandedTo, N_
<1> DEFINE c(i) == nodes[i].code
           q(i) == nodes[i].parent
           e(i) == level[i].code
           f(i) == level[i].parent
           g(i) == s.parents[i]
           o(i) == s.nodes[i].code
           r(i) == s.nodes[i].parent
           At(n, x) == x \in PathsAt(root, levels, n)
<1>14. \A i \in 1..N_ : c(i) = o(i) /\ q(i) = r(i) /\ i \in 1..(N_ + M)
  BY <1>9, <1>11
<1>15. \A i \in 1..M : c(N_ + i) = e(i) /\ q(N_ + i) = f(i) /\ N_ + i \in 1..(N_ + M)
  BY <1>9, <1>11
<1>16. /\ \A i \in 1..M : Len(e(i)) = L + 1 /\ Len(f(i)) = L /\ \E k \in 1..Len(s.parents) : f(i) = g(k)
       /\ \A i, j \in 1..M : e(i) = e(j) => i = j
       /\ \A x : (\E i \in 1..M : x = e(i)) <=> At(d, x)
  BY <1>7, <1>8
<1>17. \A i \in 1..N_ :
         /\ Len(o(i)) = Len(r(i)) + 1
         /\ r(i) = root \/ \E j \in 1..N_ : o(j) = r(i)
         /\ Len(o(i)) <= Len(root) + (d - 1)
  BY DEF Expanded, ExpandedTo, N_
<1>18. \A i, j \in 1..N_ :
         /\ o(i) = o(j) => i = j
         /\ i < j => Len(o(i)) <= Len(o(j))
  BY DEF Expanded, ExpandedTo, N_
<1>19. /\ \A x : (\E i \in 1..N_ : x = o(i)) <=> \E n \in 1..(d - 1) : At(n, x)
       /\ \A k \in 1..Len(s.parents) : g(k) = root \/ \E j \in 1..N_ : o(j) = g(k)
  BY DEF Expanded, ExpandedTo, N_
<1>20. \A i \in 1..N_ : Len(o(i)) \in Nat
  <2> SUFFICES ASSUME NEW i \in 1..N_ PROVE Len(s.nodes[i].code) \in Nat
    OBVIOUS
  <2>1. s.nodes[i] \in Nodes
    BY <1>1 DEF N_
  <2> QED
    BY <2>1 DEF Nodes, LocationCodes
<1> HIDE DEF c, q, e, f, g, o, r, At
\* The rows there were.
<1>21. /\ \A i \in 1..N_ :
            /\ Len(c(i)) = Len(q(i)) + 1
            /\ q(i) = root \/ \E j \in 1..N_ : c(j) = q(i)
            /\ Len(c(i)) <= L /\ Len(c(i)) \in Nat
       /\ \A i, j \in 1..N_ : (c(i) = c(j) => i = j) /\ (i < j => Len(c(i)) <= Len(c(j)))
  <2>1. ASSUME NEW i \in 1..N_
        PROVE  /\ Len(c(i)) = Len(q(i)) + 1 /\ Len(c(i)) <= L /\ Len(c(i)) \in Nat
               /\ q(i) = root \/ \E j \in 1..N_ : c(j) = q(i)
    <3>1. L = Len(root) + (d - 1)
      BY DEF L
    <3> QED
      BY ONLY <1>9, <1>14, <1>17, <1>20, <3>1, i \in 1..N_
  <2>2. ASSUME NEW i \in 1..N_, NEW j \in 1..N_
        PROVE  (c(i) = c(j) => i = j) /\ (i < j => Len(c(i)) <= Len(c(j)))
    <3>1. c(i) = o(i) /\ c(j) = o(j)
      BY ONLY <1>9, <1>14, i \in 1..N_, j \in 1..N_
    <3>2. (o(i) = o(j) => i = j) /\ (i < j => Len(o(i)) <= Len(o(j)))
      BY ONLY <1>9, <1>18, i \in 1..N_, j \in 1..N_
    <3> QED
      BY ONLY <3>1, <3>2
  <2> QED
    BY ONLY <2>1, <2>2
<1>22. /\ \A k \in 1..Len(s.parents) : g(k) = root \/ \E j \in 1..N_ : c(j) = g(k)
       /\ \A x : (\E i \in 1..N_ : x = c(i)) <=> \E n \in 1..(d - 1) : At(n, x)
  BY ONLY <1>9, <1>14, <1>19
\* All rows.
<1>23. ASSUME NEW i \in 1..(N_ + M)
       PROVE  /\ Len(c(i)) = Len(q(i)) + 1
              /\ q(i) = root \/ \E j \in 1..(N_ + M) : c(j) = q(i)
              /\ Len(c(i)) <= Len(root) + d
  <2>1. ASSUME i \in 1..N_
        PROVE  /\ Len(c(i)) = Len(q(i)) + 1
               /\ q(i) = root \/ \E j \in 1..(N_ + M) : c(j) = q(i)
               /\ Len(c(i)) <= Len(root) + d
    <3>1. /\ Len(c(i)) = Len(q(i)) + 1 /\ Len(c(i)) <= L /\ Len(c(i)) \in Nat
          /\ q(i) = root \/ \E j \in 1..N_ : c(j) = q(i)
      BY ONLY <1>9, <1>21, <2>1
    <3>2. L \in Nat /\ L + 1 = Len(root) + d
      BY <1>2
    <3> QED
      BY ONLY <1>9, <1>14, <3>1, <3>2
  <2>2. ASSUME NEW j \in 1..M, i = N_ + j
        PROVE  /\ Len(c(i)) = Len(q(i)) + 1
               /\ q(i) = root \/ \E n \in 1..(N_ + M) : c(n) = q(i)
               /\ Len(c(i)) <= Len(root) + d
    <3>1. c(i) = e(j) /\ q(i) = f(j)
      BY ONLY <1>9, <1>15, <2>2
    <3>2. Len(c(i)) = L + 1 /\ Len(q(i)) = L
      BY ONLY <1>9, <1>16, <3>1, j \in 1..M
    <3>3. q(i) = root \/ \E n \in 1..(N_ + M) : c(n) = q(i)
      BY ONLY <1>9, <1>14, <1>16, <1>22, <3>1, j \in 1..M
    <3> QED
      BY ONLY <1>2, <3>2, <3>3
  <2> QED
    BY ONLY <1>9, <1>12, <2>1, <2>2, i \in 1..(N_ + M)
<1>24. ASSUME NEW i \in 1..(N_ + M), NEW j \in 1..(N_ + M)
       PROVE  (c(i) = c(j) => i = j) /\ (i < j => Len(c(i)) <= Len(c(j)))
  <2>1. ASSUME i \in 1..N_, j \in 1..N_
        PROVE  (c(i) = c(j) => i = j) /\ (i < j => Len(c(i)) <= Len(c(j)))
    BY ONLY <1>9, <1>21, <2>1
  <2>2. ASSUME NEW k \in 1..N_, NEW n \in 1..M
        PROVE  c(k) # c(N_ + n) /\ Len(c(k)) <= Len(c(N_ + n)) /\ ~(N_ + n < k)
    <3>1. Len(c(N_ + n)) = L + 1 /\ Len(c(k)) <= L /\ Len(c(k)) \in Nat
      BY ONLY <1>9, <1>15, <1>16, <1>21, k \in 1..N_, n \in 1..M
    <3>2. Len(c(k)) # Len(c(N_ + n)) /\ Len(c(k)) <= Len(c(N_ + n))
      BY ONLY <1>2, <3>1
    <3>3. ~(N_ + n < k)
      BY ONLY <1>9, k \in 1..N_, n \in 1..M
    <3> QED
      BY ONLY <3>2, <3>3
  <2>3. ASSUME NEW m \in 1..M, i = N_ + m, NEW n \in 1..M, j = N_ + n
        PROVE  (c(i) = c(j) => i = j) /\ Len(c(i)) <= Len(c(j))
    <3>1. c(i) = e(m) /\ c(j) = e(n)
      BY ONLY <1>9, <1>15, <2>3
    <3>2. Len(c(i)) = L + 1 /\ Len(c(j)) = L + 1
      BY ONLY <1>9, <1>16, <3>1, m \in 1..M, n \in 1..M
    <3>3. c(i) = c(j) => m = n
      BY ONLY <1>9, <1>16, <3>1, m \in 1..M, n \in 1..M
    <3> QED
      BY ONLY <1>2, <2>3, <3>2, <3>3
  <2> QED
    BY ONLY <1>9, <1>12, <2>1, <2>2, <2>3, i \in 1..(N_ + M), j \in 1..(N_ + M)
<1>25. ASSUME NEW x
       PROVE  (\E i \in 1..(N_ + M) : x = c(i)) <=> \E n \in 1..d : At(n, x)
  <2>1. \A n : n \in 1..d <=> n = d \/ n \in 1..(d - 1)
    OBVIOUS
  <2>2. (\E i \in 1..(N_ + M) : x = c(i)) <=>
          (\E i \in 1..N_ : x = c(i)) \/ (\E i \in 1..M : x = e(i))
    BY ONLY <1>9, <1>12, <1>14, <1>15
  <2> QED
    BY ONLY <1>9, <1>16, <1>22, <2>1, <2>2
<1>26. ASSUME NEW i \in 1..M
       PROVE  e(i) = root \/ \E j \in 1..(N_ + M) : c(j) = e(i)
  BY <1>15
<1> DEFINE t == Deeper(s, levels[d])
<1>27. t.nodes = nodes /\ t.parents = parents
  BY <1>1 DEF shape
<1> HIDE DEF t
<1>28. \A i \in 1..M : parents[i] = e(i)
  BY <1>10 DEF e
<1>29. /\ \A i, j \in 1..M : parents[i] = parents[j] => i = j
       /\ \A x : (\E i \in 1..M : x = parents[i]) <=> x \in PathsAt(root, levels, d)
       /\ \A i \in 1..M : parents[i] = root \/ \E j \in 1..(N_ + M) : nodes[j].code = parents[i]
  <2>1. /\ \A i, j \in 1..M : parents[i] = parents[j] => i = j
        /\ \A x : (\E i \in 1..M : x = parents[i]) <=> At(d, x)
    BY <1>16, <1>28
  <2>2. \A i \in 1..M : parents[i] = root \/ \E j \in 1..(N_ + M) : c(j) = parents[i]
    BY <1>26, <1>28
  <2> QED
    BY <2>1, <2>2 DEF At, c
<1>30. /\ \A i, j \in 1..(N_ + M) :
            /\ nodes[i].code = nodes[j].code => i = j
            /\ i < j => Len(nodes[i].code) <= Len(nodes[j].code)
       /\ \A i \in 1..(N_ + M) :
            /\ Len(nodes[i].code) = Len(nodes[i].parent) + 1
            /\ nodes[i].parent = root \/ \E j \in 1..(N_ + M) : nodes[j].code = nodes[i].parent
            /\ Len(nodes[i].code) <= Len(root) + d
       /\ \A x : (\E i \in 1..(N_ + M) : x = nodes[i].code)
                   <=> \E n \in 1..d : x \in PathsAt(root, levels, n)
  BY <1>23, <1>24, <1>25 DEF c, q, At
<1>31. Len(parents) = M /\ Len(nodes) = N_ + M
  BY <1>10, <1>11
<1>32. Expanded(root, levels, at, t, d)
  <2>1. ExpandedTo(root, levels, at, nodes, parents, N_ + M, M, d)
    BY ONLY <1>13, <1>29, <1>30 DEF ExpandedTo
  <2> QED
    BY ONLY <1>27, <1>31, <2>1 DEF Expanded
<1> QED
  BY <1>32 DEF t

\* The nodes of the levels are all paths, once, each after its parent.
PathNodes(root, levels, nodes) ==
  /\ nodes \in Seq(Nodes) /\ Len(nodes) = G!CountGeneratedLocations(levels)
  /\ \A i, j \in 1..Len(nodes) :
       /\ nodes[i].code = nodes[j].code => i = j
       /\ i < j => Len(nodes[i].code) <= Len(nodes[j].code)
  /\ \A i \in 1..Len(nodes) :
       /\ Len(nodes[i].code) = Len(nodes[i].parent) + 1
       /\ nodes[i].parent = root \/ \E j \in 1..Len(nodes) : nodes[j].code = nodes[i].parent
  /\ \A x : (\E i \in 1..Len(nodes) : x = nodes[i].code) <=> x \in G!Paths(root, levels)

LEMMA ExpandedPaths ==
  ASSUME NEW root \in LocationCodes, NEW levels \in Seq(LevelShapes),
         G!CountGeneratedLocations(levels) <= MostGenerated
  PROVE  PathNodes(root, levels, G!ExpandLevels(root, levels))
<1> DEFINE size == Len(levels)
<1>1. size \in Nat
  OBVIOUS
<1>2. PICK at \in [0..size -> Nat \ {0}] :
        /\ at[0] = 1 /\ \A d \in 1..size : at[d] = at[d - 1] * levels[d].count
        /\ G!CountGeneratedLocations(levels) = Sums!Total(at, size)
  BY CountedByLevel
<1>3. PICK below \in [0..size -> Expansions] :
        /\ below[0] = [nodes |-> <<>>, parents |-> <<root>>]
        /\ \A d \in 1..size : below[d] = Deeper(below[d - 1], levels[d])
        /\ G!ExpandLevels(root, levels) = below[size].nodes
  BY ExpandedByLevel
<1>4. \A n \in 1..size : levels[n].count <= MostGenerated
  <2> SUFFICES ASSUME NEW n \in 1..size PROVE levels[n].count <= MostGenerated
    OBVIOUS
  <2>1. levels[n].count \in Nat /\ at[n - 1] \in Nat \ {0} /\ at[n] = at[n - 1] * levels[n].count
    <3>1. levels[n] \in LevelShapes /\ n - 1 \in 0..size
      OBVIOUS
    <3> QED
      BY <1>2, <3>1 DEF LevelShapes
  <2>2. levels[n].count <= at[n]
    <3>1. \A a \in Nat \ {0}, b \in Nat : b <= a * b
      OBVIOUS
    <3> QED
      BY <2>1, <3>1
  <2>3. at[n] <= Sums!Total(at, size) /\ at[n] \in Nat /\ Sums!Total(at, size) \in Nat
    <3>1. \A i \in 1..size : at[i] \in Nat
      BY <1>1
    <3> QED
      BY <1>1, <3>1, Sums!TotalNat
  <2>4. MostGenerated \in Nat
    BY GeneratorAssumption DEF G!GeneratorAssumption
  <2> QED
    BY <1>2, <2>1, <2>2, <2>3, <2>4
<1>5. Expanded(root, levels, at, below[0], 0)
  <2>1. Len(below[0].parents) = 1 /\ below[0].parents[1] = root /\ Len(below[0].nodes) = 0
    BY <1>3
  <2>2. PathsAt(root, levels, 0) = {root} /\ Sums!Total(at, 0) = 0
    BY NoPath, Sums!TotalZero
  <2> QED
    BY <1>2, <2>1, <2>2 DEF Expanded, ExpandedTo
<1>6. Expanded(root, levels, at, below[size], size)
  <2> DEFINE T == {d \in 0..size : Expanded(root, levels, at, below[d], d)}
  <2>1. 0 \in T
    BY <1>1, <1>5
  <2>2. ASSUME NEW d \in 1..size, d - 1 \in T
        PROVE  d \in T
    <3>1. /\ d - 1 \in 0..size /\ d \in 0..size /\ below[d - 1] \in Expansions
          /\ Expanded(root, levels, at, below[d - 1], d - 1)
          /\ at[d] = at[d - 1] * levels[d].count /\ below[d] = Deeper(below[d - 1], levels[d])
      <4>1. /\ d - 1 \in 0..size /\ d \in 0..size
            /\ Expanded(root, levels, at, below[d - 1], d - 1)
        BY ONLY <1>1, <2>2, d \in 1..size
      <4>2. at[d] = at[d - 1] * levels[d].count
        BY <1>2
      <4>3. below[d] = Deeper(below[d - 1], levels[d]) /\ below[d - 1] \in Expansions
        BY ONLY <1>3, <4>1, d \in 1..size, below \in [0..size -> Expansions]
      <4> QED
        BY <4>1, <4>2, <4>3
    <3>2. Expanded(root, levels, at, Deeper(below[d - 1], levels[d]), d)
      <4>1. /\ d \in 1..Len(levels) /\ at \in [0..Len(levels) -> Nat \ {0}]
            /\ \A n \in 1..Len(levels) : levels[n].count <= MostGenerated
        BY <1>2, <1>4, <2>2
      <4> QED
        BY ONLY <3>1, <4>1, ExpandedNext, root \in LocationCodes, levels \in Seq(LevelShapes)
    <3> QED
      BY <3>1, <3>2
  <2>3. \A d \in 0..size : d \in T
    <3> HIDE DEF T
    <3> QED
      BY <1>1, <2>1, <2>2, Sums!UpTo
  <2> QED
    BY <1>1, <2>3
<1>7. below[size].nodes \in Seq(Nodes)
  <2>1. below[size] \in Expansions
    BY <1>1, <1>3
  <2> QED
    BY <2>1 DEF Expansions
<1> DEFINE s == below[size]
<1>8. /\ Len(s.nodes) = Sums!Total(at, size)
      /\ \A i, j \in 1..Len(s.nodes) :
           /\ s.nodes[i].code = s.nodes[j].code => i = j
           /\ i < j => Len(s.nodes[i].code) <= Len(s.nodes[j].code)
      /\ \A i \in 1..Len(s.nodes) :
           /\ Len(s.nodes[i].code) = Len(s.nodes[i].parent) + 1
           /\ s.nodes[i].parent = root \/ \E j \in 1..Len(s.nodes) : s.nodes[j].code = s.nodes[i].parent
      /\ \A x : (\E i \in 1..Len(s.nodes) : x = s.nodes[i].code)
                  <=> \E n \in 1..size : x \in PathsAt(root, levels, n)
  BY ONLY <1>6 DEF Expanded, ExpandedTo
<1>9. \A x : x \in G!Paths(root, levels) <=> \E n \in 1..size : x \in PathsAt(root, levels, n)
  BY PathsByDepth
<1> HIDE DEF s
<1>10. PathNodes(root, levels, s.nodes)
  BY <1>2, <1>7, <1>8, <1>9 DEF PathNodes, s
<1> QED
  BY <1>3, <1>10 DEF s

\* They are as many as were counted.
LEMMA PathsCounted ==
  ASSUME NEW root \in LocationCodes, NEW levels \in Seq(LevelShapes),
         G!CountGeneratedLocations(levels) <= MostGenerated
  PROVE  G!Cardinality(G!Paths(root, levels)) = G!CountGeneratedLocations(levels)
<1> DEFINE nodes == G!ExpandLevels(root, levels)
           n == Len(nodes)
           paths == G!Paths(root, levels)
           f == [i \in 1..n |-> nodes[i].code]
<1>1. PathNodes(root, levels, nodes)
  BY ExpandedPaths
<1> HIDE DEF nodes, paths
<1>2. n \in Nat /\ n = G!CountGeneratedLocations(levels)
  BY <1>1 DEF PathNodes
<1>3. /\ \A i, j \in 1..n : f[i] = f[j] => i = j
      /\ \A x : (\E i \in 1..n : x = f[i]) <=> x \in paths
  BY <1>1 DEF PathNodes, paths
<1>4. f \in [1..n -> paths]
  BY <1>3
<1> HIDE DEF f
<1>5. f \in Bijection(1..n, paths)
  BY <1>3, <1>4, Fun_IsBij
<1>6. IsFiniteSet(1..n) /\ Cardinality(1..n) = n
  BY <1>2, FS_Interval
<1>7. Cardinality(paths) = n
  BY <1>5, <1>6, FS_Bijection DEF ExistsBijection
<1>8. \A T : G!Cardinality(T) = Cardinality(T)
  BY DEF G!Cardinality, Cardinality
<1> QED
  BY <1>2, <1>7, <1>8 DEF paths

-----------------------------------------------------------------------------
(* Locations are created in the order of the nodes. *)

GeneratorInv ==
  /\ DOMAIN tree \subseteq LocationCodes
  /\ G!GeneratorTypeOK
  /\ \E most \in Nat : \A c \in DOMAIN tree : tree[c].sequence <= most
  /\ G!GeneratesEveryPath

LEMMA GeneratorStarts == G!Init => GeneratorInv
<1> SUFFICES ASSUME G!Init PROVE GeneratorInv
  OBVIOUS
<1>1. tree = <<>> /\ generated = <<>>
  BY DEF G!Init
<1>2. DOMAIN tree = {}
  BY <1>1
<1> QED
  BY <1>1, <1>2 DEF GeneratorInv, G!GeneratorTypeOK, G!GeneratesEveryPath

LEMMA LastSequenceIsLast ==
  ASSUME GeneratorInv
  PROVE  G!LastSequence \in Nat /\ \A c \in DOMAIN tree : tree[c].sequence <= G!LastSequence
<1> DEFINE S_ == {0} \union {tree[c].sequence : c \in DOMAIN tree}
           Above == {n \in Nat : \A x \in S_ : x <= n}
<1>1. S_ \subseteq Nat /\ 0 \in S_
  BY DEF GeneratorInv, G!GeneratorTypeOK
<1>2. Above # {}
  BY DEF GeneratorInv
<1> HIDE DEF S_
<1>3. PICK n \in Above : \A m \in Above : n <= m
  <2>1. Above \subseteq Nat
    OBVIOUS
  <2> HIDE DEF Above
  <2> QED
    BY <1>2, <2>1, Sums!NatMin
<1>4. n \in S_
  <2> SUFFICES ASSUME n \notin S_ PROVE FALSE
    OBVIOUS
  <2>1. n # 0 /\ \A x \in S_ : x <= n - 1
    BY <1>1, <1>3
  <2>2. n - 1 \in Above
    BY <1>3, <2>1
  <2> QED
    BY <1>3, <2>2
<1>5. \A y \in S_ : n >= y
  BY <1>1, <1>3
<1>6. G!LastSequence = CHOOSE x \in S_ : \A y \in S_ : x >= y
  BY DEF G!LastSequence, G!Max, S_
<1>7. G!LastSequence \in S_ /\ \A y \in S_ : G!LastSequence >= y
  BY <1>4, <1>5, <1>6
<1>8. \A c \in DOMAIN tree : tree[c].sequence \in S_
  BY DEF S_
<1> QED
  BY <1>1, <1>7, <1>8

\* What is created, and where it is put.
CreatedNodes(root, nodes, last) ==
  /\ DOMAIN tree \subseteq DOMAIN tree'
  /\ \A c \in DOMAIN tree : tree'[c] = tree[c]
  /\ \A i \in 1..Len(nodes) : nodes[i].code \in DOMAIN tree'
  /\ \A c \in DOMAIN tree' \ DOMAIN tree :
       \E i \in 1..Len(nodes) :
         nodes[i].code = c /\ tree'[c] = [parent |-> nodes[i].parent, sequence |-> last + i]

LEMMA GenerateCreates ==
  ASSUME GeneratorInv, NEW root \in {<<>>} \union DOMAIN tree, NEW levels \in LevelsAsked,
         G!Generate(root, levels)
  PROVE  /\ root \in LocationCodes /\ levels \in Seq(LevelShapes)
         /\ G!CountGeneratedLocations(levels) <= MostGenerated
         /\ CreatedNodes(root, G!ExpandLevels(root, levels), G!LastSequence)
         /\ generated' = [root |-> root, levels |-> levels]
<1> DEFINE nodes == G!ExpandLevels(root, levels)
           last == G!LastSequence
           new == {i \in DOMAIN nodes : nodes[i].code \notin DOMAIN tree}
           codes == {nodes[i].code : i \in new}
           node(c) == CHOOSE i \in new : nodes[i].code = c
<1>1. root \in LocationCodes
  <2>1. <<>> \in LocationCodes
    BY DEF LocationCodes
  <2>2. DOMAIN tree \subseteq LocationCodes
    BY DEF GeneratorInv
  <2> QED
    BY ONLY <2>1, <2>2, root \in {<<>>} \union DOMAIN tree
<1>2. levels \in Seq(LevelShapes)
  BY GeneratorAssumption DEF G!GeneratorAssumption, LevelShapes
<1>3. /\ G!CountGeneratedLocations(levels) <= MostGenerated
      /\ generated' = [root |-> root, levels |-> levels]
      /\ tree' = [c \in DOMAIN tree \union codes |->
           IF c \in DOMAIN tree THEN tree[c]
           ELSE [parent |-> nodes[node(c)].parent, sequence |-> last + node(c)]]
  BY DEF G!Generate
<1>4. DOMAIN nodes = 1..Len(nodes)
  BY <1>1, <1>2, <1>3, ExpandedPaths DEF PathNodes
<1> HIDE DEF nodes, last
<1>5. \A c \in codes : node(c) \in new /\ nodes[node(c)].code = c
  OBVIOUS
<1>6. \A i \in 1..Len(nodes) : nodes[i].code \in DOMAIN tree \/ nodes[i].code \in codes
  BY <1>4
<1> HIDE DEF node
<1>7. ASSUME NEW c \in DOMAIN tree' \ DOMAIN tree
      PROVE  \E i \in 1..Len(nodes) :
               nodes[i].code = c /\ tree'[c] = [parent |-> nodes[i].parent, sequence |-> last + i]
  <2>1. c \in codes /\ node(c) \in 1..Len(nodes)
    BY <1>3, <1>4, <1>5
  <2> QED
    BY <1>3, <1>5, <2>1
<1> HIDE DEF codes
<1>8. CreatedNodes(root, nodes, last)
  BY <1>3, <1>6, <1>7 DEF CreatedNodes
<1> QED
  BY <1>1, <1>2, <1>3, <1>8 DEF nodes, last

LEMMA GenerateInv ==
  ASSUME GeneratorInv, NEW root \in {<<>>} \union DOMAIN tree, NEW levels \in LevelsAsked,
         G!Generate(root, levels)
  PROVE  GeneratorInv' /\ G!PlacesAfter
<1> DEFINE nodes == G!ExpandLevels(root, levels)
           last == G!LastSequence
           size == Len(nodes)
<1>1. /\ root \in LocationCodes /\ levels \in Seq(LevelShapes)
      /\ G!CountGeneratedLocations(levels) <= MostGenerated
      /\ CreatedNodes(root, nodes, last) /\ generated' = [root |-> root, levels |-> levels]
  BY GenerateCreates
<1>2. PathNodes(root, levels, nodes)
  BY <1>1, ExpandedPaths
<1>3. last \in Nat /\ \A c \in DOMAIN tree : tree[c].sequence <= last
  BY LastSequenceIsLast
<1> HIDE DEF nodes, last
<1>4. size \in Nat /\ \A i \in 1..size : nodes[i] \in Nodes
  BY <1>2 DEF PathNodes
<1> HIDE DEF size
<1>5. \A i \in 1..size : nodes[i].code \in LocationCodes /\ Len(nodes[i].code) \in Nat
  BY <1>4 DEF Nodes, LocationCodes
<1>6. \A c \in DOMAIN tree' \ DOMAIN tree : \E i \in 1..size :
        nodes[i].code = c /\ tree'[c].parent = nodes[i].parent /\ tree'[c].sequence = last + i
  BY <1>1 DEF CreatedNodes, size
<1>7. /\ DOMAIN tree \subseteq DOMAIN tree' /\ \A c \in DOMAIN tree : tree'[c] = tree[c]
      /\ \A i \in 1..size : nodes[i].code \in DOMAIN tree'
  BY <1>1 DEF CreatedNodes, size
<1>8. /\ \A i, j \in 1..size : i < j => Len(nodes[i].code) <= Len(nodes[j].code)
      /\ \A i \in 1..size :
           /\ Len(nodes[i].code) = Len(nodes[i].parent) + 1
           /\ nodes[i].parent = root \/ \E j \in 1..size : nodes[j].code = nodes[i].parent
      /\ \A x : (\E i \in 1..size : x = nodes[i].code) <=> x \in G!Paths(root, levels)
  BY <1>2 DEF PathNodes, size
<1>9. \A c \in DOMAIN tree : tree[c].parent \in DOMAIN tree \union {<<>>} /\ tree[c].sequence \in Nat
  BY DEF GeneratorInv, G!GeneratorTypeOK, G!NoCode
<1>10. DOMAIN tree' \subseteq LocationCodes
  BY <1>5, <1>6 DEF GeneratorInv
<1>11. ASSUME NEW c \in DOMAIN tree'
       PROVE  /\ tree'[c].parent \in DOMAIN tree' \union {<<>>}
              /\ tree'[c].sequence \in Nat /\ tree'[c].sequence <= last + size
  <2>1. CASE c \in DOMAIN tree
    BY <1>3, <1>4, <1>7, <1>9, <2>1
  <2>2. CASE c \notin DOMAIN tree
    <3>1. PICK i \in 1..size : tree'[c].parent = nodes[i].parent /\ tree'[c].sequence = last + i
      BY <1>6, <2>2
    <3>2. nodes[i].parent = root \/ nodes[i].parent \in DOMAIN tree'
      BY <1>7, <1>8
    <3> QED
      BY <1>3, <1>4, <1>7, <3>1, <3>2
  <2> QED
    BY <2>1, <2>2
<1>12. ASSUME NEW c \in DOMAIN tree' \ DOMAIN tree
       PROVE  /\ \A d \in DOMAIN tree : tree'[c].sequence > tree[d].sequence
              /\ tree'[c].parent \in DOMAIN tree' => tree'[tree'[c].parent].sequence < tree'[c].sequence
  <2>1. PICK i \in 1..size : /\ nodes[i].code = c /\ tree'[c].parent = nodes[i].parent
                             /\ tree'[c].sequence = last + i
    BY <1>6
  <2>2. \A d \in DOMAIN tree : tree'[c].sequence > tree[d].sequence
    BY <1>3, <1>4, <1>9, <2>1
  <2> DEFINE p == tree'[c].parent
  <2>3. ASSUME p \in DOMAIN tree' \ DOMAIN tree
        PROVE  tree'[p].sequence < tree'[c].sequence
    <3>1. PICK j \in 1..size : nodes[j].code = p /\ tree'[p].sequence = last + j
      BY <1>6, <2>3
    <3>2. Len(nodes[i].code) = Len(nodes[j].code) + 1
      BY <1>8, <2>1, <3>1
    <3>3. ~(Len(nodes[i].code) <= Len(nodes[j].code)) /\ i # j
      BY <1>5, <3>2
    <3>4. ~(i < j)
      BY <1>8, <3>3
    <3> QED
      BY <1>3, <1>4, <2>1, <3>1, <3>3, <3>4
  <2> QED
    BY <1>7, <2>2, <2>3
<1>13. G!GeneratesEveryPath'
  <2>1. G!Paths(root, levels) \subseteq DOMAIN tree'
    BY <1>7, <1>8
  <2>2. G!Cardinality(G!Paths(root, levels)) = G!CountGeneratedLocations(levels)
    BY <1>1, PathsCounted
  <2>3. generated'.root = root /\ generated'.levels = levels
    BY <1>1
  <2>4. /\ G!Paths(generated'.root, generated'.levels) = G!Paths(root, levels)
        /\ G!CountGeneratedLocations(generated'.levels) = G!CountGeneratedLocations(levels)
    BY <2>3
  <2> QED
    BY <2>1, <2>2, <2>4 DEF G!GeneratesEveryPath
<1>14. G!GeneratorTypeOK'
  BY <1>11 DEF G!GeneratorTypeOK, G!NoCode
<1>15. \E most \in Nat : \A c \in DOMAIN tree' : tree'[c].sequence <= most
  <2>1. last + size \in Nat
    BY <1>3, <1>4
  <2> QED
    BY <1>11, <2>1
<1>16. G!PlacesAfter
  BY <1>12 DEF G!PlacesAfter
<1> QED
  BY <1>10, <1>13, <1>14, <1>15, <1>16 DEF GeneratorInv

LEMMA CreateByHandInv ==
  ASSUME GeneratorInv, NEW code \in CodesByHand, NEW parent \in {<<>>} \union DOMAIN tree,
         G!CreateByHand(code, parent, MostGenerated)
  PROVE  GeneratorInv' /\ G!PlacesAfter
<1>1. /\ generated' = generated /\ MostGenerated \in Nat /\ code \in LocationCodes
      /\ DOMAIN tree' = DOMAIN tree \union {code} /\ code \notin DOMAIN tree
      /\ \A c \in DOMAIN tree : tree'[c] = tree[c]
      /\ tree'[code] = [parent |-> parent, sequence |-> MostGenerated]
  BY GeneratorAssumption DEF G!GeneratorAssumption, G!CreateByHand, LocationCodes, CodeParts
<1>2. G!GeneratorTypeOK'
  BY <1>1 DEF GeneratorInv, G!GeneratorTypeOK, G!NoCode
<1>3. \E most \in Nat : \A c \in DOMAIN tree' : tree'[c].sequence <= most
  <2>1. PICK most \in Nat : \A c \in DOMAIN tree : tree[c].sequence <= most
    BY DEF GeneratorInv
  <2>2. /\ most + MostGenerated \in Nat
        /\ \A c \in DOMAIN tree' : tree'[c].sequence <= most + MostGenerated
    BY <1>1, <1>2, <2>1 DEF GeneratorInv, G!GeneratorTypeOK
  <2> QED
    BY <2>2
<1>4. G!GeneratesEveryPath'
  <2>1. ASSUME generated # <<>>
        PROVE  /\ G!Paths(generated.root, generated.levels) \subseteq DOMAIN tree'
               /\ G!Cardinality(G!Paths(generated.root, generated.levels))
                    = G!CountGeneratedLocations(generated.levels)
    BY <1>1, <2>1 DEF GeneratorInv, G!GeneratesEveryPath
  <2> QED
    BY <1>1, <2>1 DEF G!GeneratesEveryPath
<1> QED
  BY <1>1, <1>2, <1>3, <1>4 DEF GeneratorInv, G!PlacesAfter

LEMMA GeneratorPart ==
  CompanySpec => /\ [](part = "generator" => GeneratorInv)
                 /\ [][part = "generator" => G!PlacesAfter]_companyVars
<1> DEFINE Inv == part = "generator" => GeneratorInv
<1>1. CompanyInit => Inv
  BY GeneratorStarts DEF CompanyInit
<1>2. Inv /\ [CompanyNext]_companyVars => Inv' /\ (part = "generator" => G!PlacesAfter)
  <2> SUFFICES ASSUME GeneratorInv, G!Next \/ UNCHANGED <<tree, generated>>
               PROVE  GeneratorInv' /\ G!PlacesAfter
    BY DEF CompanyNext, GeneratorNext, companyVars
  <2>1. CASE UNCHANGED <<tree, generated>>
    BY <2>1 DEF GeneratorInv, G!GeneratorTypeOK, G!GeneratesEveryPath, G!PlacesAfter
  <2>2. CASE G!Next
    BY <2>2, GenerateInv, CreateByHandInv DEF G!Next, G!NoCode
  <2> QED
    BY <2>1, <2>2
<1> QED
  BY <1>1, <1>2, PTL DEF CompanySpec

-----------------------------------------------------------------------------
(* What the run checks of them. *)

\* sequences.service.ts, products.service.ts and location-generator.ts: no two
\* documents get the same number, one that was given is not tried again, and no
\* creation is refused one unless MAX_ATTEMPTS in a row were typed by hand; a
\* scan finds the owner of a barcode; and a generation leaves a location for
\* every path of its levels, as many as were counted before.
THEOREM CodesAreSound == CompanySpec => []CodesSound
<1>1. /\ part = "sequence" => SequenceInv /\ N!AutomaticNeverRefused
      /\ part = "set sequence" => SetSequenceInv
      /\ part = "products alone" => ScanInv
      /\ part = "generator" => GeneratorInv
      => CodesSound
  BY NGives, SetGives, ScanGives DEF CodesSound, SequenceInv, SetSequenceInv, GeneratorInv
<1>2. CompanySpec => /\ [](part = "sequence" => SequenceInv)
                     /\ [](part = "set sequence" => SetSequenceInv)
                     /\ [](part = "generator" => GeneratorInv)
  BY SequencePart, SetSequencePart, GeneratorPart
<1> QED
  BY <1>1, <1>2, AutomaticPart, ScanPart, PTL

=============================================================================
