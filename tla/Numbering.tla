----------------------------- MODULE Numbering -----------------------------
(***************************************************************************)
(* The numbering of documents (sequences/sequence.ts and                   *)
(* sequences.controller.ts): one sequence of a tenant, the transactions    *)
(* that create documents with the next reference or with one typed by      *)
(* hand, and the changes of prefix and next number.                        *)
(*                                                                         *)
(* nextReference increments the row of the sequence in the transaction of  *)
(* the document, so the row stays locked until that transaction ends and   *)
(* an aborted one gives its numbers back.  A reference is a prefix and a   *)
(* number: padding changes how it is written and, like the prefix, which   *)
(* references are equal, so a prefix here stands for both.                 *)
(***************************************************************************)
EXTENDS Integers, FiniteSets

CONSTANTS Document,     \* documents that may be created
          Prefix,       \* prefixes and paddings of the sequence
          FirstPrefix,  \* SEQUENCE_DEFAULTS
          Typed,        \* references that users type
          NextValues,   \* next numbers that users set
          MaxAttempts,  \* MAX_ATTEMPTS
          MaxValue      \* bound: numbers

\* What an instance has to give its constants.
NumberingAssumption ==
  /\ FirstPrefix \in Prefix
  /\ Typed \subseteq Prefix \X (1..MaxValue)
  /\ NextValues \subseteq 1..MaxValue
  /\ {MaxAttempts, MaxValue} \subseteq Nat \ {0}

VARIABLES sequence,   \* the committed row: prefix and next value
          documents,  \* document -> none, creating or created, with its reference
          gaveUp      \* creations that found no free reference

vars == <<sequence, documents, gaveUp>>

NoDocument == [stage |-> "none"]

\* Mutated form: numbers start from zero.
InitFromZero ==
  /\ sequence = [prefix |-> FirstPrefix, next |-> 0]
  /\ documents = [d \in Document |-> NoDocument]
  /\ gaveUp = {}

Init ==
  /\ sequence = [prefix |-> FirstPrefix, next |-> 1]
  /\ documents = [d \in Document |-> NoDocument]
  /\ gaveUp = {}

At(stage) == {d \in Document : documents[d].stage = stage}
References == {documents[d].reference : d \in At("created")}
IsTaken(reference) == reference \in References

\* Mutated form: the next value is read and written back without a lock.
NeverLocked == TRUE

\* The row is locked by a transaction that took a number and has not ended.
RowFree == \A d \in At("creating") : documents[d].typed

\* Mutated form: the first attempt is not counted.
CandidatesAfterFirst == sequence.next..(sequence.next + MaxAttempts - 2)

\* The numbers one call of nextReference tries.
Candidates == sequence.next..(sequence.next + MaxAttempts - 1)
FreeCandidates == {n \in Candidates : ~IsTaken(<<sequence.prefix, n>>)}

\* Mutated form: the last number that may be tried.
LastFree == CHOOSE n \in FreeCandidates : \A k \in FreeCandidates : k <= n

FirstFree == CHOOSE n \in FreeCandidates : \A k \in FreeCandidates : n <= k
\* nextReference
NextReference(d) ==
  /\ documents[d].stage = "none" /\ RowFree
  /\ FreeCandidates # {} /\ FirstFree < MaxValue
  /\ documents' = [documents EXCEPT ![d] =
       [stage |-> "creating", typed |-> FALSE, next |-> sequence.next,
        reference |-> <<sequence.prefix, FirstFree>>]]
  /\ UNCHANGED <<sequence, gaveUp>>

\* nextReference, after the last attempt: the transaction is rolled back.
GiveUp(d) ==
  /\ documents[d].stage = "none" /\ RowFree
  /\ FreeCandidates = {}
  /\ gaveUp' = gaveUp \union {d}
  /\ UNCHANGED <<sequence, documents>>

\* A creation with dto.reference
TypeReference(d, reference) ==
  /\ documents[d].stage = "none"
  /\ documents' = [documents EXCEPT ![d] =
       [stage |-> "creating", typed |-> TRUE, reference |-> reference]]
  /\ UNCHANGED <<sequence, gaveUp>>

\* Mutated form: one more for every document, whatever it was given.
AdvancedByOne(d) ==
  IF documents[d].typed THEN sequence ELSE [sequence EXCEPT !.next = @ + 1]

\* What the transaction leaves in the sequence when it commits.
Advanced(d) ==
  IF documents[d].typed THEN sequence
  ELSE [sequence EXCEPT !.next = documents[d].reference[2] + 1]
\* create of the document; references are unique per tenant.
Commit(d) ==
  /\ documents[d].stage = "creating" /\ ~IsTaken(documents[d].reference)
  /\ documents' = [documents EXCEPT ![d].stage = "created"]
  /\ sequence' = Advanced(d)
  /\ UNCHANGED gaveUp

\* The transaction fails: the reference was taken meanwhile, or there is no
\* stock for the document.
Rollback(d) ==
  /\ documents[d].stage = "creating"
  /\ documents' = [documents EXCEPT ![d] = NoDocument]
  /\ UNCHANGED <<sequence, gaveUp>>

\* update of the sequences controller
UpdateSequence(prefix, next) ==
  /\ RowFree
  /\ sequence' = [prefix |-> prefix, next |-> next]
  /\ UNCHANGED <<documents, gaveUp>>

Next ==
  \/ \E d \in Document : NextReference(d) \/ GiveUp(d) \/ Commit(d) \/ Rollback(d)
  \/ \E d \in Document, reference \in Typed : TypeReference(d, reference)
  \/ \E prefix \in Prefix, next \in NextValues : UpdateSequence(prefix, next)

Spec == Init /\ [][Next]_vars

-----------------------------------------------------------------------------
(* Correctness *)

\* Type invariant: the sequence and the documents are well formed.
NumberingTypeOK ==
  /\ sequence \in [prefix : Prefix, next : 1..MaxValue]
  /\ \A d \in Document \ At("none") : documents[d].reference \in Prefix \X (1..MaxValue)

\* Takes the next value atomically: two documents that are being numbered or
\* are numbered automatically never have the same reference, even if a
\* transaction fails and gives its number back.
NeverShared ==
  \A d, e \in At("creating") \union At("created") :
    d # e /\ ~documents[d].typed /\ documents[e].stage = "creating" /\ ~documents[e].typed
    => documents[d].reference # documents[e].reference

\* References are consecutive: a number that an automatic creation passes
\* over belongs to a document.
SkipsOnlyTaken ==
  \A d \in Document :
    documents[d].stage = "creating" /\ documents'[d].stage = "created" /\ ~documents[d].typed
    => \A n \in sequence.next..(documents[d].reference[2] - 1) : IsTaken(<<sequence.prefix, n>>)

OnlyTakenSkipped == [][SkipsOnlyTaken]_vars

\* While nobody moves the sequence, a number it gave out lies behind it: the
\* next creation does not try it again.
NoSecondTry ==
  \A d \in At("created") : ~documents[d].typed => documents[d].reference[2] < sequence.next

\* Skips values already used by references typed by hand: a creation without
\* a reference always gets one.
AutomaticNeverRefused == gaveUp = {}

=============================================================================
