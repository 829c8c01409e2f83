---------------------------- MODULE CustomFields ----------------------------
(***************************************************************************)
(* The fields a company adds to its products, partners and locations       *)
(* (custom-fields/), and the values one record has of them.  A request     *)
(* reads the record, reads the definitions and writes all values back, in  *)
(* statements of their own, while administrators edit the definitions.  An *)
(* import and a generation of locations make records with no values.       *)
(*                                                                         *)
(* A text is a word; numbers stand for the types that are not words        *)
(* (number, boolean and date).  Abstracted: labels, order and messages.    *)
(***************************************************************************)
EXTENDS Naturals, FiniteSets

CONSTANTS Key, Word, Number,
          Empty,       \* null or '', which removes a value
          Request      \* requests that run at the same time

Value == Word \union Number

\* What an instance has to give its constants.
CustomFieldsAssumption == Empty \notin Value /\ Word \intersect Number = {}

VARIABLES fields,   \* custom_field_definitions, by key
          record,   \* customFields of the record, once there is one
          doing     \* what each request does

vars == <<fields, record, doing>>

Idle == [stage |-> "idle"]
NoRecord == [exists |-> FALSE, values |-> [k \in {} |-> Empty]]

Init ==
  /\ fields = [k \in {} |-> Empty]
  /\ record = NoRecord
  /\ doing = [q \in Request |-> Idle]

Type == {"text", "number", "select"}

-----------------------------------------------------------------------------
(* Definitions *)

\* assertOptions
OptionsFit(type, options) == (type = "select") <=> (options # {})

CreateField(k, type, options, required) ==
  /\ k \notin DOMAIN fields /\ OptionsFit(type, options)
  /\ fields' = [j \in DOMAIN fields \union {k} |->
       IF j = k THEN [type |-> type, options |-> options, required |-> required, active |-> TRUE]
       ELSE fields[j]]
  /\ UNCHANGED <<record, doing>>

\* Mutated form: a field that is not of a list becomes one with options.
TypeOfOptions(k, options) == IF options # {} THEN "select" ELSE fields[k].type

\* "The type and key stay fixed": update does not take them.
TypeAfter(k, options) == fields[k].type

UpdateField(k, options, required, active) ==
  LET type == TypeAfter(k, options)
  IN  /\ OptionsFit(type, options)
      /\ fields' = [fields EXCEPT ![k] =
           [type |-> type, options |-> options, required |-> required, active |-> active]]
      /\ UNCHANGED <<record, doing>>

-----------------------------------------------------------------------------
(* Values *)

\* checkType
CheckType(field, v) ==
  CASE field.type = "text" -> v \in Word
    [] field.type = "number" -> v \in Number
    [] field.type = "select" -> v \in field.options

Definitions == {k \in DOMAIN fields : fields[k].active}

\* Mutated form: a required field may be cleared.
ValidOrEmpty(k, v) == k \in Definitions /\ (v = Empty \/ CheckType(fields[k], v))

\* What applyCustomValues accepts for a key that was sent.
Accepts(k, v) ==
  k \in Definitions /\ IF v = Empty THEN ~fields[k].required ELSE CheckType(fields[k], v)

\* Mutated form: the values the record had are forgotten.
OnlySent(current, input) ==
  LET kept == {k \in DOMAIN input : input[k] # Empty}
  IN  [k \in kept |-> input[k]]

\* values of applyCustomValues
Merge(current, input) ==
  LET kept == {k \in DOMAIN current \union DOMAIN input : k \in DOMAIN input => input[k] # Empty}
  IN  [k \in kept |-> IF k \in DOMAIN input THEN input[k] ELSE current[k]]

\* Mutated form: an edit must bring every required field.
AlwaysComplete(mode, current, input) ==
  /\ \A k \in DOMAIN input : Accepts(k, input[k])
  /\ \A k \in Definitions : fields[k].required => k \in DOMAIN Merge(current, input)

\* Whether applyCustomValues finds no error.
Valid(mode, current, input) ==
  /\ \A k \in DOMAIN input : Accepts(k, input[k])
  /\ mode = "create" =>
       \A k \in Definitions : fields[k].required => k \in DOMAIN Merge(current, input)

Input == UNION {[sent -> Value \union {Empty}] : sent \in SUBSET Key}

\* create and update of products, partners and locations (read)
Read(q, input) ==
  /\ doing[q] = Idle
  /\ doing' = [doing EXCEPT ![q] =
       [stage |-> "read", mode |-> IF record.exists THEN "update" ELSE "create",
        current |-> record.values, input |-> input]]
  /\ UNCHANGED <<fields, record>>

\* resolveCustomFields
Resolve(q) ==
  LET d == doing[q]
  IN  /\ d.stage = "read"
      /\ doing' = [doing EXCEPT ![q] =
           IF Valid(d.mode, d.current, d.input)
           THEN [stage |-> "resolved", mode |-> d.mode, values |-> Merge(d.current, d.input)]
           ELSE Idle]
      /\ UNCHANGED <<fields, record>>

\* create and update (row): a code that was taken meanwhile is refused.
Write(q) ==
  /\ doing[q].stage = "resolved"
  /\ record' = IF doing[q].mode = "create" /\ record.exists THEN record
               ELSE [exists |-> TRUE, values |-> doing[q].values]
  /\ doing' = [doing EXCEPT ![q] = Idle]
  /\ UNCHANGED fields

\* planProducts and planLocations (apply), and generate: a row with no custom
\* values, of which none is asked.  One there was keeps its own.
MakeBare ==
  /\ ~record.exists
  /\ record' = [exists |-> TRUE, values |-> record.values]
  /\ UNCHANGED <<fields, doing>>

Next ==
  \/ \E k \in Key, options \in SUBSET Word, required \in BOOLEAN :
       \/ \E type \in Type : CreateField(k, type, options, required)
       \/ k \in DOMAIN fields /\ \E active \in BOOLEAN : UpdateField(k, options, required, active)
  \/ \E q \in Request :
       (\E input \in Input : Read(q, input)) \/ Resolve(q) \/ Write(q)
  \/ MakeBare

Spec == Init /\ [][Next]_vars

\* Definitions change, and imports run, between requests only.
Settled == doing' = doing => \A q \in Request : doing[q] = Idle

\* And there is one request at a time.
AloneNext ==
  Next /\ Settled /\ Cardinality({q \in Request : doing'[q] # Idle}) <= 1

-----------------------------------------------------------------------------
(* Correctness *)

MeaningOf(k) == IF fields[k].type = "number" THEN Number ELSE Word

\* Type invariant: "The type and key stay fixed so stored values keep their
\* meaning", whatever options come and go while values are written.
MeaningKept ==
  /\ \A k \in DOMAIN fields : fields[k].type \in Type
  /\ \A k \in DOMAIN record.values : k \in DOMAIN fields /\ record.values[k] \in MeaningOf(k)

\* "adding a required field later does not block unrelated edits of existing
\* records": whatever was done to the definitions since it was written, each
\* field of a record can be set on its own.
StaysEditable ==
  record.exists =>
    \A k \in Definitions : \A v \in Value :
      Accepts(k, v) => Valid("update", record.values, [j \in {k} |-> v])

\* "Required fields are enforced when creating, and on updates only for the keys
\* being cleared": a record that a request creates has them, and no record loses
\* one.  Those that an import or a generation creates may have none.
KeepsRequired ==
  \A k \in Definitions :
    fields[k].required =>
      /\ record.exists /\ k \in DOMAIN record.values => k \in DOMAIN record'.values
      /\ ~record.exists /\ record'.exists /\ doing' # doing => k \in DOMAIN record'.values

RequiredKept == [][KeepsRequired]_vars

=============================================================================
