---------------------------- MODULE CustomFields ----------------------------
(***************************************************************************)
(* A custom field of a project (routers/custom_fields.py) and the values   *)
(* that rows of the project have for it (services/custom_fields.py,        *)
(* schemas/custom_field.py).  The field is a select: its values are sets   *)
(* of options, of one option if the type is single_select.                 *)
(*                                                                         *)
(* Each action is one request, served alone.                               *)
(***************************************************************************)
EXTENDS Naturals, FiniteSetsExt

CONSTANTS
  Options,       \* the values of options
  Rows,          \* rows of the entity that has the field, in the project
  MaxRequests    \* bound: requests served in all

REQUIRES_DEFAULT_ENTITY_TYPES == {"execution", "test_case"}
Absent == {"absent"}

VARIABLES
  dialect,    \* the database: "postgresql", or "sqlite" as in the tests
  entity,     \* the table the field is of
  type,       \* "single_select" or "multi_select"
  field,      \* table custom_field_definitions: {} or one row
  value,      \* column custom_fields: of a row, what it has for the field, or Absent
  exists,     \* the rows there are
  elsewhere,  \* the options that rows of other projects have for a field of that name
  requests,   \* requests served so far
  loose,      \* history: options that an unchecked default or a copy may have brought
  cleared     \* history: the default of a required field was cleared

vars == <<dialect, entity, type, field, value, exists, elsewhere, requests, loose, cleared>>

Values == {v \in SUBSET Options : type = "single_select" => Cardinality(v) = 1}

TypeOK ==
  /\ Cardinality(field) <= 1
  /\ \A f \in field :
       /\ f.options \subseteq Options /\ f.options # {}
       /\ f.required \in BOOLEAN /\ f.archived \in BOOLEAN
       /\ f.default = Absent \/ f.default \in Values
  /\ \A r \in Rows : value[r] = Absent \/ (r \in exists /\ value[r] \in Values)
  /\ loose \subseteq Options /\ requests \in 0 .. MaxRequests

Init ==
  /\ dialect \in {"postgresql", "sqlite"}
  /\ entity \in {"bug", "test_case", "execution"}
  /\ type \in {"single_select", "multi_select"}
  /\ field = {} /\ exists = {}
  /\ value = [r \in Rows |-> Absent]
  /\ elsewhere \in SUBSET Options
  /\ requests = 0 /\ loose = {} /\ cleared = FALSE

Serve == requests < MaxRequests /\ requests' = requests + 1 /\ UNCHANGED <<dialect, entity, type, elsewhere>>

OfValue(v) == IF v = Absent THEN {} ELSE v
Held == UNION {OfValue(value[r]) : r \in exists}

-----------------------------------------------------------------------------
(* The field.                                                              *)
\* create_custom_field: _enforce_default_value, _enforce_required_default_rule, and the
\* constraint that refuses a second field of that name.
CreateField(options, required, default) ==
  /\ Serve
  /\ field = {}
  /\ default = Absent \/ default \subseteq options
  /\ required /\ entity \in REQUIRES_DEFAULT_ENTITY_TYPES => default # Absent
  /\ field' = {[options |-> options, required |-> required, default |-> default, archived |-> FALSE]}
  /\ UNCHANGED <<value, exists, loose, cleared>>

\* Mutant: only values that are strings, those of a single_select, are looked at.
StringsInUse == (IF type = "single_select" THEN Held ELSE {}) \union elsewhere

\* _option_values_in_use looks at the rows of all projects.
ValuesInUse == Held \union elsewhere

\* _guard_options_change
GuardOptions(f, options, default) ==
  /\ (f.options \ options) \intersect ValuesInUse = {}
  /\ default = Absent \/ default \subseteq options

\* update_custom_field with options: the default is the new one, if there is one.  That a
\* required field has a default is looked at only if required is sent.
UpdateOptions(f, options, default, required, sent) ==
  /\ Serve
  /\ GuardOptions(f, options, default)
  /\ IF sent THEN required /\ entity \in REQUIRES_DEFAULT_ENTITY_TYPES => default # Absent
     ELSE required = f.required
  /\ field' = {[f EXCEPT !.options = options, !.default = default, !.required = required]}
  /\ cleared' = (~sent /\ required /\ default = Absent)
  /\ UNCHANGED <<value, exists, loose>>

\* update_custom_field with a default and no options: it is not compared with them, and
\* the default of a required field can be cleared.
UpdateDefault(f, default) ==
  /\ Serve
  /\ field' = {[f EXCEPT !.default = default]}
  /\ loose' = loose \union OfValue(default)
  /\ cleared' = (f.required /\ default = Absent)
  /\ UNCHANGED <<value, exists>>

\* update_custom_field with required alone.
UpdateRequired(f, required) ==
  /\ Serve
  /\ required /\ entity \in REQUIRES_DEFAULT_ENTITY_TYPES => f.default # Absent
  /\ field' = {[f EXCEPT !.required = required]}
  /\ cleared' = (cleared /\ required)
  /\ UNCHANGED <<value, exists, loose>>

\* delete_custom_field: no row, of any project, may have the field.  On PostgreSQL the query
\* that looks for one fails (? is an operator of jsonb, and the columns are json): the
\* request is an error, and no field is ever deleted.
DeleteField(f) ==
  /\ Serve
  /\ dialect = "sqlite"
  /\ elsewhere = {} /\ \A r \in exists : value[r] = Absent
  /\ field' = {} /\ cleared' = FALSE
  /\ UNCHANGED <<value, exists, loose>>

\* archive_custom_field and unarchive_custom_field
ArchiveField(f) ==
  /\ Serve
  /\ field' = {[f EXCEPT !.archived = ~@]}
  /\ UNCHANGED <<value, exists, loose, cleared>>

-----------------------------------------------------------------------------
(* Rows: validate_payload, called by whoever creates or edits one.         *)
Active == {f \in field : ~f.archived}

\* The payload has the field: None takes it away, another value is checked.
Checked(v) == v = Absent \/ \A f \in Active : v \subseteq f.options

\* _apply_default_or_require
Fails == \E f \in Active : f.required /\ f.default = Absent
Default == IF Active = {} THEN Absent ELSE (CHOOSE f \in Active : TRUE).default

CreateRow(r) ==
  /\ Serve
  /\ r \notin exists /\ ~Fails
  /\ exists' = exists \union {r}
  /\ value' = [value EXCEPT ![r] = Default]
  /\ UNCHANGED <<field, loose, cleared>>

\* A row is created or edited with a value for the field; nothing is kept for a field
\* that is archived or not there.
WriteRow(r, v) ==
  /\ Serve
  /\ Checked(v)
  /\ exists' = exists \union {r}
  /\ value' = IF Active = {} THEN value ELSE [value EXCEPT ![r] = v]
  /\ UNCHANGED <<field, loose, cleared>>

\* cases.py, _clone_case: a copy of a case of another project has what the case has.
CopyRow(r, v) ==
  /\ entity = "test_case" /\ v \subseteq elsewhere /\ r \notin exists
  /\ Serve
  /\ exists' = exists \union {r}
  /\ value' = [value EXCEPT ![r] = v]
  /\ loose' = loose \union v
  /\ UNCHANGED <<field, cleared>>

DeleteRow(r) ==
  /\ Serve
  /\ r \in exists
  /\ exists' = exists \ {r} /\ value' = [value EXCEPT ![r] = Absent]
  /\ UNCHANGED <<field, loose, cleared>>

Next ==
  \/ \E o \in (SUBSET Options) \ {{}}, q \in BOOLEAN, d \in {Absent} \union Values : CreateField(o, q, d)
  \/ \E f \in field :
       \/ \E o \in (SUBSET Options) \ {{}}, d \in {Absent} \union Values, q \in BOOLEAN :
            \E sent \in BOOLEAN : UpdateOptions(f, o, d, q, sent)
       \/ \E d \in {Absent} \union Values : UpdateDefault(f, d)
       \/ \E q \in BOOLEAN : UpdateRequired(f, q)
       \/ DeleteField(f) \/ ArchiveField(f)
  \/ \E r \in Rows :
       \/ CreateRow(r) \/ DeleteRow(r)
       \/ \E v \in Values : WriteRow(r, v) \/ CopyRow(r, v)
       \/ WriteRow(r, Absent)

Spec == Init /\ [][Next]_vars

-----------------------------------------------------------------------------
\* custom_fields.py, _guard_options_change: "Refuse option edits that orphan existing
\* values".  A row has options of the field only, but for those that a default set without
\* the options, or a copy from another project, has brought.
NoGhosts == \A f \in field : Held \subseteq f.options \union loose

\* Values outlive no field: one that is created, after another was deleted, finds none of
\* the earlier one.
NoLeftovers == field = {} => Held \subseteq loose

\* A row of an execution or a case can be created without a value, unless the default of
\* a required field was cleared.  The manual (custom-fields.md:32) says that an update that
\* leaves a required field without a default is rejected, and that a row always carries a
\* value: the code rejects only updates that send required, and WriteRow(r, Absent) takes
\* the value of a required field away.
DefaultsHelp == entity \in REQUIRES_DEFAULT_ENTITY_TYPES /\ ~cleared => ~Fails

FieldsHold == TypeOK /\ NoGhosts /\ NoLeftovers /\ DefaultsHelp
=============================================================================
