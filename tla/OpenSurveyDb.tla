---------------------------- MODULE OpenSurveyDb ----------------------------
(***************************************************************************)
(* The open survey on the server: the fields that administrators define    *)
(* for an event, and the answers of one organisation.  A submission reads  *)
(* the fields and the rows there are, and later writes: no constraint      *)
(* makes a field's row of an organisation unique.  An edit of a field is   *)
(* read and written too, and writes the columns it has seen to differ.     *)
(***************************************************************************)
EXTENDS Naturals, Sequences, FiniteSets, SequencesExt

CONSTANTS
  Events,
  Options,      \* the options of choice fields
  Word,         \* what is typed into a text field
  MaxFields,    \* bound: fields that are ever defined
  Nothing

Maybe(S) == S \union {Nothing}

ASSUME DbAssumption ==
  /\ IsFiniteSet(Options) /\ Word \notin Options
  /\ MaxFields \in Nat
  /\ Nothing \notin Events

\* select is as radio, and number as text.
Types  == {"text", "radio", "checkbox"}
Choice == {"radio", "checkbox"}

Ids    == 1 .. MaxFields
Orders == Nat

\* An answer is one string: empty, a word, or the options of a choice.
Answer == SUBSET (Options \union {Word})

Columns == [type: Types, options: SUBSET Options, required: BOOLEAN,
            order: Orders, active: BOOLEAN]

VARIABLES
  phase,   \* events whose survey_open phase is open
  owner,   \* the event of each field, in the order of their ids
  field,   \* the fields
  rows     \* the organisation's answers: <<field, value>>, in the order of their ids

db == <<phase, owner, field, rows>>

DbTypeOK ==
  /\ phase \subseteq Events
  /\ owner \in Seq(Events) /\ field \in Seq(Columns)
  /\ Len(owner) = Len(field) /\ Len(field) <= MaxFields
  /\ rows \in Seq((1 .. Len(field)) \X Answer)

-----------------------------------------------------------------------------
(* Reads.                                                                  *)

Defined(e) == {f \in DOMAIN field : owner[f] = e}
Active(e)  == {f \in Defined(e) : field[f].active}

\* ORDER BY sort_order, id
Before(f, g) == field[f].order < field[g].order \/ (field[f].order = field[g].order /\ f < g)
\* ... as a sequence: at each place the field that as many others are before.
Sorted(F) == [i \in 1 .. Cardinality(F) |-> CHOOSE f \in F : Cardinality({g \in F : Before(g, f)}) = i - 1]
ListFields(e, all) == Sorted(IF all THEN Defined(e) ELSE Active(e))

RowsOf(f) == {i \in DOMAIN rows : rows[i][1] = f}

\* A field's row, of those there are: which one is last is not specified.
Found(F) == {g \in [{f \in F : RowsOf(f) # {}} -> DOMAIN rows] : \A f \in DOMAIN g : rows[g[f]][1] = f}

\* What the organisation sees of a field: {} stands for an answer there is not.
Seen(f, g) == [type |-> field[f].type, options |-> field[f].options, required |-> field[f].required,
               value |-> IF f \in DOMAIN g THEN rows[g[f]][2] ELSE {}]
FillViews(e) == {[f \in Active(e) |-> Seen(f, g)] : g \in Found(Active(e))}

\* Fault: optional answers count as well.
CountAll(F) == Cardinality({i \in DOMAIN rows : rows[i][2] # {}})
\* count(*) FILTER (WHERE ...): rows, not fields
Count(F) == Cardinality({i \in DOMAIN rows : rows[i][1] \in F /\ rows[i][2] # {}})

Required(e)  == {f \in Active(e) : field[f].required}
Completed(e) == Count(Required(e)) >= Cardinality(Required(e))

-----------------------------------------------------------------------------
(* Writes.                                                                 *)

Define(e, c)   == owner' = Append(owner, e) /\ field' = Append(field, c) /\ UNCHANGED <<phase, rows>>
Differs(f, c)  == [k \in {k \in DOMAIN c : c[k] # field[f][k]} |-> c[k]]
Patched(c, diff) == [k \in DOMAIN c |-> IF k \in DOMAIN diff THEN diff[k] ELSE c[k]]
Write(f, diff) ==
  /\ field' = [field EXCEPT ![f] = Patched(@, diff)]
  /\ UNCHANGED <<phase, owner, rows>>

Gate(e)         == e \in phase
Known(e, given) == DOMAIN given \subseteq Active(e)

\* The rows found are updated, the others are new.
New(given, found) ==
  LET ids == Sorted(DOMAIN given \ DOMAIN found)
  IN [i \in DOMAIN ids |-> <<ids[i], given[ids[i]]>>]
Upsert(given, found) ==
  /\ rows' = [i \in DOMAIN rows |-> IF \E f \in DOMAIN found : found[f] = i
                                    THEN <<rows[i][1], given[rows[i][1]]>> ELSE rows[i]]
             \o New(given, found)
  /\ UNCHANGED <<phase, owner, field>>

SwitchPhase(e) ==
  phase' = (IF e \in phase THEN phase \ {e} ELSE phase \union {e}) /\ UNCHANGED <<owner, field, rows>>
=============================================================================
