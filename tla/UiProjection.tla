---------------------------- MODULE UiProjection ----------------------------
(***************************************************************************)
(* The editor of a projection or a join (ProjectionEditor.js): the list of *)
(* the output fields, of which one is selected, and for a field that is    *)
(* computed a code editor with its expression.                             *)
(*                                                                         *)
(* There is one code editor for all the fields.  What is typed is handed   *)
(* over half a second later, to the field that is selected then; and every *)
(* render of the page gives the code editor the expression of the selected *)
(* field anew.  A check runs on the server, and its message is shown when  *)
(* it comes, below whatever field is selected.                             *)
(*                                                                         *)
(* A text carries the field that it was typed for.  The sources, the name  *)
(* and the type of a field go with it and are left out.                    *)
(***************************************************************************)
EXTENDS Integers, SequencesExt

CONSTANTS
    Code,              \* what can be typed into the code editor
    Blank,             \* the expression of a new field
    MaxOutputFields,   \* bound: fields at a time
    MaxNewFields,      \* bound: fields that are ever made
    MaxChecks          \* bound: checks of a field that the server has not answered

ASSUME ProjectionAssumption ==
    /\ Blank \notin Code
    /\ {MaxOutputFields, MaxNewFields, MaxChecks} \subseteq Nat /\ MaxOutputFields # 0

VARIABLES
    outputs,     \* the output fields, each with the expression that was meant (history)
    row,         \* selectedRowKeys: the place of the selected field
    buffer,      \* the text in the code editor
    checks,      \* the checks of each field that have not been answered
    verdict,     \* validationResult: the field that the message is about, or NoField
    newFields,   \* how many fields were made
    hurried,     \* a render came within half a second of a key (history)
    strayed      \* another field was selected while a message was shown or due (history)

projectionVars == <<outputs, row, buffer, checks, verdict, newFields, hurried, strayed>>
-----------------------------------------------------------------------------
Key == 1..MaxNewFields
NoField == 0
OperationType == {"ADD", "SQL", "TRANSFORM"}
Text == [for : 0..MaxNewFields, code : Code \cup {Blank}]
OutputField == [key : Key, kind : OperationType, text : Text, meant : Text]
NoEditor == [for |-> NoField, code |-> Blank]   \* there is no code editor

ProjectionTypeOK ==
    /\ outputs \in Seq(OutputField) /\ Len(outputs) <= MaxOutputFields
    /\ \A i, j \in DOMAIN outputs : i # j => outputs[i].key # outputs[j].key
    /\ row \in -1..MaxOutputFields
    /\ buffer \in Text
    /\ checks \in [Key -> 0..MaxChecks]
    /\ verdict \in 0..MaxNewFields
    /\ newFields \in 0..MaxNewFields
    /\ {hurried, strayed} \subseteq BOOLEAN

ProjectionInit ==
    /\ outputs = <<>> /\ row = 1 /\ buffer = NoEditor
    /\ checks = [k \in Key |-> 0] /\ verdict = NoField /\ newFields = 0
    /\ hurried = FALSE /\ strayed = FALSE

(* getSelectedField and getEditorType: what the code editor is given. *)
Expression(list, r) ==
    IF r \in DOMAIN list /\ list[r].kind \in {"SQL", "TRANSFORM"} THEN list[r].text ELSE NoEditor

HasEditor == Expression(outputs, row) # NoEditor
Typing == buffer # Expression(outputs, row)

(* For the mutation checks: a code editor that is there keeps its text.    *)
RenderKeepingText(list, r) ==
    /\ outputs' = list /\ row' = r
    /\ buffer' = IF HasEditor /\ Expression(list, r) # NoEditor THEN buffer ELSE Expression(list, r)
    /\ hurried' = (hurried \/ Typing)

(* A render with these fields and this selection. *)
Render(list, r) ==
    /\ outputs' = list /\ row' = r
    /\ buffer' = Expression(list, r)
    /\ hurried' = (hurried \/ Typing)
-----------------------------------------------------------------------------
(* The list.                                                               *)

Swap(list, i) == [list EXCEPT ![i] = list[i + 1], ![i + 1] = list[i]]
Checking == \E k \in Key : checks[k] > 0
Strays == strayed' = (strayed \/ verdict # NoField \/ Checking)

SelectField(i) ==
    /\ i \in DOMAIN outputs \ {row}
    /\ Render(outputs, i)
    /\ verdict' = NoField
    /\ strayed' = (strayed \/ Checking)
    /\ UNCHANGED <<checks, newFields>>

(* The new field comes last and is selected; the message stays. *)
NewField ==
    /\ Len(outputs) < MaxOutputFields /\ newFields < MaxNewFields
    /\ LET text == [for |-> newFields + 1, code |-> Blank]
           field == [key |-> newFields + 1, kind |-> "SQL", text |-> text, meant |-> text]
       IN  Render(Append(outputs, field), Len(outputs) + 1)
    /\ newFields' = newFields + 1
    /\ Strays
    /\ UNCHANGED <<checks, verdict>>

(* The field below, or else the one above, is selected. *)
DropField ==
    /\ row >= 1
    /\ Render(IF row \in DOMAIN outputs THEN RemoveAt(outputs, row) ELSE outputs,
              IF row < Len(outputs) THEN row ELSE Len(outputs) - 1)
    /\ Strays
    /\ UNCHANGED <<checks, verdict, newFields>>

(* For the mutation checks: the place stays selected, not the field.       *)
MoveUpInPlace ==
    /\ row > 1 /\ row \in DOMAIN outputs
    /\ Render(Swap(outputs, row - 1), row)
    /\ UNCHANGED <<checks, verdict, newFields, strayed>>

MoveUp ==
    /\ row > 1 /\ row \in DOMAIN outputs
    /\ Render(Swap(outputs, row - 1), row - 1)
    /\ UNCHANGED <<checks, verdict, newFields, strayed>>

MoveDown ==
    /\ row >= 1 /\ row < Len(outputs)
    /\ Render(Swap(outputs, row), row + 1)
    /\ UNCHANGED <<checks, verdict, newFields, strayed>>
-----------------------------------------------------------------------------
(* The selected field: updateOutputField.                                  *)

(* How it is computed; only a field with an expression has a code editor. *)
SetOperationType(kind) ==
    /\ row \in DOMAIN outputs /\ kind # outputs[row].kind
    /\ Render([outputs EXCEPT ![row].kind = kind], row)
    /\ UNCHANGED <<checks, verdict, newFields, strayed>>

(* Its name, its type or its sources are set: the page is rendered. *)
SetDetail ==
    /\ row \in DOMAIN outputs
    /\ Render(outputs, row)
    /\ UNCHANGED <<checks, verdict, newFields, strayed>>

TypeCode(code) ==
    /\ HasEditor /\ code # buffer.code
    /\ buffer' = [for |-> outputs[row].key, code |-> code]
    /\ outputs' = [outputs EXCEPT ![row].meant = buffer']
    /\ UNCHANGED <<row, checks, verdict, newFields, hurried, strayed>>

(* Half a second after the last key. *)
CodeChanged ==
    /\ HasEditor /\ Typing
    /\ outputs' = [outputs EXCEPT ![row].text = buffer]
    /\ UNCHANGED <<row, buffer, checks, verdict, newFields, hurried, strayed>>

(* validate: the expression as it was handed over goes to the server.      *)
Validate ==
    /\ HasEditor /\ checks[outputs[row].key] < MaxChecks
    /\ Render(outputs, row)
    /\ checks' = [checks EXCEPT ![outputs[row].key] = @ + 1]
    /\ verdict' = NoField
    /\ UNCHANGED <<newFields, strayed>>

(* The answer of the check of field k. *)
Validated(k) ==
    /\ checks[k] > 0
    /\ Render(outputs, row)
    /\ checks' = [checks EXCEPT ![k] = @ - 1] /\ verdict' = k
    /\ UNCHANGED <<newFields, strayed>>

(* The check cannot be made: Resource shows the error. *)
NotValidated(k) ==
    /\ checks[k] > 0
    /\ checks' = [checks EXCEPT ![k] = @ - 1]
    /\ UNCHANGED <<outputs, row, buffer, verdict, newFields, hurried, strayed>>

ProjectionNext ==
    \/ \E i \in DOMAIN outputs : SelectField(i)
    \/ NewField \/ DropField \/ MoveUp \/ MoveDown
    \/ \E kind \in OperationType : SetOperationType(kind)
    \/ SetDetail
    \/ \E code \in Code : TypeCode(code)
    \/ CodeChanged
    \/ Validate
    \/ \E k \in Key : Validated(k) \/ NotValidated(k)

ProjectionSpec == ProjectionInit /\ [][ProjectionNext]_projectionVars
-----------------------------------------------------------------------------
(* A text that was typed for a field never becomes the expression of       *)
(* another, whatever is done before it is handed over; and it becomes that *)
(* field's, unless the page was rendered within half a second.             *)
ExpressionsAreTheirOwn ==
    \A i \in DOMAIN outputs :
        /\ outputs[i].text.for = outputs[i].key
        /\ ~hurried /\ ~Typing => outputs[i].text = outputs[i].meant

(* The message shown is about the selected field, also while it moves.     *)
(* Provided that no other field was selected while a check was under way,  *)
(* nor by an addition or a deletion while a message was shown.             *)
VerdictIsOfTheSelected ==
    verdict # NoField /\ ~strayed => row \in DOMAIN outputs /\ outputs[row].key = verdict
=============================================================================
