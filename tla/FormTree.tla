------------------------------ MODULE FormTree ------------------------------
(***************************************************************************)
(* The tree of FormElements that forms.js builds from a message           *)
(* descriptor, the event handlers that change it, and the extraction of   *)
(* the request message from it (fromMessageForm).                         *)
(*                                                                         *)
(* A FormElement is addressed by its path from the root form: the child   *)
(* built for the i-th field of a message is p \o <<i>>, an item of a      *)
(* repeated field is c \o <<k>> for a k free in its container c.  The     *)
(* variable forms maps every live path to the element's record; the       *)
(* weak back-reference form.parent is Front(p).                           *)
(*                                                                         *)
(* Descriptors: Messages maps a message full name to its sequence of field *)
(* records [name, number, label, type, type_name, default_value]; Enums   *)
(* maps an enum full name to its sequence of [name, number].  Names and   *)
(* texts are sequences of tokens, so that toUnqualified can strip the     *)
(* leading "." and a default can be compared with a variant name.  The   *)
(* descriptor spells types and labels either as numbers or as strings    *)
(* (spelling); every comparison of the code that checks both spellings   *)
(* is a comparison of the canonical names here.                           *)
(***************************************************************************)
EXTENDS TypeParser, TLC

CONSTANTS Messages, Enums, RootType,
          Texts,       \* texts a user may type into a text input
          MaxItems,    \* bound: items of one repeated field
          MaxDepth,    \* bound: depth at which expand/add are offered
          NoInput, NoFields, NoCheckbox, Null   \* model values

ASSUME FormTreeAssumption ==
    /\ RootType \in DOMAIN Messages
    /\ MaxItems \in Nat /\ MaxDepth \in Nat
    /\ {NoInput, NoFields, NoCheckbox, Null} \cap Texts = {}

VARIABLES
    spelling,       \* how the descriptor spells types and labels
    eachUndefined,  \* what $.each(undefined) does in the jQuery build
    forms           \* path -> FormElement record

vars == <<spelling, eachUndefined, forms>>

Root == <<>>
Nodes == DOMAIN forms
Parent(p) == Front(p)
ToUnqualified(name) == IF name # <<>> /\ Head(name) = "." THEN Tail(name) ELSE name

(***************************************************************************)
(* new FormElement(field, container): starts enabled (lines 330-334).     *)
(* delButton: the "-" button of an item is in the page.                   *)
(***************************************************************************)
NewFormElement(f) ==
    [field |-> f, enabled |-> TRUE, fields |-> NoFields, input |-> NoInput,
     checkbox |-> NoCheckbox, expander |-> FALSE, delButton |-> FALSE]

\* resetForm sorts the request type's field array by number, in place
FieldsOf(tn) ==
    IF tn = RootType
    THEN SortSeq(Messages[tn], LAMBDA a, b : a.number < b.number)
    ELSE Messages[tn]

(***************************************************************************)
(* Line 713: a field gets an "optional" checkbox and starts disabled when *)
(* ((isNaN(type) && label != FIELD_LABEL.REQUIRED) ||                      *)
(*  (!isNaN(type) && label != FIELD_LABEL_STRING.REQUIRED)) && allowRepeated *)
(* The spellings are crossed: a label spelled like its type never equals  *)
(* the REQUIRED of the other spelling (loose == of a number and a non-    *)
(* numeric string is false), so the test is allowRepeated alone.          *)
(***************************************************************************)
LooseEq(a, b) == a.sp = b.sp /\ a.t = b.t
GetsCheckbox(f, allowRepeated) ==
    LET type == Spelled(spelling, f.type)
        label == Spelled(spelling, f.label)
        isNaN == type.sp = "str"
    IN /\ \/ isNaN /\ ~LooseEq(label, Spelled("num", "REQUIRED"))
          \/ ~isNaN /\ ~LooseEq(label, Spelled("str", "REQUIRED"))
       /\ allowRepeated

\* String(n) for an enum variant number, the value of its <option>
RECURSIVE NatText(_)
NatText(n) == IF n < 10 THEN <<DecDigits[n + 1]>>
              ELSE NatText(n \div 10) \o <<DecDigits[(n % 10) + 1]>>
NumText(n) == IF n < 0 THEN <<"-">> \o NatText(-n) ELSE NatText(n)

TrueText == <<"t", "r", "u", "e">>

(***************************************************************************)
(* Building.  Each operator returns [els, ok]: the records of the element *)
(* built and of its descendants, and FALSE when the code throws (a        *)
(* TypeError on an unknown descriptor), which ends every enclosing build. *)
(***************************************************************************)
RECURSIVE BuildMessageForm(_, _, _), BuildEach(_, _, _, _),
          BuildFieldForm(_, _, _), BuildIndividualForm(_, _),
          BuildMessageField(_, _)

\* buildEnumField (lines 451-463): the <select> holds "" and the variants;
\* the variant named by default_value is selected
BuildEnumField(p, el) ==
    LET tn == ToUnqualified(el.field.type_name) IN
    IF tn \notin DOMAIN Enums
    THEN [els |-> p :> [el EXCEPT !.input = <<>>], ok |-> FALSE]
    ELSE LET vs == Enums[tn]
             sel == {i \in DOMAIN vs : vs[i].name = el.field.default_value}
             val == IF sel = {} THEN <<>>
                    ELSE NumText(vs[Max(sel)].number)
         IN [els |-> p :> [el EXCEPT !.input = val], ok |-> TRUE]

\* buildMessageForm (lines 746-761)
BuildMessageForm(p, el, tn) ==
    LET el0 == [el EXCEPT !.fields = <<>>] IN
    IF tn \notin DOMAIN Messages
    THEN [els |-> p :> el0, ok |-> FALSE]
    ELSE BuildEach(p, el0, FieldsOf(tn), 1)

\* the $.each of buildMessageForm: build the i-th field, then push it
BuildEach(p, el, fs, i) ==
    IF i > Len(fs) THEN [els |-> p :> el, ok |-> TRUE]
    ELSE LET c == p \o <<i>>
             r == BuildFieldForm(c, NewFormElement(fs[i]), TRUE)
         IN IF ~r.ok THEN [els |-> p :> el, ok |-> FALSE]
            ELSE LET rest == BuildEach(p, [el EXCEPT !.fields = Append(@, c)],
                                       fs, i + 1)
                 IN [els |-> rest.els @@ r.els, ok |-> rest.ok]

\* buildFieldForm (lines 662-737).  An item's "-" button is made before
\* buildIndividualForm but its cell is attached after it (line 731), so an
\* item whose build throws has none
BuildFieldForm(p, el, allowRepeated) ==
    IF allowRepeated /\ el.field.label = "REPEATED"
    THEN [els |-> p :> [el EXCEPT !.fields = <<>>], ok |-> TRUE]
    ELSE LET r == BuildIndividualForm(p,
                     IF GetsCheckbox(el.field, allowRepeated)
                     THEN [el EXCEPT !.enabled = FALSE, !.checkbox = FALSE]
                     ELSE el)
         IN IF r.ok /\ el.field.label = "REPEATED"
            THEN [r EXCEPT !.els[p].delButton = TRUE] ELSE r

\* buildMessageField (lines 470-493): required and repeated-item messages
\* are built at once, an optional one gets the expand button
BuildMessageField(p, el) ==
    LET tn == ToUnqualified(el.field.type_name) IN
    IF el.field.label \in {"REQUIRED", "REPEATED"}
    THEN LET r == BuildMessageForm(p, el, tn) IN
         IF ~r.ok THEN r
         ELSE [r EXCEPT !.els[p].input = <<>>]
    ELSE [els |-> p :> [el EXCEPT !.expander = TRUE, !.input = <<>>],
          ok |-> TRUE]

\* buildIndividualForm (lines 582-602) with buildBooleanField,
\* buildStringField, buildTextField and setDefautValue
BuildIndividualForm(p, el) ==
    CASE el.field.type = "ENUM"    -> BuildEnumField(p, el)
      [] el.field.type = "MESSAGE" -> BuildMessageField(p, el)
      [] el.field.type = "BOOL"    ->
            [els |-> p :> [el EXCEPT !.input = (el.field.default_value = TrueText)],
             ok |-> TRUE]
      [] OTHER ->
            [els |-> p :> [el EXCEPT !.input = SetDefautValue(el.field.default_value)],
             ok |-> TRUE]

\* resetForm in form mode (lines 983-1003): the root form of the request type
RootBuild == BuildMessageForm(Root, NewFormElement(Null), RootType)

(***************************************************************************)
(* Tree helpers.                                                           *)
(***************************************************************************)
\* form.repeated && allowRepeated: a repeated field under a message
RECURSIVE IsContainer(_)
IsContainer(n) ==
    n # Root /\ forms[n].field.label = "REPEATED" /\ ~IsContainer(Parent(n))
IsItem(n) == n # Root /\ IsContainer(Parent(n))

\* the subtree of n removed (its elements become garbage)
Prune(fs, n) == Restrict(fs, {m \in DOMAIN fs : ~IsStrictPrefix(n, m)})

\* toggleInput (lines 422-433), run by the checkbox's change event
ToggleInput(fs, n, checked) ==
    IF ~checked THEN [fs EXCEPT ![n].enabled = FALSE]
    ELSE IF fs[n].input # NoInput THEN [fs EXCEPT ![n].enabled = TRUE]
    ELSE LET r == BuildIndividualForm(n, fs[n]) IN
         IF r.ok THEN [r.els @@ fs EXCEPT ![n].enabled = TRUE]
         ELSE r.els @@ fs

\* input.val(): a checkbox input's value is "on"
InputVal(el) == IF el.field.type = "BOOL" THEN <<"o", "n">> ELSE el.input

\* inputChanged (lines 563-576)
InputChanged(fs, n) ==
    LET val == InputVal(fs[n]) IN
    IF fs[n].field.type \in {"STRING", "BYTES"} /\ Len(val) = 0 THEN fs
    ELSE ToggleInput([fs EXCEPT ![n].checkbox = Len(val) > 0], n, Len(val) > 0)

(***************************************************************************)
(* Extraction (lines 832-895).  Each operator returns [thrown, val, errs]: *)
(* errs are the entries pushed to failed_messages, in order, as           *)
(* [node, name, msg]; thrown is an exception that escapes fromMessageForm: the  *)
(* $.each over the fields of a message form whose fields were never built *)
(* throws in a jQuery whose $.each reads undefined.length and iterates    *)
(* nothing in one that tests it first.                                     *)
(***************************************************************************)
\* the input of a leaf as TypeParser sees it: (input.val(), input[0].checked)
ParseLeaf(n) ==
    IF forms[n].field.type = "BOOL"
    THEN TypeParse(Spelled(spelling, "BOOL"), <<>>, forms[n].input)
    ELSE TypeParse(Spelled(spelling, forms[n].field.type), forms[n].input, FALSE)

Value(v) == [thrown |-> FALSE, val |-> v, errs |-> <<>>]

\* the fields fromMessageForm reads: the enabled ones, in order
\* mutant of FromFields: the subForm.enabled test dropped
FromFieldsIgnoringEnabled(cs) == cs

FromFields(cs) == SelectSeq(cs, LAMBDA c : forms[c].enabled)

\* fromMessageForm's message from the results rs of the fields en it read:
\* each value under its field's name, the failures in document order.  An
\* exception escapes sendForm whole, so what follows it is never seen.
MessageOf(en, rs) ==
    LET name(i) == forms[en[i]].field.name IN
    [thrown |-> \E i \in DOMAIN rs : rs[i].thrown,
     val |-> [nm \in {name(i) : i \in DOMAIN rs} |->
                 rs[CHOOSE i \in DOMAIN rs : name(i) = nm].val],
     errs |-> FlattenSeq([i \in DOMAIN rs |-> rs[i].errs])]

\* mutant of ArrayOf: the items' failures collected from the last item
ArrayOfReversed(rs) ==
    [thrown |-> \E i \in DOMAIN rs : rs[i].thrown,
     val |-> [i \in DOMAIN rs |-> rs[i].val],
     errs |-> FlattenSeq(Reverse([i \in DOMAIN rs |-> rs[i].errs]))]

\* fromRepeatedForm's array from the results rs of the items
ArrayOf(rs) ==
    [thrown |-> \E i \in DOMAIN rs : rs[i].thrown,
     val |-> [i \in DOMAIN rs |-> rs[i].val],
     errs |-> FlattenSeq([i \in DOMAIN rs |-> rs[i].errs])]

(***************************************************************************)
(* getFieldFullname (lines 840-847): the names of the fields from n up    *)
(* through form.parent to the root form, whose field is null.  An item    *)
(* carries its container's field, so that name is taken twice.  The       *)
(* names are kept as a sequence: joining them with '.' is one-to-one, as  *)
(* a field name holds no '.'.                                              *)
(***************************************************************************)
RECURSIVE GetFieldFullname(_)
GetFieldFullname(n) ==
    IF Parent(n) = Root THEN <<forms[n].field.name>>
    ELSE Append(GetFieldFullname(Parent(n)), forms[n].field.name)

\* fromIndividualForm of a scalar: the parser's value, or null and one
\* entry "<full name> <error>." in failed_messages
LeafOf(n) ==
    LET r == ParseLeaf(n) IN
    IF r.ok THEN Value(r.val)
    ELSE [Value(Null) EXCEPT !.errs = <<[node |-> n, name |-> GetFieldFullname(n),
                                         msg |-> r.err]>>]

\* what fromMessageForm, fromRepeatedForm and fromIndividualForm return for
\* element n: a repeated field reads every item, a message its enabled
\* fields ($.each over fields that were never built throws or iterates
\* nothing), a scalar is parsed
RECURSIVE FromForm(_)
FromForm(n) ==
    CASE n # Root /\ IsContainer(n) ->
            LET cs == forms[n].fields IN
            ArrayOf([i \in 1..Len(cs) |-> FromForm(cs[i])])
      [] n = Root \/ forms[n].field.type = "MESSAGE" ->
            IF forms[n].fields = NoFields
            THEN IF eachUndefined = "throws" THEN [Value(Null) EXCEPT !.thrown = TRUE]
                 ELSE Value(<<>>)
            ELSE LET en == FromFields(forms[n].fields) IN
                 MessageOf(en, [i \in 1..Len(en) |-> FromForm(en[i])])
      [] OTHER -> LeafOf(n)

\* the values a user can give an input element
InputValues(el) ==
    CASE el.field.type = "BOOL" -> BOOLEAN
      [] el.field.type = "ENUM" ->
            LET tn == ToUnqualified(el.field.type_name) IN
            {<<>>} \cup IF tn \in DOMAIN Enums
                        THEN {NumText(Enums[tn][i].number) : i \in DOMAIN Enums[tn]}
                        ELSE {}
      [] OTHER -> Texts

(***************************************************************************)
(* Init: createForm's reflection response has arrived and resetForm has   *)
(* built the root form.  The descriptor's spelling and the jQuery build   *)
(* are fixed for the run but may be either.                               *)
(***************************************************************************)
Init ==
    /\ spelling \in Spellings
    /\ eachUndefined \in {"throws", "skips"}
    /\ forms = RootBuild.els

(***************************************************************************)
(* The user clicks an optional field's checkbox; its change event runs    *)
(* toggleInput.                                                            *)
(***************************************************************************)
ClickCheckbox(n) ==
    /\ forms[n].checkbox \in BOOLEAN
    /\ LET checked == ~forms[n].checkbox IN
       forms' = ToggleInput([forms EXCEPT ![n].checkbox = checked], n, checked)
    /\ UNCHANGED <<spelling, eachUndefined>>

(***************************************************************************)
(* The user changes the value of a text input, a select or a boolean      *)
(* checkbox; keyup/change run inputChanged, which is bound only to fields *)
(* that have an optional checkbox (lines 595-600).                         *)
(***************************************************************************)
EditInput(n, v) ==
    /\ forms[n].input # NoInput
    /\ forms[n].field.type # "MESSAGE"          \* the hidden input
    /\ v \in InputValues(forms[n]) \ {forms[n].input}
    /\ LET fs == [forms EXCEPT ![n].input = v] IN
       forms' = IF forms[n].checkbox = NoCheckbox THEN fs ELSE InputChanged(fs, n)
    /\ UNCHANGED <<spelling, eachUndefined>>

(***************************************************************************)
(* The expand button of an optional message field (lines 484-489):        *)
(* buildMessageForm, then hide the button and click() the checkbox, which *)
(* flips it, then change() runs toggleInput.  If buildMessageForm throws  *)
(* the rest of the handler does not run.                                   *)
(***************************************************************************)
Expand(n) ==
    /\ forms[n].expander
    /\ Len(n) < MaxDepth
    /\ LET r == BuildMessageForm(n, forms[n], ToUnqualified(forms[n].field.type_name))
           fs == r.els @@ Prune(forms, n)
           checked == ~forms[n].checkbox
       IN forms' = IF ~r.ok THEN fs
                   ELSE ToggleInput([fs EXCEPT ![n].expander = FALSE,
                                               ![n].checkbox = checked],
                                    n, checked)
    /\ UNCHANGED <<spelling, eachUndefined>>

(***************************************************************************)
(* The "+" button of a repeated field: addRepeatedFieldItem (lines        *)
(* 621-627) pushes the new item, then builds it without a checkbox.       *)
(***************************************************************************)
\* mutant of AddRepeatedFieldItem: the new item reuses a taken identity
AddRepeatedFieldItemReusedId(c) ==
    /\ IsContainer(c)
    /\ Len(forms[c].fields) < MaxItems
    /\ Len(c) < MaxDepth
    /\ LET i == c \o <<1>>
           r == BuildFieldForm(i, NewFormElement(forms[c].field), FALSE)
       IN forms' = r.els @@ [forms EXCEPT ![c].fields = Append(@, i)]
    /\ UNCHANGED <<spelling, eachUndefined>>

AddRepeatedFieldItem(c) ==
    /\ IsContainer(c)
    /\ Len(forms[c].fields) < MaxItems
    /\ Len(c) < MaxDepth
    /\ LET k == CHOOSE k \in 1..MaxItems : c \o <<k>> \notin Nodes
           i == c \o <<k>>
           r == BuildFieldForm(i, NewFormElement(forms[c].field), FALSE)
       IN forms' = r.els @@ [forms EXCEPT ![c].fields = Append(@, i)]
    /\ UNCHANGED <<spelling, eachUndefined>>

(***************************************************************************)
(* The "-" button of an item: delRepeatedFieldItem (lines 610-614) finds  *)
(* the item in its parent's list by identity ($.inArray) and splices it   *)
(* out; splice(-1, 1) would remove the last item.  Only an item whose     *)
(* build finished has the button.                                         *)
(***************************************************************************)
Splice(s, index) == IF index = -1 THEN RemoveAt(s, Len(s)) ELSE RemoveAt(s, index + 1)
InArray(x, s) == SelectInSeq(s, LAMBDA y : y = x) - 1   \* 0-based, -1 if absent

\* mutant of DelRepeatedFieldItem: the item is not spliced out of its parent
DelRepeatedFieldItemNoSplice(i) ==
    /\ IsItem(i) /\ forms[i].delButton
    /\ forms' = Restrict(Prune(forms, i), Nodes \ {i})
    /\ UNCHANGED <<spelling, eachUndefined>>

DelRepeatedFieldItem(i) ==
    /\ IsItem(i) /\ forms[i].delButton
    /\ LET c == Parent(i)
           index == InArray(i, forms[c].fields)
           fs == Restrict(Prune(forms, i), Nodes \ {i})
       IN forms' = [fs EXCEPT ![c].fields = Splice(@, index)]
    /\ UNCHANGED <<spelling, eachUndefined>>

(***************************************************************************)
(* The Reset button: resetForm rebuilds the root form from scratch.  The  *)
(* button exists when the first build did not throw and the request type  *)
(* has fields (line 1047).                                                 *)
(***************************************************************************)
Reset ==
    /\ RootBuild.ok /\ Messages[RootType] # <<>>
    /\ forms' = RootBuild.els
    /\ UNCHANGED <<spelling, eachUndefined>>

Next ==
    \/ \E n \in Nodes : ClickCheckbox(n) \/ Expand(n) \/ AddRepeatedFieldItem(n)
                        \/ DelRepeatedFieldItem(n)
    \/ \E n \in Nodes \ {Root} : \E v \in InputValues(forms[n]) : EditInput(n, v)
    \/ Reset

Spec == Init /\ [][Next]_vars

-----------------------------------------------------------------------------
(***************************************************************************)
(* Properties.                                                             *)
(***************************************************************************)
TypeOK ==
    /\ spelling \in Spellings
    /\ eachUndefined \in {"throws", "skips"}
    /\ Root \in Nodes
    /\ \A n \in Nodes :
          /\ forms[n].enabled \in BOOLEAN
          /\ forms[n].expander \in BOOLEAN
          /\ forms[n].delButton \in BOOLEAN
          /\ forms[n].checkbox \in BOOLEAN \cup {NoCheckbox}
          /\ forms[n].fields = NoFields \/ forms[n].fields \in Seq(Nodes)
          /\ \/ forms[n].input = NoInput
             \/ forms[n].input \in Seq(STRING)
             \/ forms[n].input \in BOOLEAN

(***************************************************************************)
(* Spec 3: a removed item is removed from its parent's child sequence, so *)
(* extraction never sees a dangling entry.  Every live element other than *)
(* the root is listed exactly once in its parent's fields, and every      *)
(* entry of a fields list is a path under that element, across any order  *)
(* of adds, deletes and builds that throw half-way.  That no entry is     *)
(* dead is TypeOK's part (fields lists hold live nodes only).             *)
(***************************************************************************)
ChildListsConsistent ==
    /\ \A n \in Nodes \ {Root} :
          /\ Parent(n) \in Nodes
          /\ forms[Parent(n)].fields # NoFields
          /\ Cardinality({i \in DOMAIN forms[Parent(n)].fields :
                             forms[Parent(n)].fields[i] = n}) = 1
    /\ \A n \in Nodes : forms[n].fields # NoFields =>
          \A i \in DOMAIN forms[n].fields : Parent(forms[n].fields[i]) = n

\* an element whose value fromMessageForm(root_form) reads: every field on
\* the way is enabled (items of a repeated field are read regardless)
RECURSIVE Reached(_)
Reached(n) == n = Root \/ (Reached(Parent(n)) /\ (IsItem(n) \/ forms[n].enabled))
IsLeaf(n) == n # Root /\ forms[n].field.type # "MESSAGE" /\ ~IsContainer(n)
FailingLeaves == {n \in Nodes : IsLeaf(n) /\ Reached(n) /\ ~ParseLeaf(n).ok}

\* spec 4.4: the field's dotted full path, the names of the fields that
\* enclose n, each once (an item stands for its repeated field)
FieldPath(n) ==
    LET fieldsOf == SelectSeq([i \in 1..Len(n) |-> SubSeq(n, 1, i)],
                              LAMBDA q : ~IsItem(q))
    IN [i \in DOMAIN fieldsOf |-> forms[fieldsOf[i]].field.name]

\* document order: a row is above another when, under the first element on
\* both their paths, its branch comes earlier in that element's fields
Position(q) == SelectInSeq(forms[Parent(q)].fields, LAMBDA y : y = q)
DocBefore(a, b) ==
    \E i \in 1..Len(a) :
        /\ i <= Len(b)
        /\ SubSeq(a, 1, i - 1) = SubSeq(b, 1, i - 1)
        /\ Position(SubSeq(a, 1, i)) < Position(SubSeq(b, 1, i))

(***************************************************************************)
(* Spec 4.4: extraction never stops at the first error, and returns the   *)
(* failures in document order, so the first is the one the caller directs *)
(* attention to.  When fromMessageForm(root_form) returns, failed_messages *)
(* has exactly one entry for every leaf it reads whose parser throws, none *)
(* for a leaf it does not read (a disabled field or one under a disabled  *)
(* message), and the entries follow the rows of the page, through fields  *)
(* sorted by resetForm and items in the order they were added and kept.   *)
(***************************************************************************)
ExtractionReportsEveryFailure ==
    LET x == FromForm(Root) IN
    ~x.thrown =>
        /\ {x.errs[i].node : i \in DOMAIN x.errs} = FailingLeaves
        /\ Len(x.errs) = Cardinality(FailingLeaves)
        /\ \A i, j \in DOMAIN x.errs : i < j => DocBefore(x.errs[i].node, x.errs[j].node)

(***************************************************************************)
(* Spec 4.3: REQUIRED fields are always enabled, so they are always in    *)
(* the extracted message.  Line 713 gives every field of a message an     *)
(* optional checkbox and starts it disabled.                              *)
(***************************************************************************)
RequiredFieldsEnabled ==
    \A n \in Nodes :
        n # Root /\ ~IsItem(n) /\ forms[n].field.label = "REQUIRED"
            => forms[n].enabled

(***************************************************************************)
(* Spec 3/4.3: an optional message field's sub-tree is built by expand()  *)
(* before the field takes part in the message; an enabled message field   *)
(* has its fields.  Checking its checkbox before expanding enables it     *)
(* with no fields (toggleInput finds form.input, set at line 492, and     *)
(* builds nothing).                                                        *)
(***************************************************************************)
EnabledMessageFieldsBuilt ==
    \A n \in Nodes :
        n # Root /\ forms[n].field.type = "MESSAGE" /\ ~IsContainer(n)
        /\ forms[n].enabled => forms[n].fields # NoFields

(***************************************************************************)
(* Spec 4.3: expand() builds the placeholder's sub-tree for use, and the  *)
(* handler clicks the field's checkbox (line 488) to enable it: after a   *)
(* successful expand the field is enabled.  click() toggles the box, so a *)
(* field whose box was checked before the expand ends up disabled.       *)
(***************************************************************************)
ExpandEnablesField ==
    [][\A n \in Nodes : Expand(n) /\ ~forms'[n].expander => forms'[n].enabled]_vars
=============================================================================
