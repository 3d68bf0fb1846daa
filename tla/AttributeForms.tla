--------------------------- MODULE AttributeForms ---------------------------
(***************************************************************************)
(* A category's questions and their answers: the administrator's editor of *)
(* the attribute schema, whose every save is a new version, and the        *)
(* owner's form, drawn from the current version and filled from answers    *)
(* stored under the version the listing pinned.                            *)
(*                                                                         *)
(* An answer is tagged with what it is: <<"text", word>> and <<"digits",   *)
(* m, p>> are strings (the second spells m with p of its digits after the  *)
(* point), <<"int", n>> a stored number, <<"list", options>> a list.       *)
(***************************************************************************)
EXTENDS Integers, FiniteSets, Sequences, SequencesExt

CONSTANTS
  None,
  FirstSchemas,       \* schemas a category may start with
  Keys, BadKeys,      \* what may be typed as a stored name
  OptionValues,
  TextLength,         \* the length of each word; the blank one has none
  UnsafeTexts,
  Numbers,            \* numbers an owner types, as <<m, p>>
  MAX_CATEGORY_ATTRIBUTES, MAX_ATTRIBUTE_OPTIONS, MAX_ATTRIBUTE_DECIMAL_PLACES,
  MAX_ATTRIBUTE_TEXT_LENGTH, DEFAULT_TEXT_LENGTH,
  MaxVersions,        \* a bound
  Limits              \* bounds on the edits and answers of a behaviour, as records

VARIABLES
  versions,   \* the category's schemas, in order
  editor,     \* the administrator's, or None
  listing,    \* the owner's: the version pinned and the answers stored, or None
  form,       \* the owner's, or None
  limits,     \* the bounds of this behaviour
  edits, answered

attributeVars == <<versions, editor, listing, form, limits, edits, answered>>

CATEGORY_ATTRIBUTE_TYPES == {"text", "number", "choice", "choice-many"}
Texts == DOMAIN TextLength
blank == <<"text", "">>
notANumber == <<"text", CHOOSE text \in Texts : text # "">>
isString(raw) == raw[1] \in {"text", "digits"}
currentVersion == Len(versions)
currentSchema == versions[currentVersion]

(***************************************************************************)
(* The vocabulary.                                                         *)
(***************************************************************************)
attributeKeySchema(key) == key \in Keys
attributeLabelSchema(label) == label # ""
attributeOptionSchema(option) == option.value \in OptionValues

OptionValuesOf(attribute) == [i \in DOMAIN attribute.options |-> attribute.options[i].value]

choiceAttributeSchema(attribute) == Len(attribute.options) \in 2..MAX_ATTRIBUTE_OPTIONS
choiceManyAttributeSchema(attribute) == Len(attribute.options) \in 1..MAX_ATTRIBUTE_OPTIONS
textAttributeSchema(attribute) == attribute.maxLength \in 1..MAX_ATTRIBUTE_TEXT_LENGTH
numberAttributeSchema(attribute) ==
  attribute.unit # "" /\ attribute.decimalPlaces \in 0..MAX_ATTRIBUTE_DECIMAL_PLACES

categoryAttributeSchema(attribute) ==
  /\ attributeKeySchema(attribute.key) /\ attributeLabelSchema(attribute.label)
  /\ attribute.type = "text" => textAttributeSchema(attribute)
  /\ attribute.type = "number" => numberAttributeSchema(attribute)
  /\ attribute.type = "choice" => choiceAttributeSchema(attribute)
  /\ attribute.type = "choice-many" => choiceManyAttributeSchema(attribute)
  /\ attribute.type \in {"choice", "choice-many"} =>
       /\ \A i \in DOMAIN attribute.options : attributeOptionSchema(attribute.options[i])
       /\ IsInjective(OptionValuesOf(attribute))

categoryAttributesSchema(attributes) ==
  /\ Len(attributes) <= MAX_CATEGORY_ATTRIBUTES
  /\ \A i \in DOMAIN attributes : categoryAttributeSchema(attributes[i])
  /\ IsInjective([i \in DOMAIN attributes |-> attributes[i].key])

(***************************************************************************)
(* The editor's rows.  A stored row's identifier is its position, an added *)
(* one's is minted.                                                        *)
(***************************************************************************)
storedAttributeId(index) == <<"a", index>>
storedOptionId(index) == <<"o", index>>
minted(n) == <<"n", n>>

emptyOption(id) == [id |-> id, value |-> "", label |-> ""]

\* The three identifiers of a new row are the next three of the counter.
emptyAttribute(n) ==
  [id |-> minted(n + 1), key |-> "", label |-> "", required |-> FALSE, type |-> "text",
   maxLength |-> DEFAULT_TEXT_LENGTH, unit |-> "", decimalPlaces |-> 0,
   options |-> <<emptyOption(minted(n + 2)), emptyOption(minted(n + 3))>>]

toDrafts(attributes) ==
  [i \in DOMAIN attributes |->
     LET a == attributes[i] IN
     [id |-> storedAttributeId(i), key |-> a.key, label |-> a.label, required |-> a.required,
      type |-> a.type,
      maxLength |-> IF a.type = "text" THEN a.maxLength ELSE DEFAULT_TEXT_LENGTH,
      unit |-> IF a.type = "number" THEN a.unit ELSE "",
      decimalPlaces |-> IF a.type = "number" THEN a.decimalPlaces ELSE 0,
      options |-> IF a.type \in {"choice", "choice-many"}
                  THEN [j \in DOMAIN a.options |->
                          [id |-> storedOptionId(j), value |-> a.options[j].value,
                           label |-> a.options[j].label]]
                  ELSE <<emptyOption(storedOptionId(1)), emptyOption(storedOptionId(2))>>]]

\* What a row submits: the fields of its type and no others.
toAttribute(draft) ==
  CASE draft.type = "text" ->
         [key |-> draft.key, label |-> draft.label, required |-> draft.required, type |-> "text",
          maxLength |-> draft.maxLength]
    [] draft.type = "number" ->
         [key |-> draft.key, label |-> draft.label, required |-> draft.required, type |-> "number",
          unit |-> draft.unit, decimalPlaces |-> draft.decimalPlaces]
    [] draft.type \in {"choice", "choice-many"} ->
         [key |-> draft.key, label |-> draft.label, required |-> draft.required,
          type |-> draft.type,
          options |-> [j \in DOMAIN draft.options |->
                         [value |-> draft.options[j].value, label |-> draft.options[j].label]]]

toAttributes(drafts) == [i \in DOMAIN drafts |-> toAttribute(drafts[i])]

(***************************************************************************)
(* The administrator.                                                      *)
(***************************************************************************)
Edits == /\ editor # None /\ edits < limits.edits
         /\ edits' = edits + 1
         /\ UNCHANGED <<versions, listing, form, answered, limits>>

EditorOpens ==
  /\ editor = None /\ edits < limits.edits
  /\ editor' = [drafts |-> toDrafts(currentSchema), minted |-> 0]
  /\ UNCHANGED <<versions, listing, form, edits, answered, limits>>

\* update: every row with the identifier takes the changed fields.
update(id, change) ==
  editor' = [editor EXCEPT !.drafts = [i \in DOMAIN @ |-> IF @[i].id = id THEN change @@ @[i] ELSE @[i]]]

\* The fields AttributeRow offers for the row's type.
AttributeRow(draft) ==
  \/ \E key \in Keys \cup BadKeys : update(draft.id, [key |-> key])
  \/ \E label \in {"", "label"} : update(draft.id, [label |-> label])
  \/ \E type \in CATEGORY_ATTRIBUTE_TYPES : update(draft.id, [type |-> type])
  \/ update(draft.id, [required |-> ~draft.required])
  \/ draft.type = "text" /\ \E n \in 0..MAX_ATTRIBUTE_TEXT_LENGTH :
       update(draft.id, [maxLength |-> n])
  \/ draft.type = "number" /\ \E unit \in {"", "kg"} :
       update(draft.id, [unit |-> unit])
  \/ draft.type = "number" /\ \E places \in 0..MAX_ATTRIBUTE_DECIMAL_PLACES :
       update(draft.id, [decimalPlaces |-> places])

\* The options of a row: an option's identifier is its own within the row.
OptionsEditor(draft) ==
  LET floor == IF draft.type = "choice" THEN 2 ELSE 1
      setOptions(options) == update(draft.id, [options |-> options])
      setOption(option, change(_)) ==
        setOptions([j \in DOMAIN draft.options |->
                      IF draft.options[j].id = option.id THEN change(draft.options[j])
                      ELSE draft.options[j]])
  IN /\ draft.type \in {"choice", "choice-many"}
     /\ \/ \E option \in ToSet(draft.options), value \in OptionValues \cup {""} :
             setOption(option, LAMBDA o : [o EXCEPT !.value = value])
        \/ \E option \in ToSet(draft.options) :
             setOption(option, LAMBDA o : [o EXCEPT !.label = "label"])
        \/ /\ Len(draft.options) > floor
           /\ \E option \in ToSet(draft.options) :
                setOptions(SelectSeq(draft.options, LAMBDA o : o.id # option.id))
        \/ /\ Len(draft.options) < MAX_ATTRIBUTE_OPTIONS
           /\ editor' = [editor EXCEPT !.minted = @ + 1,
                           !.drafts = [i \in DOMAIN @ |->
                              IF @[i].id # draft.id THEN @[i]
                              ELSE [@[i] EXCEPT !.options =
                                      Append(@, emptyOption(minted(editor.minted + 1)))]]]

move(index, by) ==
  /\ index + by \in DOMAIN editor.drafts
  /\ editor' = [editor EXCEPT !.drafts =
                  InsertAt(RemoveAt(@, index), index + by, @[index])]

remove(id) == editor' = [editor EXCEPT !.drafts = SelectSeq(@, LAMBDA d : d.id # id)]

AddAttribute ==
  /\ Len(editor.drafts) < MAX_CATEGORY_ATTRIBUTES
  /\ editor' = [editor EXCEPT !.minted = @ + 3,
                              !.drafts = Append(@, emptyAttribute(editor.minted))]

AttributeSchemaEditor ==
  /\ Edits
  /\ \/ AddAttribute
     \/ \E i \in DOMAIN editor.drafts :
          \/ AttributeRow(editor.drafts[i])
          \/ OptionsEditor(editor.drafts[i])
          \/ remove(editor.drafts[i].id)
          \/ \E by \in {-1, 1} : move(i, by)

\* readAttributeSchema and the save: a schema that is refused leaves the editor
\* as it is.
SaveSchema ==
  /\ editor # None /\ Len(versions) < MaxVersions
  /\ categoryAttributesSchema(toAttributes(editor.drafts))
  /\ versions' = Append(versions, toAttributes(editor.drafts))
  /\ editor' = None
  /\ UNCHANGED <<listing, form, edits, answered, limits>>

(***************************************************************************)
(* Answers.                                                                *)
(***************************************************************************)
\* Scaled: the text of a stored number, and the number a text spells.  Digits
\* beyond the scale are refused, missing ones are zeros.
toDecimalString(value, decimalPlaces) == <<"digits", value, decimalPlaces>>

fromDecimalString(text, decimalPlaces) ==
  IF text[3] > decimalPlaces THEN None ELSE <<"int", text[2] * 10^(decimalPlaces - text[3])>>

hasUnsafeCharacters(word) == word \in UnsafeTexts
isOption(options, raw) ==
  raw[1] = "text" /\ \E i \in DOMAIN options : options[i].value = raw[2]

\* The length of a string: of a number, its digits and its point.
lengthOf(raw) == IF raw[1] = "text" THEN TextLength[raw[2]] ELSE 1 + raw[3]

inOptionOrder(options, chosen) ==
  LET values == [i \in DOMAIN options |-> options[i].value]
  IN SelectSeq(values, LAMBDA v : v \in chosen)

\* One answer as it is stored, or None where it is refused.
readValue(attribute, raw) ==
  CASE attribute.type = "text" ->
         IF /\ isString(raw) /\ raw # blank /\ lengthOf(raw) <= attribute.maxLength
            /\ raw[1] = "text" => ~hasUnsafeCharacters(raw[2])
         THEN raw ELSE None
    [] attribute.type = "number" ->
         IF raw[1] = "digits" THEN fromDecimalString(raw, attribute.decimalPlaces) ELSE None
    [] attribute.type = "choice" -> IF isOption(attribute.options, raw) THEN raw ELSE None
    [] attribute.type = "choice-many" ->
         IF /\ raw[1] = "list" /\ raw[2] # <<>> /\ IsInjective(raw[2])
            /\ \A i \in DOMAIN raw[2] : isOption(attribute.options, <<"text", raw[2][i]>>)
         THEN <<"list", inOptionOrder(attribute.options, ToSet(raw[2]))>>
         ELSE None

keysOf(attributes) == {attributes[i].key : i \in DOMAIN attributes}
attributeOf(attributes, key) ==
  attributes[CHOOSE i \in DOMAIN attributes : attributes[i].key = key]

\* All the answers, or None where one is refused or answers no question.
validateAttributeValues(attributes, raw) ==
  IF /\ Cardinality(DOMAIN raw) <= MAX_CATEGORY_ATTRIBUTES
     /\ DOMAIN raw \subseteq keysOf(attributes)
     /\ \A key \in DOMAIN raw : readValue(attributeOf(attributes, key), raw[key]) # None
  THEN [key \in DOMAIN raw |-> readValue(attributeOf(attributes, key), raw[key])]
  ELSE None

\* Mutant: a stored number is shown as it is stored.
toStoredAnswers_unscaled(attributes, values) ==
  LET shaped(key) ==
        LET type == attributeOf(attributes, key).type IN
        \/ type = "number" /\ values[key][1] = "int"
        \/ type \in {"text", "choice"} /\ isString(values[key])
        \/ type = "choice-many" /\ values[key][1] = "list"
  IN [key \in {k \in DOMAIN values \cap keysOf(attributes) : shaped(k)} |->
        IF values[key][1] = "int" THEN toDecimalString(values[key][2], 0) ELSE values[key]]

\* What the form holds of the stored answers: those the schema still asks for,
\* in the shape it asks for, a number in its decimal places.
toStoredAnswers(attributes, values) ==
  LET shaped(key) ==
        LET type == attributeOf(attributes, key).type IN
        \/ type = "number" /\ values[key][1] = "int"
        \/ type \in {"text", "choice"} /\ isString(values[key])
        \/ type = "choice-many" /\ values[key][1] = "list"
  IN [key \in {k \in DOMAIN values \cap keysOf(attributes) : shaped(k)} |->
        IF values[key][1] = "int"
        THEN toDecimalString(values[key][2], attributeOf(attributes, key).decimalPlaces)
        ELSE values[key]]

\* What the form submits: the questions of its schema that have an answer.
toSubmittedAttributes(attributes, answers) ==
  [key \in {k \in DOMAIN answers \cap keysOf(attributes) :
              answers[k] # blank /\ (answers[k][1] = "list" => answers[k][2] # <<>>)} |->
     answers[key]]

(***************************************************************************)
(* The owner.                                                              *)
(***************************************************************************)
EMPTY == [key \in {} |-> blank]

ListingForm ==
  /\ listing = None /\ form = None /\ answered < limits.answers
  /\ form' = [version |-> currentVersion, attributes |-> currentSchema, answers |-> EMPTY,
              touched |-> {}, edits |-> FALSE]
  /\ UNCHANGED <<versions, editor, listing, edits, answered, limits>>

ListingEditForm ==
  /\ listing # None /\ form = None /\ answered < limits.answers
  /\ form' = [version |-> currentVersion, attributes |-> currentSchema,
              answers |-> toStoredAnswers(currentSchema, listing.values),
              touched |-> {}, edits |-> TRUE]
  /\ UNCHANGED <<versions, editor, listing, edits, answered, limits>>

asList(answers, key) ==
  IF key \in DOMAIN answers /\ answers[key][1] = "list" THEN ToSet(answers[key][2]) ELSE {}

toggle(options, chosen, value) ==
  <<"list", inOptionOrder(options, (chosen \cup {value}) \ (chosen \cap {value}))>>

\* The control of each type and the answers it can give.
AttributeField(attribute, answers) ==
  CASE attribute.type = "text" ->
         {raw \in {<<"text", w>> : w \in Texts} \cup {<<"digits", n[1], n[2]>> : n \in Numbers} :
            lengthOf(raw) <= attribute.maxLength}
    [] attribute.type = "number" ->
         {<<"digits", n[1], n[2]>> : n \in Numbers} \cup {blank, notANumber}
    [] attribute.type = "choice" ->
         {<<"text", attribute.options[i].value>> : i \in DOMAIN attribute.options} \cup {blank}
    [] attribute.type = "choice-many" ->
         {toggle(attribute.options, asList(answers, attribute.key), attribute.options[i].value) :
            i \in DOMAIN attribute.options}

AttributeFields ==
  /\ form # None /\ answered < limits.answers
  /\ \E i \in DOMAIN form.attributes :
       LET attribute == form.attributes[i] IN
       \E answer \in AttributeField(attribute, form.answers) :
         form' = [form EXCEPT
                    !.answers = [k \in DOMAIN @ \cup {attribute.key} |->
                                   IF k = attribute.key THEN answer ELSE @[k]],
                    !.touched = @ \cup {attribute.key}]
  /\ answered' = answered + 1
  /\ UNCHANGED <<versions, editor, listing, edits, limits>>

\* The save: refused under a version that is no longer the current one, refused
\* where an answer is, and otherwise the listing is on the form's version.
SubmitForm ==
  /\ form # None
  /\ LET values == validateAttributeValues(form.attributes,
                                           toSubmittedAttributes(form.attributes, form.answers))
     IN /\ form.version = currentVersion /\ values # None
        /\ listing' = [version |-> form.version, values |-> values]
        /\ form' = None
  /\ UNCHANGED <<versions, editor, edits, answered, limits>>

\* A form whose version is gone is opened again.
ReloadForm ==
  /\ form # None /\ form.version # currentVersion
  /\ form' = None
  /\ UNCHANGED <<versions, editor, listing, edits, answered, limits>>

AttributeInit ==
  /\ versions \in {<<s>> : s \in FirstSchemas}
  /\ editor = None /\ listing = None /\ form = None
  /\ limits \in Limits /\ edits = 0 /\ answered = 0

AttributeNext ==
  \/ EditorOpens \/ AttributeSchemaEditor \/ SaveSchema
  \/ ListingForm \/ ListingEditForm \/ AttributeFields \/ SubmitForm \/ ReloadForm

AttributeSpec == AttributeInit /\ [][AttributeNext]_attributeVars

(***************************************************************************)
(* Properties.                                                             *)
(***************************************************************************)

\* stored-answers.ts: under the version a listing pins, opening the form and
\* saving it untouched changes nothing: what is read back is what was stored,
\* for every type of answer, and it is accepted.
UntouchedSaveKeepsAnswers ==
  listing # None =>
    LET attributes == versions[listing.version] IN
    validateAttributeValues(attributes,
      toSubmittedAttributes(attributes, toStoredAnswers(attributes, listing.values)))
      = listing.values

\* stored-answers.ts: the form an owner opens shows the quantity that is stored,
\* so a save that touches nothing changes no quantity.
UntouchedFormShowsWhatIsStored ==
  form # None /\ form.edits =>
    \A key \in (DOMAIN form.answers \cap DOMAIN listing.values) \ form.touched :
      listing.values[key][1] = "int" =>
        LET shown == form.answers[key]
            places == attributeOf(versions[listing.version], key).decimalPlaces
        IN shown[2] * 10^places = listing.values[key][2] * 10^shown[3]

=============================================================================
