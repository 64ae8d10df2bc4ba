------------------------------- MODULE Forms -------------------------------
(***************************************************************************)
(* The edit form of an entry (content/form.rs and the handlers of          *)
(* routes/content.rs): a document is rendered as a flat list of inputs     *)
(* named by their paths, a person edits them in the browser, and the       *)
(* inputs that come back are parsed into a document again, into which the  *)
(* files chosen are set one by one.                                        *)
(*                                                                         *)
(* A schema is a pair of a kind and what the kind needs: the fields of an  *)
(* object, the schema of an array's items, the choices of a select.  A     *)
(* form is a set of inputs, each with the texts sent under its name in     *)
(* their order.  A text is written as the value it is the text of.         *)
(*                                                                         *)
(* Abstractions.  What a browser makes of line breaks is left out; numbers *)
(* and integers are one kind, and so are the formats of a plain string.    *)
(* An item of an array has an input (an item that is an object of arrays   *)
(* alone may have none).  Validation may refuse anything; what a save      *)
(* then does is in ContentStore.                                           *)
(***************************************************************************)
EXTENDS Documents, SequencesExt

CONSTANTS
  Scenarios,  \* pairs of a schema and the document the form is opened on
  Files,      \* what a person may choose in a file input
  Words,      \* what a person may type in a text input
  MaxDepth,   \* MAX_NESTING_DEPTH
  MaxEdits,   \* bound: edits of a form
  MaxSubmits  \* bound: submissions of a form

ASSUME FormsAssumption ==
  MaxDepth \in Nat /\ MaxEdits \in Nat /\ MaxSubmits \in Nat

VARIABLES
  page,    \* which page is shown: "none", "edit" or, after a save, "list"
  schema,  \* the schema of the entry
  form,    \* the inputs of the page
  files,   \* the files chosen, by the name of their input
  data,    \* the document of the last submission
  \* History variables.
  meant,   \* the document the edits describe, its arrays keyed as in the page
  excused, \* why the document saved may not be the one meant
  edits, submits

formVars == <<page, schema, form, files, data, meant, excused, edits, submits>>

----------------------------------------------------------------------------
(* Rendering.                                                              *)

Current == Field("__current")
Blank == <<"blank">>
Input(name, texts) == [name |-> name, texts |-> texts]

TextOf(v) == IF v = Text("") THEN Blank ELSE v

\* The text a plain input shows of a value that is, or is not, of its kind.
ShownAs(kind, v) == IF v[1] = kind THEN TextOf(v) ELSE Blank

InputText(v, name) == {Input(name, <<ShownAs("text", v)>>)}
InputNumber(v, name) == {Input(name, <<ShownAs("number", v)>>)}
InputRichtext(v, name) == {Input(name, <<ShownAs("richtext", v)>>)}

\* A hidden "false" comes before the checkbox, which is sent when checked.
InputBoolean(v, name) ==
  {Input(name, IF v = Bool(TRUE) THEN <<Bool(FALSE), Bool(TRUE)>>
                                 ELSE <<Bool(FALSE)>>)}

\* The upload an entry has is carried by a hidden input; an empty file input
\* is sent as an empty text.
InputUpload(v, name) ==
  {Input(name, <<Blank>>)}
    \union (IF v[1] = "upload" THEN {Input(Append(name, Current), <<v>>)} ELSE {})

\* The options of a reference are collected by the paths of fields, and the
\* item of an array has the path of its array, under which there are none.
Options(s, name) ==
  IF s[1] = "reference" /\ IsItem(name[Len(name)]) THEN {} ELSE s[2]

InputSelect(s, v, name) ==
  {Input(name, <<IF v \in Options(s, name) THEN v ELSE Blank>>)}

RenderInput(s, v, name) ==
  CASE s[1] = "string" -> InputText(v, name)
    [] s[1] = "number" -> InputNumber(v, name)
    [] s[1] = "richtext" -> InputRichtext(v, name)
    [] s[1] = "boolean" -> InputBoolean(v, name)
    [] s[1] = "upload" -> InputUpload(v, name)
    [] s[1] \in {"reference", "enum"} -> InputSelect(s, v, name)

RECURSIVE RenderFields(_, _, _, _), RenderField(_, _, _, _)

RenderItem(item, v, name, depth) ==
  IF item[1] = "object" THEN RenderFields(item, v, name, depth + 1)
                        ELSE RenderField(item, v, name, depth + 1)

RenderArray(item, v, name, depth) ==
  UNION {RenderItem(item, p[2], Append(name, p[1]), depth) : p \in Pairs(v)}

RenderField(s, v, name, depth) ==
  CASE s[1] = "object" -> RenderFields(s, v, name, depth + 1)
    [] s[1] = "array" -> RenderArray(s[2], v, name, depth)
    [] OTHER -> RenderInput(s, v, name)

RenderFields(s, v, name, depth) ==
  IF depth > MaxDepth THEN {}
  ELSE UNION {RenderField(s[2][f], Get(v, Field(f)), Append(name, Field(f)), depth) :
                f \in DOMAIN s[2] \ {"_id", "_status"}}

----------------------------------------------------------------------------
(* Parsing what comes back.                                                *)

FirstText(inputs, name) ==
  IF \E e \in inputs : e.name = name
    THEN Head((CHOOSE e \in inputs : e.name = name).texts) ELSE Blank
LastText(inputs, name) ==
  IF \E e \in inputs : e.name = name
    THEN LET texts == (CHOOSE e \in inputs : e.name = name).texts
         IN texts[Len(texts)]
    ELSE Blank

Under(name, n) == Len(n) > Len(name) /\ SubSeq(n, 1, Len(name)) = name

\* Mutant: indices are tried from 0 until one is missing.
IndicesToTheGap(inputs, name) ==
  LET Used(i) == \E x \in inputs : Under(name, x.name)
                                   /\ x.name[Len(name) + 1] = Item(i)
  IN {i \in 0..9 : \A j \in 0..i : Used(j)}

\* The indices that occur in the names of inputs below an array.
Indices(inputs, name) ==
  {e.name[Len(name) + 1][2] :
     e \in {x \in inputs : Under(name, x.name) /\ IsItem(x.name[Len(name) + 1])}}

\* Text that is not that of a string is kept as a string.
AsString(text) == IF text[1] = "text" THEN text ELSE Text("the JSON of a " \o text[1])

ParseSimple(kind, inputs, name) ==
  LET text == FirstText(inputs, name)
      kept == FirstText(inputs, Append(name, Current))
  IN CASE kind = "upload" -> IF kept = Blank THEN Null ELSE kept
       [] kind = "boolean" -> Bool(LastText(inputs, name) = Bool(TRUE))
       [] kind = "number" -> IF text[1] = "number" THEN text ELSE Null
       [] OTHER -> IF text = Blank THEN Null ELSE AsString(text)

RECURSIVE ParseFields(_, _, _, _), ParseField(_, _, _, _)

\* Only an object is parsed by its fields: an item that is an array, or a
\* rich text, is read as a string.
ParseItem(item, inputs, name, depth) ==
  IF item[1] = "object" THEN ParseFields(item, inputs, name, depth)
                        ELSE ParseSimple(item[1], inputs, name)

ParsedItems(item, inputs, name, depth) ==
  WithoutNulls({<<Item(i), ParseItem(item, inputs, Append(name, Item(i)), depth)>> :
                  i \in Indices(inputs, name)})

ParseArray(item, inputs, name, depth) ==
  IF depth > MaxDepth THEN Array({})
                      ELSE Renumber(ParsedItems(item, inputs, name, depth))

ParseField(s, inputs, name, depth) ==
  CASE s[1] = "object" -> ParseFields(s, inputs, name, depth + 1)
    [] s[1] = "array" -> ParseArray(s[2], inputs, name, depth + 1)
    [] s[1] = "richtext" -> IF FirstText(inputs, name) = Blank
                              THEN Null ELSE FirstText(inputs, name)
    [] OTHER -> ParseSimple(s[1], inputs, name)

ParseFields(s, inputs, name, depth) ==
  IF depth > MaxDepth THEN Object({})
  ELSE Object(WithoutNulls(
         {<<Field(f), ParseField(s[2][f], inputs, Append(name, Field(f)), depth)>> :
            f \in DOMAIN s[2] \ {"_id"}}))

\* set_nested_field: an array is padded with empty objects up to the index.
Padded(v, key) ==
  IF IsItem(key) /\ v[1] = "array"
    THEN Array(Pairs(v) \union
                 {<<Item(i), Object({})>> : i \in {j \in 0..key[2] : Item(j) \notin Keys(v)}})
    ELSE v

RECURSIVE SetNested(_, _, _)
SetNested(v, name, x) ==
  IF name = <<>> THEN x
  ELSE LET key == Head(name)
           there == Padded(IF v = Null THEN EmptyFor(key) ELSE v, key)
       IN IF there[1] # EmptyFor(key)[1] THEN v
          ELSE Put(there, key, SetNested(Get(there, key), Tail(name), x))

\* process_uploads: the files are set one by one, each at a path of its own.
ProcessUploads(v, chosen) ==
  FoldSet(LAMBDA c, doc : SetNested(doc, c[1], Upload(c[2])), v, chosen)
----------------------------------------------------------------------------
(* What is meant by a form.                                                *)

Simple(s) == s[1] \notin {"object", "array"}

RECURSIVE Normal(_, _)
\* A document as a form can give it: fields of the schema alone, no empty
\* field or item, but for booleans, objects and arrays, which are there.
Normal(s, v) ==
  CASE s[1] = "object" ->
         Object(WithoutNulls({<<Field(f), Normal(s[2][f], Get(v, Field(f)))>> :
                                f \in DOMAIN s[2]}))
    [] s[1] = "array" ->
         Renumber(WithoutNulls({<<p[1], Normal(s[2], p[2])>> : p \in Pairs(v)}))
    [] s[1] = "boolean" -> Bool(v = Bool(TRUE))
    [] OTHER -> IF v = Text("") THEN Null ELSE v

RECURSIVE Lossy(_, _, _, _)
\* Documents of which a form does not carry everything: below the nesting it
\* renders, items that are arrays or rich texts, choices it does not offer.
Lossy(s, v, name, depth) ==
  CASE s[1] = "object" ->
         \/ depth > MaxDepth
         \/ \E f \in DOMAIN s[2] :
              Lossy(s[2][f], Get(v, Field(f)), Append(name, Field(f)),
                    IF s[2][f][1] = "string" THEN depth ELSE depth + 1)
    [] s[1] = "array" ->
         \/ depth > MaxDepth
         \/ Pairs(v) # {} /\ s[2][1] \in {"array", "richtext"}
         \/ \E p \in Pairs(v) : Lossy(s[2], p[2], Append(name, p[1]), depth)
    [] s[1] \in {"enum", "reference"} -> v \notin Options(s, name) \union {Null}
    [] OTHER -> FALSE

RECURSIVE SchemaAt(_, _), SetAt(_, _, _)
SchemaAt(s, name) ==
  CASE name = <<>> \/ Head(name) = Current -> s
    [] s[1] = "array" -> SchemaAt(s[2], Tail(name))
    [] OTHER -> SchemaAt(s[2][Head(name)[2]], Tail(name))

SetAt(v, name, x) ==
  IF name = <<>> THEN x
  ELSE LET there == IF v = Null THEN EmptyFor(Head(name)) ELSE v
       IN Put(there, Head(name), SetAt(Get(there, Head(name)), Tail(name), x))

FromZero(S) == S = 0..(Cardinality(S) - 1)
At(v, name) == FoldLeft(LAMBDA x, key : Get(x, key), v, name)

\* A file goes to the index its input had in the page, in arrays that were
\* renumbered: it goes astray if an item before it was removed or is empty.
Astray(name) ==
  \E n \in 1..Len(name) :
    LET array == SubSeq(name, 1, n - 1)
        item == SchemaAt(schema, array)[2]
        kept == WithoutNulls({<<p[1], Normal(item, p[2])>> : p \in Pairs(At(meant, array))})
        parsed == ParsedItems(item, form, array, 0)
    IN IsItem(name[n]) /\ \E S \in {kept, parsed} : ~FromZero({p[1][2] : p \in S})

----------------------------------------------------------------------------
FormInit ==
  /\ page = "none" /\ form = {} /\ files = {} /\ excused = FALSE
  /\ edits = 0 /\ submits = 0
  /\ \E s \in Scenarios : schema = s[1] /\ meant = s[2] /\ data = s[2]

\* new_entry_page and edit_entry_page.
OpenForm ==
  /\ page = "none"
  /\ page' = "edit"
  /\ form' = RenderFields(schema, data, <<>>, 0)
  /\ excused' = Lossy(schema, data, <<>>, 0)
  /\ UNCHANGED <<schema, files, data, meant, edits, submits>>

Edit == page = "edit" /\ edits < MaxEdits /\ edits' = edits + 1

\* The "Remove" button of an item takes its inputs out of the page.
RemoveItem ==
  \E e \in form : \E n \in 1..Len(e.name) :
    LET item == SubSeq(e.name, 1, n)
        array == SubSeq(e.name, 1, n - 1)
        items == At(meant, array)
        Gone(name) == name = item \/ Under(item, name)
    IN /\ Edit /\ IsItem(e.name[n])
       /\ form' = {x \in form : ~Gone(x.name)}
       /\ files' = {c \in files : ~Gone(c[1])}
       /\ meant' = SetAt(meant, array,
                         Array({p \in Pairs(items) : p[1] # e.name[n]}))
       /\ UNCHANGED <<page, schema, data, excused, submits>>

RECURSIVE Arrays(_, _)
Arrays(s, name) ==
  CASE s[1] = "object" -> UNION {Arrays(s[2][f], Append(name, Field(f))) : f \in DOMAIN s[2]}
    [] s[1] = "array" ->
         {name} \union UNION {Arrays(s[2], Append(name, Item(i))) : i \in Indices(form, name)}
    [] OTHER -> {}

\* addArrayItem: the index is one more than the largest in the page.
AddItem ==
  \E array \in Arrays(schema, <<>>) :
    LET used == Indices(form \union {Input(c[1], <<>>) : c \in files}, array)
        name == Append(array, Item(IF used = {} THEN 0 ELSE Max(used) + 1))
        item == SchemaAt(schema, name)
    IN /\ Edit
       /\ form' = form \union RenderItem(item, Null, name, 0)
       /\ meant' = SetAt(meant, name, Normal(item, Null))
       /\ UNCHANGED <<page, schema, files, data, excused, submits>>

TypeText ==
  \E e \in form, w \in Words :
    /\ Edit /\ SchemaAt(schema, e.name)[1] = "string"
    /\ form' = (form \ {e}) \union {Input(e.name, <<TextOf(Text(w))>>)}
    /\ meant' = SetAt(meant, e.name, Text(w))
    /\ UNCHANGED <<page, schema, files, data, excused, submits>>

\* parse_multipart: a file input with a file is no longer sent as a text.
ChooseFile ==
  \E e \in form, f \in Files :
    /\ Edit /\ Current \notin {e.name[i] : i \in DOMAIN e.name}
    /\ SchemaAt(schema, e.name)[1] = "upload"
    /\ form' = form \ {e}
    /\ files' = files \union {<<e.name, f>>}
    /\ meant' = SetAt(meant, e.name, Upload(f))
    /\ UNCHANGED <<page, schema, data, excused, submits>>

\* create_entry and update_entry.  A file that cannot be stored is logged and
\* left out.  A document that is not valid is shown again, from what was
\* parsed, with the files stored so far.
Submit ==
  \E stored \in SUBSET files :
    /\ page = "edit" /\ submits < MaxSubmits
    /\ submits' = submits + 1
    /\ data' = ProcessUploads(ParseFields(schema, form, <<>>, 0), stored)
    /\ excused' = (excused \/ stored # files \/ \E c \in files : Astray(c[1]))
    /\ files' = {}
    /\ \/ /\ page' = "list" /\ UNCHANGED <<form, meant>>
       \/ /\ form' = RenderFields(schema, data', <<>>, 0)
          /\ meant' = Normal(schema, meant)
          /\ UNCHANGED page
    /\ UNCHANGED <<schema, edits>>

FormNext == OpenForm \/ RemoveItem \/ AddItem \/ TypeText \/ ChooseFile \/ Submit

\* What is saved is the document that was opened with the edits applied:
\* nothing is lost, doubled or moved to another item on the way through the
\* inputs, through a submission that was refused, or through renumbering -
\* but for what a form cannot carry, a file that was not stored, and a file
\* chosen for an item behind one that was removed.
FormKeepsDocument ==
  page = "list" => excused \/ data = Normal(schema, meant)
=============================================================================
