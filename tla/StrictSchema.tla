---------------------------- MODULE StrictSchema ----------------------------
(***************************************************************************)
(* The JSON schema of a tool or of an answer (llm/tool.go,                 *)
(* llm/response_format.go) and the strict form of it that the providers    *)
(* ask for (llm/schema.go): every object closed, every property required,  *)
(* no oneOf, no $ref that says more than where it points.                  *)
(*                                                                         *)
(* Schemas are Go maps, changed where they are and shared: a $ref that is  *)
(* expanded takes the properties of what it refers to, not a copy.  So a   *)
(* schema is a heap of maps, the root first, and its strict form is made   *)
(* by a recursion over them whose stack is the model's.  The order of a    *)
(* map's keys is any.                                                      *)
(***************************************************************************)
EXTENDS Integers, Sequences, FiniteSetsExt, TLC

CONSTANTS Schemas \* a sequence of heaps: each map a function of its keys, a value that is no map 0

VARIABLES
    asked, \* what is made of the schema: [as, name, described, schema]
    heap,  \* the maps
    stack, \* the calls of ensureStrictJSONSchemaRecursive
    made   \* "", "made", or the error

schemaVars == <<asked, heap, stack, made>>

Unasked == [as |-> "", name |-> "", described |-> FALSE, schema |-> 1]

SchemaInit == asked = Unasked /\ heap = <<>> /\ stack = <<>> /\ made = ""

Has(n, key) == key \in DOMAIN heap[n]
Without(map, keys) == [key \in DOMAIN map \ keys |-> map[key]]

\* A call begins with the definitions.
Call(n) == [node |-> n, at |-> "$defs", left |-> {}, entered |-> FALSE]

\* NewTool, NewRawTool, NewResponseFormat and NewRawResponseFormat: the schema is reflected
\* or decoded, so the caller's own is never changed.
Ask ==
    /\ asked = Unasked
    /\ \E as \in {"tool", "format"}, name \in {"", "n"}, described \in BOOLEAN, i \in DOMAIN Schemas :
        /\ asked' = [as |-> as, name |-> name, described |-> described, schema |-> i]
        /\ IF name = "" THEN made' = "ErrNameRequired" /\ UNCHANGED <<heap, stack>>
           ELSE IF DOMAIN Schemas[i][1] = {}
           THEN /\ heap' = <<"additionalProperties" :> "closed" @@ "type" :> "object" @@ "properties" :> <<>> @@ "required" :> {}>>
                /\ stack' = <<>> /\ made' = "strict"
           ELSE heap' = Schemas[i] /\ stack' = <<Call(1)>> /\ UNCHANGED made

Top == stack[Len(stack)]
Busy == stack # <<>> /\ made = ""

\* The maps a phase descends into: the values of a map, or the entries of a list.
Children(n, key) ==
    IF ~Has(n, key) THEN {}
    ELSE IF key = "items" THEN {heap[n][key]} \ {0}
    ELSE {heap[n][key][k] : k \in DOMAIN heap[n][key]}

After == [x \in {"$defs", "properties", "items", "anyOf", "oneOf", "allOf"} |->
            CASE x = "$defs" -> "properties" [] x = "properties" -> "items" [] x = "items" -> "anyOf"
              [] x = "anyOf" -> "oneOf" [] x = "oneOf" -> "allOf" [] OTHER -> "end"]

\* Before the properties: an object is closed, and every property required.
Closed(map) ==
    LET closes == "type" \in DOMAIN map /\ map["type"] = "object" /\ "additionalProperties" \notin DOMAIN map
        closed == IF closes THEN map @@ "additionalProperties" :> "closed" ELSE map
    IN  IF "properties" \in DOMAIN map
        THEN "required" :> DOMAIN map["properties"] @@ closed ELSE closed

Open(map) ==
    /\ "type" \in DOMAIN map /\ "additionalProperties" \in DOMAIN map
    /\ map["type"] = "object" /\ map["additionalProperties"] = "open"

\* oneOf's variants follow anyOf's.
OneOfMerged(map) ==
    LET some == IF "anyOf" \in DOMAIN map THEN map["anyOf"] ELSE <<>>
    IN  IF "oneOf" \in DOMAIN map
        THEN "anyOf" :> (some \o map["oneOf"]) @@ Without(map, {"oneOf"}) ELSE map

\* The only entry of an allOf replaces what the schema says; a default that is nil goes.
AllOfMerged(map) ==
    LET merged == IF "allOf" \in DOMAIN map /\ Len(map["allOf"]) = 1
                  THEN Without(heap[map["allOf"][1]] @@ map, {"allOf"}) ELSE map
    IN  IF "default" \in DOMAIN merged /\ merged["default"] = "nil" THEN Without(merged, {"default"}) ELSE merged

\* The maps change as a phase begins ("properties") or ends.
Enters(phase, map) == IF phase = "properties" THEN Closed(map) ELSE map
Leaves(phase, map) ==
    IF phase = "oneOf" THEN OneOfMerged(map) ELSE IF phase = "allOf" THEN AllOfMerged(map) ELSE map

Put(frame) == stack' = [stack EXCEPT ![Len(stack)] = frame]

\* A phase begins.
BeginPhase ==
    /\ Busy /\ Top.at # "end" /\ ~Top.entered
    /\ ~(Top.at = "properties" /\ Open(heap[Top.node]))
    /\ heap' = [heap EXCEPT ![Top.node] = Enters(Top.at, @)]
    /\ Put([Top EXCEPT !.entered = TRUE, !.left = Children(Top.node, Top.at)])
    /\ UNCHANGED <<asked, made>>

Descend ==
    /\ Busy /\ Top.entered /\ Top.left # {}
    /\ \E child \in Top.left \ {0} :
        stack' = Append([stack EXCEPT ![Len(stack)].left = @ \ {child}], Call(child))
    /\ UNCHANGED <<asked, heap, made>>

EndPhase ==
    /\ Busy /\ Top.entered /\ Top.left = {}
    /\ heap' = [heap EXCEPT ![Top.node] = Leaves(Top.at, @)]
    /\ Put([Top EXCEPT !.at = After[@], !.entered = FALSE])
    /\ UNCHANGED <<asked, made>>

\* resolveRef: where a reference leads, if anywhere.
Resolved(ref) ==
    IF Len(ref) = 2 /\ ref[1] \in DOMAIN heap[1] /\ ref[2] \in DOMAIN heap[1][ref[1]]
    THEN {heap[1][ref[1]][ref[2]]} \ {0} ELSE {}

Expands(n) == Has(n, "$ref") /\ Cardinality(DOMAIN heap[n]) > 1
Finished(n) == Busy /\ Top.node = n /\ Top.at = "end"

\* Variant: what an expanded reference took is not processed again.
Again_Not(n) == stack' = SubSeq(stack, 1, Len(stack) - 1)

\* The expanded schema is processed again, under the call that expanded it.
Again(n) == stack' = Append(SubSeq(stack, 1, Len(stack) - 1), Call(n))

\* A reference with siblings takes what it refers to, where it does not say so itself.
Expand ==
    \E n \in DOMAIN heap :
        /\ Finished(n) /\ Expands(n)
        /\ \E target \in Resolved(heap[n]["$ref"]) :
            heap' = [heap EXCEPT ![n] = Without(@ @@ heap[target], {"$ref"})]
        /\ Again(n)
        /\ UNCHANGED <<asked, made>>

\* The call returns; the root's is the last.
Return ==
    \E n \in DOMAIN heap :
        /\ Finished(n) /\ ~Expands(n)
        /\ stack' = SubSeq(stack, 1, Len(stack) - 1)
        /\ made' = IF Len(stack) = 1 THEN "strict" ELSE ""
        /\ UNCHANGED <<asked, heap>>

\* A value that is no map, an object left open, a reference that leads nowhere.
Fails ==
    /\ Busy
    /\ \/ Top.entered /\ 0 \in Top.left /\ made' = "SchemaExpectedMapError"
       \/ Top.at = "properties" /\ ~Top.entered /\ Open(heap[Top.node]) /\ made' = "ErrSchemaAdditionalPropertiesSet"
       \/ /\ Top.at = "end" /\ Expands(Top.node) /\ Resolved(heap[Top.node]["$ref"]) = {}
          /\ made' = "unresolved"
    /\ UNCHANGED <<asked, heap, stack>>

\* strictAndLoose writes the description.
MakeTool ==
    /\ made = "strict" /\ asked.as = "tool"
    /\ heap' = [heap EXCEPT ![1] = IF asked.described THEN "description" :> "given" @@ @ ELSE @]
    /\ made' = "made"
    /\ UNCHANGED <<asked, stack>>

\* newResponseFormat asks for an object, and drops what describes the document.
MakeFormat ==
    /\ made = "strict" /\ asked.as = "format"
    /\ made' = IF Has(1, "type") /\ heap[1]["type"] = "object" THEN "made" ELSE "ResponseFormatSchemaError"
    /\ heap' = IF made' = "made" THEN [heap EXCEPT ![1] = Without(@, {"$schema"})] ELSE heap
    /\ UNCHANGED <<asked, stack>>

SchemaNext == Ask \/ BeginPhase \/ Descend \/ EndPhase \/ Expand \/ Return \/ Fails \/ MakeTool \/ MakeFormat

-----------------------------------------------------------------------------

\* The maps of the schema.
Below(n) == UNION {Children(n, key) : key \in DOMAIN After} \ {0}
Reached ==
    LET upTo[k \in 0 .. Len(heap)] ==
            IF k = 0 THEN {1} ELSE upTo[k - 1] \cup UNION {Below(n) : n \in upTo[k - 1]}
    IN  upTo[Len(heap)]

\* A schema in the form the providers accept; a map of values keeps the schema of its values.
IsStrict(n) ==
    /\ Has(n, "type") /\ heap[n]["type"] = "object" =>
          Has(n, "additionalProperties") /\ heap[n]["additionalProperties"] # "open"
    /\ Has(n, "properties") => Has(n, "required") /\ heap[n]["required"] = DOMAIN heap[n]["properties"]
    /\ ~Has(n, "oneOf") /\ ~Expands(n)
    /\ Has(n, "allOf") => Len(heap[n]["allOf"]) > 1
    /\ Has(n, "default") => heap[n]["default"] # "nil"

\* The properties a schema has, itself or by what it refers to.
FieldsOf(maps) ==
    LET Leads(n) == (IF "$ref" \in DOMAIN maps[n] THEN {maps[1][maps[n]["$ref"][1]][maps[n]["$ref"][2]]} ELSE {})
                        \cup (IF "allOf" \in DOMAIN maps[n] THEN {maps[n]["allOf"][1]} ELSE {})
        within[k \in 0 .. Len(maps)] ==
            [n \in DOMAIN maps |->
                IF "properties" \in DOMAIN maps[n] THEN DOMAIN maps[n]["properties"]
                ELSE IF k = 0 THEN {} ELSE UNION {within[k - 1][to] : to \in Leads(n)}]
    IN  within[Len(maps)]

\* The strict form is strict all the way down, and whatever shares a definition, in any
\* order, still has the properties it had (schema.go).
StrictAndTheSame ==
    made = "made" => /\ \A n \in Reached : IsStrict(n)
                     /\ DOMAIN Schemas[asked.schema][1] # {} =>
                            \A n \in Reached : FieldsOf(heap)[n] = FieldsOf(Schemas[asked.schema])[n]

\* "T and R can be any types" (tool.go): no schema is processed within its own processing,
\* which would come to it again, and again.
AnyTypeIsATool == \A i, j \in DOMAIN stack : stack[i].node = stack[j].node => i = j
=============================================================================
