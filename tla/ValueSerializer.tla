--------------------------- MODULE ValueSerializer ---------------------------
(***************************************************************************)
(* How inputs, step results, signal payloads and workflow results get into *)
(* Redis and back: serializeForStorage, JSON, deserializeFromStorage.      *)
(*                                                                         *)
(* A value is a pair: a primitive <<type, content>>, or <<"ref", n>> for   *)
(* an object of a heap, which may be shared or contain itself.  A heap     *)
(* maps each n to an array <<"array", values>>, a plain object <<"object", *)
(* fields>>, or an object without parts <<class, content>>.  What is in    *)
(* Redis, and what is read from there, are trees: pairs without "ref".     *)
(*                                                                         *)
(* The walk awaits between the parts of a value; the heap does not change  *)
(* meanwhile (the caller waits, and one call runs at a time).              *)
(***************************************************************************)
EXTENDS Naturals, Sequences, FiniteSets, TLC

(* ENVELOPE_MARKER *)
Marker == "__dozer_serialized__"

(* Types that are refused. *)
Refused == {"bigint", "function", "symbol"}

(* Classes with an envelope of their own, and its type. *)
TypedArray ==
  {"Int8Array", "Uint8Array", "Uint8ClampedArray", "Int16Array", "Uint16Array", "Int32Array",
   "Uint32Array", "Float32Array", "Float64Array", "BigInt64Array", "BigUint64Array"}

EnvelopeType(class) ==
  CASE class = "Date" -> "date"
    [] class = "ArrayBuffer" -> "array-buffer"
    [] class = "Buffer" -> "buffer"
    [] class = "DataView" -> "data-view"
    [] class = "Blob" -> "blob"
    [] class \in TypedArray -> "typed-array"
    [] OTHER -> "none"

(* Dates without a time, typed arrays of other names, Maps and instances   *)
(* of user classes: whatever has no envelope is unsupported.               *)
Error == <<"SerializationError", "">>

(* An envelope and its fields besides the type: v is the content, base64   *)
(* or an ISO date; c names the class of a typed array.                     *)
Envelope(type, fields) == <<"object", Marker :> <<"string", type>> @@ fields>>

Encoded(content) == <<"string", "encoded " \o content>>

Contents == {"", "1", "2"}

DecodedContent(s) == CHOOSE d \in Contents : "encoded " \o d = s

EnvelopeOf(class, content) ==
  Envelope(EnvelopeType(class),
           IF class \in TypedArray
             THEN "v" :> Encoded(content) @@ "c" :> <<"string", class>>
             ELSE "v" :> Encoded(content))

-----------------------------------------------------------------------------
(* Heaps *)

Container == {"array", "object"}

Parts(heap, n) ==
  IF heap[n][1] \in Container THEN {heap[n][2][i] : i \in DOMAIN heap[n][2]} ELSE {}

PointsTo(heap, n) == {m \in DOMAIN heap : <<"ref", m>> \in Parts(heap, n)}

(* The objects of a set and all objects below them. *)
Closure(heap, S) ==
  LET f[i \in 0 .. Cardinality(DOMAIN heap)] ==
        IF i = 0 THEN S ELSE f[i - 1] \cup UNION {PointsTo(heap, n) : n \in f[i - 1]}
  IN f[Cardinality(DOMAIN heap)]

-----------------------------------------------------------------------------
(* serializeInternal *)

(* Bug: seen.delete is missing: what was walked before counts as seen. *)
SeenAt_NeverLeft(heap, items, i, seen) ==
  seen \cup {n \in Closure(heap, {m \in DOMAIN heap :
                                    \E j \in 1 .. i - 1 : items[j] = <<"ref", m>>}) :
               heap[n][1] \in Container}

(* seen at the i-th item of an array: the containers around it, those of   *)
(* the items before it have been deleted again.                            *)
SeenAt(heap, items, i, seen) == seen

RECURSIVE Serialize(_, _, _)

SerializeParts(heap, node, seen) ==
  LET parts == [i \in DOMAIN node[2] |->
                  Serialize(heap, node[2][i],
                            IF node[1] = "array" THEN SeenAt(heap, node[2], i, seen) ELSE seen)]
  IN IF \E i \in DOMAIN parts : parts[i] = Error THEN Error ELSE <<node[1], parts>>

SerializeObject(heap, n, seen) ==
  LET node == heap[n]
  IN IF n \in seen THEN Error
     ELSE IF node[1] \in Container THEN SerializeParts(heap, node, seen \cup {n})
     ELSE IF EnvelopeType(node[1]) = "none" THEN Error
     ELSE EnvelopeOf(node[1], node[2])

Serialize(heap, v, seen) ==
  CASE v[1] = "undefined" -> Envelope("undefined", <<>>)
    [] v[1] \in Refused -> Error
    [] v[1] = "ref" -> SerializeObject(heap, v[2], seen)
    [] OTHER -> v

SerializeForStorage(heap, v) == Serialize(heap, v, {})

-----------------------------------------------------------------------------
(* The driver writes JSON, which has no NaN. *)

RECURSIVE Json(_)

Json(t) ==
  CASE t = <<"number", "NaN">> -> <<"null", "">>
    [] t[1] \in Container -> <<t[1], [i \in DOMAIN t[2] |-> Json(t[2][i])]>>
    [] OTHER -> t

-----------------------------------------------------------------------------
(* deserializeInternal *)

IsSerializedEnvelope(t) ==
  t[1] = "object" /\ Marker \in DOMAIN t[2] /\ t[2][Marker][1] = "string"

(* deserializeEnvelope: of a tree that may have any fields beside Marker.  *)
DeserializeEnvelope(fields) ==
  LET type == fields[Marker][2]
      content == IF "v" \in DOMAIN fields THEN DecodedContent(fields["v"][2]) ELSE ""
      named == "c" \in DOMAIN fields
  IN CASE type = "undefined" -> <<"undefined", "">>
       [] type = "date" /\ content # "" -> <<"Date", content>>
       [] type = "array-buffer" -> <<"ArrayBuffer", content>>
       [] type = "buffer" -> <<"Buffer", content>>
       [] type = "data-view" -> <<"DataView", content>>
       [] type = "blob" -> <<"Blob", content>>
       [] type = "typed-array" /\ named /\ fields["c"][2] \in TypedArray ->
            <<fields["c"][2], content>>
       [] OTHER -> Error

RECURSIVE Deserialize(_)

Deserialize(t) ==
  CASE IsSerializedEnvelope(t) -> DeserializeEnvelope(t[2])
    [] t[1] \in Container -> <<t[1], [i \in DOMAIN t[2] |-> Deserialize(t[2][i])]>>
    [] OTHER -> t

ReadBack(heap, v) ==
  LET stored == SerializeForStorage(heap, v)
  IN IF stored = Error THEN Error ELSE Deserialize(Json(stored))

-----------------------------------------------------------------------------
(* What to expect: the reference definition *)

ReachedFrom(heap, v) == IF v[1] = "ref" THEN Closure(heap, {v[2]}) ELSE {}

Circular(heap, v) ==
  \E n \in ReachedFrom(heap, v) : n \in Closure(heap, PointsTo(heap, n))

ValuesIn(heap, v) == {v} \cup UNION {Parts(heap, n) : n \in ReachedFrom(heap, v)}

Supported(heap, v) ==
  /\ \A p \in ValuesIn(heap, v) : p[1] \notin Refused
  /\ \A n \in ReachedFrom(heap, v) :
       heap[n][1] \in Container \/ EnvelopeType(heap[n][1]) # "none"

(* An object of the user that the reader takes for an envelope. *)
Impostor(heap, v) ==
  \E n \in ReachedFrom(heap, v) :
    /\ heap[n][1] = "object" /\ Marker \in DOMAIN heap[n][2]
    /\ heap[n][2][Marker][1] = "string"

RECURSIVE Unfolded(_, _)

(* The value without its sharing; NaN becomes null.                        *)
Unfolded(heap, v) ==
  CASE v = <<"number", "NaN">> -> <<"null", "">>
    [] v[1] # "ref" -> v
    [] OTHER -> LET node == heap[v[2]]
                IN IF node[1] \in Container
                     THEN <<node[1], [i \in DOMAIN node[2] |-> Unfolded(heap, node[2][i])]>>
                     ELSE node

(* Whatever objects share, and however deep they are, a value is refused   *)
(* exactly when some part of it is unsupported or it contains itself, and  *)
(* otherwise is read back as it was.  Values with a string in a field      *)
(* __dozer_serialized__ are left out: the reader takes them for envelopes. *)
RoundTrips(heap, v) ==
  ~Impostor(heap, v) =>
    ReadBack(heap, v) =
      IF Circular(heap, v) \/ ~Supported(heap, v) THEN Error ELSE Unfolded(heap, v)
=============================================================================
