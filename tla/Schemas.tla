------------------------------ MODULE Schemas ------------------------------
(***************************************************************************)
(* What becomes of a tool's schema and of a call's arguments: the schema   *)
(* that the agent is shown (src/Shrink/src/compactor.rs, per tier as in    *)
(* router.rs) and the arguments that the upstream gets                     *)
(* (src/Shrink/src/validator.rs).  Both are JSON; a schema is read with    *)
(* get, which finds nothing in what is not an object.                      *)
(***************************************************************************)
EXTENDS Integers, Sequences, FiniteSets, SequencesExt

CONSTANTS
  Schemas,   \* inputSchemas that upstreams publish
  Values,    \* arguments that agents send
  Tiers,     \* compression tiers
  Json,      \* JSON values: those, their parts and what the code makes of them
  Depth,     \* how deep each of them is nested
  MaxDepth   \* and how deep serde_json reads

ASSUME TierAssumption == Tiers \subseteq {"none", "safe", "balanced", "high"}

(* JSON values.  A number is counted in halves, and written as an integer  *)
(* or as a float: Float(2), which is 1.0, equals Whole(1) for a bound, and *)
(* differs from it for const and enum.                                     *)
Null    == [null |-> TRUE]
Bool(x) == [bool |-> x]
Num(h, isFloat) == [half |-> h, float |-> isFloat]
Whole(n) == Num(2 * n, FALSE)
Float(h) == Num(h, TRUE)
Str(x)  == [str |-> x]
Arr(x)  == [arr |-> x]
Obj(x)  == [obj |-> x]

Is(v, kind) == kind \in DOMAIN v

Parts(v) == IF Is(v, "arr") THEN Range(v.arr)
            ELSE IF Is(v, "obj") THEN Range(v.obj) ELSE {}

(* A value is of one of six kinds.                                         *)
IsJson(v) ==
  \/ v = Null
  \/ Is(v, "bool") /\ v = Bool(v.bool) /\ v.bool \in BOOLEAN
  \/ /\ Is(v, "half") /\ v = Num(v.half, v.float)
     /\ v.half \in Int /\ v.float \in BOOLEAN /\ (v.float \/ v.half % 2 = 0)
  \/ Is(v, "str") /\ v = Str(v.str)
  \/ Is(v, "arr") /\ v = Arr(v.arr) /\ v.arr \in Seq(Range(v.arr))
  \/ Is(v, "obj") /\ v = Obj(v.obj) /\ v.obj = [k \in DOMAIN v.obj |-> v.obj[k]]

(* The functions below recur on the parts of a value, which are less deep. *)
ASSUME JsonAssumption ==
  /\ Schemas \subseteq Json /\ Values \subseteq Json
  /\ MaxDepth \in Nat /\ Depth \in [Json -> 0 .. MaxDepth]
  /\ \A v \in Json : IsJson(v) /\ \A p \in Parts(v) : p \in Json /\ Depth[p] < Depth[v]

Has(s, k)       == Is(s, "obj") /\ k \in DOMAIN s.obj
HasA(s, k, kind) == Has(s, k) /\ Is(s.obj[k], kind)

Strings(v) == {e.str : e \in {f \in Range(v.arr) : Is(f, "str")}}

-----------------------------------------------------------------------------
(* validator.rs                                                            *)

TypeMatches(v, name) ==
  \/ name = "string"  /\ Is(v, "str")
  \/ name = "number"  /\ Is(v, "half")
  \/ name = "integer" /\ Is(v, "half") /\ v.half % 2 = 0
  \/ name = "boolean" /\ Is(v, "bool")
  \/ name = "null"    /\ Is(v, "null")
  \/ name = "array"   /\ Is(v, "arr")
  \/ name = "object"  /\ Is(v, "obj")

(* A bound is a number; a bound on a size is written as an integer, and is *)
(* not negative (as_u64).                                                  *)
SizeKeys == {"minItems", "maxItems", "minLength", "maxLength"}

HasBound(s, k) ==
  /\ HasA(s, k, "half")
  /\ k \in SizeKeys => ~s.obj[k].float /\ s.obj[k].half \in Nat

Between(halves, s, min, max) ==
  /\ HasBound(s, min) => halves >= s.obj[min].half
  /\ HasBound(s, max) => halves <= s.obj[max].half

(* Each part of the validator takes the validator itself, which it applies *)
(* to parts of the schema.                                                 *)
ValidMember(valid, s, v, k) ==
  IF HasA(s, "properties", "obj") /\ k \in DOMAIN s.obj["properties"].obj
  THEN valid[s.obj["properties"].obj[k]][v.obj[k]]
  ELSE Has(s, "additionalProperties") =>
         LET more == s.obj["additionalProperties"] IN
         more # Bool(FALSE) /\ (Is(more, "obj") => valid[more][v.obj[k]])

ValidObject(valid, s, v) ==
  /\ HasA(s, "required", "arr") => Strings(s.obj["required"]) \subseteq DOMAIN v.obj
  /\ \A k \in DOMAIN v.obj : ValidMember(valid, s, v, k)

ValidArray(valid, s, v) ==
  /\ HasA(s, "items", "obj") =>
       \A i \in DOMAIN v.arr : valid[s.obj["items"]][v.arr[i]]
  /\ HasA(s, "items", "arr") =>
       \A i \in DOMAIN v.arr \cap DOMAIN s.obj["items"].arr :
         valid[s.obj["items"].arr[i]][v.arr[i]]
  /\ Between(2 * Len(v.arr), s, "minItems", "maxItems")

ValidBranches(valid, s, v) ==
  /\ HasA(s, "anyOf", "arr") => \E b \in Range(s.obj["anyOf"].arr) : valid[b][v]
  /\ HasA(s, "oneOf", "arr") =>
       LET branches == s.obj["oneOf"].arr IN
       Cardinality({i \in DOMAIN branches : valid[branches[i]][v]}) = 1
  /\ HasA(s, "allOf", "arr") => \A b \in Range(s.obj["allOf"].arr) : valid[b][v]

ValidAlone(s, v) ==
  /\ Has(s, "const") => v = s.obj["const"]
  /\ HasA(s, "enum", "arr") => v \in Range(s.obj["enum"].arr)
  /\ HasA(s, "type", "str") => TypeMatches(v, s.obj["type"].str)
  /\ HasA(s, "type", "arr") => \E t \in Strings(s.obj["type"]) : TypeMatches(v, t)
  /\ Is(v, "str") => Between(2 * Len(v.str), s, "minLength", "maxLength")
  /\ Is(v, "half") => Between(v.half, s, "minimum", "maximum")

ValidAt(valid, s, v) ==
  /\ ValidAlone(s, v)
  /\ ValidBranches(valid, s, v)
  /\ Is(v, "obj") => ValidObject(valid, s, v)
  /\ Is(v, "arr") => ValidArray(valid, s, v)

Valid[s \in Json] == [v \in Json |-> ValidAt(Valid, s, v)]

Required(s) == IF HasA(s, "required", "arr") THEN Strings(s.obj["required"]) ELSE {}

Kept(s, v) == {k \in DOMAIN v.obj : v.obj[k] # Null \/ k \in Required(s)}

(* Bug: nulls are dropped only at the top level.                           *)
StrippedOnTop(strip, s, v) ==
  IF Is(v, "obj") /\ HasA(s, "properties", "obj")
  THEN Obj([k \in Kept(s, v) |-> v.obj[k]])
  ELSE v

Stripped(strip, s, v) ==
  IF Is(v, "obj") /\ HasA(s, "properties", "obj")
  THEN LET props == s.obj["properties"].obj
       IN  Obj([k \in Kept(s, v) |-> IF k \in DOMAIN props
                                     THEN strip[props[k]][v.obj[k]]
                                     ELSE v.obj[k]])
  ELSE v

StripOptionalNulls[s \in Json] == [v \in Json |-> Stripped(StripOptionalNulls, s, v)]

Rejected == [error |-> TRUE]

(* Bug: what is validated is not what is returned.                         *)
RehydrateAsSent(v, s, aggressive) ==
  LET normalized == IF aggressive THEN StripOptionalNulls[s][v] ELSE v
  IN  IF Valid[s][normalized] THEN [ok |-> v] ELSE Rejected

Rehydrate(v, s, aggressive) ==
  LET normalized == IF aggressive THEN StripOptionalNulls[s][v] ELSE v
  IN  IF Valid[s][normalized] THEN [ok |-> normalized] ELSE Rejected

-----------------------------------------------------------------------------
(* compactor.rs                                                            *)

(* Bug: one key too many is taken for metadata.                            *)
TooManyKeys == {"$schema", "title", "examples", "default", "required"}

MetadataKeys ==
  {"$schema", "$id", "$comment", "title", "examples", "default", "readOnly",
   "writeOnly", "deprecated"}

(* A description cut short, whatever it said.                              *)
Shortened == Str("...")

Compacted(compact, s, keepDescriptions) ==
  IF Is(s, "obj")
  THEN LET kept == {k \in DOMAIN s.obj \ MetadataKeys :
                      k = "description" => keepDescriptions /\ Is(s.obj[k], "str")}
       IN  Obj([k \in kept |-> IF k = "description" THEN Shortened
                               ELSE compact[s.obj[k]][keepDescriptions]])
  ELSE IF Is(s, "arr")
  THEN Arr([i \in DOMAIN s.arr |-> compact[s.arr[i]][keepDescriptions]])
  ELSE s

CompactJsonschema[s \in Json] ==
  [keepDescriptions \in BOOLEAN |-> Compacted(CompactJsonschema, s, keepDescriptions)]

(* What the code makes of JSON is JSON.                                    *)
ASSUME ClosedAssumption ==
  /\ \A s \in Json, keep \in BOOLEAN : CompactJsonschema[s][keep] \in Json
  /\ \A s \in Schemas, v \in Values : StripOptionalNulls[s][v] \in Json

(***************************************************************************)
(* The signature of the high tier, read back as TypeScript reads it: a     *)
(* text is the sequence of what stands between its "|", each of these the  *)
(* sequence of what stands between its "&", which binds closer.  Only the  *)
(* elements of arrays are put in parentheses.                              *)
(***************************************************************************)
Atom(a)     == << <<a>> >>
Either(ts)  == FlattenSeq(ts)
Both(t, u)  == IF t = <<>> THEN u ELSE IF u = <<>> THEN t
               ELSE Front(t) \o << Last(t) \o Head(u) >> \o Tail(u)
EachOf(ts)  == LET upTo[n \in 0 .. Len(ts)] == IF n = 0 THEN <<>> ELSE Both(upTo[n - 1], ts[n])
               IN  upTo[Len(ts)]

AnyType    == Atom([any |-> TRUE])
Literal(v) == Atom([lit |-> v])

ArrayType(ts, s) ==
  IF HasA(s, "items", "obj") THEN Atom([elements |-> ts[s.obj["items"]]])
  ELSE IF HasA(s, "items", "arr")
  THEN LET tuple == s.obj["items"].arr
       IN  Atom([tuple |-> [i \in DOMAIN tuple |-> ts[tuple[i]]]])
  ELSE Atom([elements |-> AnyType])

Properties(s) == IF HasA(s, "properties", "obj") THEN s.obj["properties"].obj ELSE <<>>

(* Bug: no property is marked as optional.                                 *)
ObjectTypeStrict(ts, s) ==
  LET props == Properties(s)
  IN  Atom([fields |-> [k \in DOMAIN props |-> ts[props[k]]], needed |-> DOMAIN props])

(* The properties, with those that are required; without any, what the     *)
(* others may be.                                                          *)
ObjectType(ts, s) ==
  LET props == Properties(s) IN
  IF DOMAIN props # {}
  THEN Atom([fields |-> [k \in DOMAIN props |-> ts[props[k]]],
             needed |-> Required(s) \cap DOMAIN props])
  ELSE IF HasA(s, "additionalProperties", "obj")
  THEN Atom([members |-> ts[s.obj["additionalProperties"]]])
  ELSE IF Has(s, "additionalProperties") /\ s.obj["additionalProperties"] = Bool(FALSE)
  THEN Atom([braces |-> TRUE])
  ELSE Atom([members |-> AnyType])

TsFromType(ts, t, s) ==
  CASE t = "array"   -> ArrayType(ts, s)
    [] t = "object"  -> ObjectType(ts, s)
    [] t = "integer" -> Atom([name |-> "number"])
    [] OTHER         -> Atom([name |-> t])

HasSome(s, k) == HasA(s, k, "arr") /\ s.obj[k].arr # <<>>
TypesOf(ts, ss)   == [i \in DOMAIN ss |-> ts[ss[i]]]

(* The first keyword in this order decides, and the others are left out.   *)
TypeText(ts, s) ==
  IF Has(s, "const") THEN Literal(s.obj["const"])
  ELSE IF HasSome(s, "enum")
  THEN Either([i \in DOMAIN s.obj["enum"].arr |-> Literal(s.obj["enum"].arr[i])])
  ELSE IF HasSome(s, "anyOf") THEN Either(TypesOf(ts, s.obj["anyOf"].arr))
  ELSE IF HasSome(s, "oneOf") THEN Either(TypesOf(ts, s.obj["oneOf"].arr))
  ELSE IF HasSome(s, "allOf") THEN EachOf(TypesOf(ts, s.obj["allOf"].arr))
  ELSE IF HasA(s, "type", "str") THEN TsFromType(ts, s.obj["type"].str, s)
  ELSE IF HasA(s, "type", "arr")
  THEN LET names == s.obj["type"].arr
       IN  Either([i \in DOMAIN names |-> IF Is(names[i], "str")
                                          THEN TsFromType(ts, names[i].str, s) ELSE <<>>])
  ELSE IF Has(s, "properties") THEN ObjectType(ts, s)
  ELSE IF Has(s, "items") THEN ArrayType(ts, s)
  ELSE AnyType

TsType[s \in Json] == TypeText(TsType, s)

(* The inputSchema in the list that the agent gets, and the signature that *)
(* it gets in the description.                                             *)
Shown(s, tier) ==
  CASE tier = "none"     -> s
    [] tier = "safe"     -> CompactJsonschema[s][FALSE]
    [] tier = "balanced" -> CompactJsonschema[s][TRUE]
    [] tier = "high"     -> Obj([k \in {"type"} |-> Str("object")])

Signature(s, tier) == IF tier = "high" THEN TsType[s] ELSE AnyType

-----------------------------------------------------------------------------
(* A tool is listed, then called once.                                     *)
VARIABLES
  schema,   \* what the upstream published
  tier,     \* the session's tier
  args,     \* what the agent sends
  shown,    \* the schema that the agent was shown; Null before
  hint,     \* the signature that it was shown
  verdict   \* what becomes of the call; Null before

vars == <<schema, tier, args, shown, hint, verdict>>

Init ==
  /\ schema \in Schemas /\ tier \in Tiers /\ args \in Values
  /\ shown = Null /\ hint = AnyType /\ verdict = Null

List ==
  /\ shown = Null
  /\ shown' = Shown(schema, tier)
  /\ hint' = Signature(schema, tier)
  /\ UNCHANGED <<schema, tier, args, verdict>>

Call ==
  /\ shown # Null /\ verdict = Null
  /\ verdict' = IF tier = "none" THEN [ok |-> args]
                ELSE Rehydrate(args, schema, tier = "high")
  /\ UNCHANGED <<schema, tier, args, shown, hint>>

Next == List \/ Call

Spec == Init /\ [][Next]_vars

-----------------------------------------------------------------------------
(* Properties.                                                             *)

(* The schemas that a schema applies, to a value or to what is inside it.  *)
Subschemas(s) ==
  (IF HasA(s, "properties", "obj") THEN Range(s.obj["properties"].obj) ELSE {})
    \cup {s.obj[k] : k \in {j \in {"additionalProperties", "items"} : HasA(s, j, "obj")}}
    \cup UNION {Range(s.obj[k].arr) :
                  k \in {j \in {"items", "anyOf", "oneOf", "allOf"} : HasA(s, j, "arr")}}

(* No property has the name of metadata, and no constant has metadata in   *)
(* it, here and in the schemas below: compaction knows no difference.      *)
IsPlain(ss) ==
  \A s \in ss :
    /\ Subschemas(s) \subseteq ss
    /\ HasA(s, "properties", "obj") =>
         DOMAIN s.obj["properties"].obj \cap (MetadataKeys \cup {"description"}) = {}
    /\ Has(s, "const") =>
         \A keep \in BOOLEAN : CompactJsonschema[s.obj["const"]][keep] = s.obj["const"]
    /\ HasA(s, "enum", "arr") =>
         \A e \in Range(s.obj["enum"].arr), keep \in BOOLEAN : CompactJsonschema[e][keep] = e

(* Compaction is "losslessly structural" and what it strips "doesn't       *)
(* constrain arguments" (compactor.rs:12, :176): the schema that the host  *)
(* is shown accepts what the original accepts, and nothing else.  Both are *)
(* read as validator.rs reads a schema; a host's own validator may know    *)
(* keywords that this one does not.                                        *)
HostAgrees ==
  shown # Null /\ tier # "high" => (Valid[shown][args] <=> Valid[schema][args])

(* Whether v is of a type, structurally: an object may have more members.  *)
AdmitsAtom(admits, a, v) ==
  \/ Is(a, "any")
  \/ Is(a, "lit") /\ v = a.lit
  \/ Is(a, "name") /\ TypeMatches(v, a.name)
  \/ Is(a, "braces") /\ v # Null
  \/ Is(a, "elements") /\ Is(v, "arr") /\ \A e \in Range(v.arr) : admits[e][a.elements]
  \/ /\ Is(a, "tuple") /\ Is(v, "arr") /\ Len(v.arr) = Len(a.tuple)
     /\ \A i \in DOMAIN v.arr : admits[v.arr[i]][a.tuple[i]]
  \/ Is(a, "members") /\ Is(v, "obj") /\ \A e \in Range(v.obj) : admits[e][a.members]
  \/ /\ Is(a, "fields") /\ Is(v, "obj") /\ a.needed \subseteq DOMAIN v.obj
     /\ \A k \in DOMAIN v.obj \cap DOMAIN a.fields : admits[v.obj[k]][a.fields[k]]

AdmitsText(admits, type, v) ==
  \E i \in DOMAIN type : \A j \in DOMAIN type[i] : AdmitsAtom(admits, type[i][j], v)

Types == {AnyType} \cup {TsType[s] : s \in Json}

Admits[v \in Json] == [type \in Types |-> AdmitsText(Admits, type, v)]

(* No tuples, which a schema lets be shorter or longer, and a type where   *)
(* properties or items are spoken of, here and in the schemas below.       *)
IsTyped(ss) ==
  \A s \in ss :
    /\ Subschemas(s) \subseteq ss
    /\ ~HasA(s, "items", "arr")
    /\ Has(s, "properties") \/ Has(s, "items") => HasA(s, "type", "str") \/ HasA(s, "type", "arr")

(* The signature holds no good call back: what fits the schema is of the   *)
(* type that the model is given to read instead of it (compactor.rs:9-10). *)
(* (This is promised of schemas that are typed, as above.)                 *)
SignatureCovers ==
  shown # Null /\ tier = "high" /\ Valid[schema][args] => Admits[args][hint]

(* Whether w is v with some null members left out, at any depth of objects.*)
Trimmed(trims, v, w) ==
  IF Is(v, "obj")
  THEN /\ Is(w, "obj") /\ DOMAIN w.obj \subseteq DOMAIN v.obj
       /\ \A k \in DOMAIN w.obj : trims[v.obj[k]][w.obj[k]]
       /\ \A k \in DOMAIN v.obj \ DOMAIN w.obj : v.obj[k] = Null
  ELSE w = v

Trims[v \in Json] == [w \in Json |-> Trimmed(Trims, v, w)]

TakesNoObject(s) == \A v \in Json : Is(v, "obj") => ~Valid[s][v]

(* Objects are taken only where their properties are listed, and neither   *)
(* in arrays nor in branches: nowhere else does the code look for nulls.   *)
IsListed(ss) ==
  \A s \in ss :
    \/ TakesNoObject(s)
    \/ /\ HasA(s, "properties", "obj") /\ Range(s.obj["properties"].obj) \subseteq ss
       /\ HasA(s, "additionalProperties", "obj") => TakesNoObject(s.obj["additionalProperties"])
       /\ ~Has(s, "const")
       /\ \A k \in {"enum", "anyOf", "oneOf", "allOf"} : ~HasA(s, k, "arr")

(* Nulls for optional fields do not make a call fail in the high tier: if  *)
(* there are nulls to leave out that make the arguments fit, the code      *)
(* finds them.  (This is promised of schemas that are listed, as above.)   *)
NullsAreForgiven ==
  tier = "high" /\ verdict = Rejected =>
    \A w \in Json : Trims[args][w] => ~Valid[schema][w]

(* What is forwarded fits the original schema, and is what the agent sent  *)
(* but for nulls, which are left out in the high tier only.                *)
ForwardedFits ==
  Is(verdict, "ok") /\ tier # "none" =>
    /\ Valid[schema][verdict.ok]
    /\ IF tier = "high" THEN Trims[args][verdict.ok] ELSE verdict.ok = args
=============================================================================
