---------------------------- MODULE SchemaProofs ----------------------------
(***************************************************************************)
(* Proofs about Schemas, for JSON of any size: that the recursive          *)
(* functions are what their definitions say, and by induction on the depth *)
(* of schemas and of arguments what they have to do with one another.      *)
(***************************************************************************)
EXTENDS Schemas, FiniteSetTheorems, TLAPS

(* Induction on numbers, for sets: what is not in S would have a least     *)
(* element, for the sets of its elements up to each of them are finite.    *)
LEMMA Numbers ==
  ASSUME NEW S, 0 \in S, \A n \in Nat : n \in S => n + 1 \in S
  PROVE  Nat \subseteq S
<1> SUFFICES ASSUME Nat \ S # {} PROVE FALSE
  OBVIOUS
<1> DEFINE Left == Nat \ S
           UpTo(k) == {l \in Left : l <= k}
           All == {UpTo(k) : k \in Left}
<1>1. \A k \in Left : UpTo(k) \in FiniteSubsetsOf(Nat)
  <2> TAKE k \in Left
  <2>1. UpTo(k) \in SUBSET Nat /\ k \in Nat /\ \A l \in UpTo(k) : l <= k
    OBVIOUS
  <2>2. IsFiniteSet(UpTo(k))
    BY <2>1, FS_BoundedSetOfNaturals
  <2> QED
    BY <2>1, <2>2 DEF FiniteSubsetsOf
<1>2. All \subseteq FiniteSubsetsOf(Nat) /\ All # {}
  BY <1>1
<1>3. PICK X \in All : \A Y \in All : ~(<<Y, X>> \in StrictSubsetOrdering(Nat))
  <2> HIDE DEF All
  <2> QED
    BY <1>2, FS_StrictSubsetOrderingWellFounded, WFMin
<1>4. PICK m \in Left : X = UpTo(m)
  OBVIOUS
<1>5. m - 1 \in Left
  OBVIOUS
<1>6. UpTo(m - 1) \in All /\ UpTo(m - 1) \subseteq UpTo(m)
  BY <1>5
<1>7. m \in UpTo(m) /\ m \notin UpTo(m - 1)
  OBVIOUS
<1>8. UpTo(m) \in SUBSET Nat /\ UpTo(m - 1) \in SUBSET Nat
  OBVIOUS
<1>9. <<UpTo(m - 1), UpTo(m)>> \in StrictSubsetOrdering(Nat)
  <2> HIDE DEF UpTo
  <2> QED
    BY <1>6, <1>7, <1>8 DEF StrictSubsetOrdering
<1> QED
  BY <1>3, <1>4, <1>6, <1>9

(* What is less deep than s: its parts, and their parts.                   *)
Below(s) == {p \in Json : Depth[p] < Depth[s]}

(* A depth is a number.                                                    *)
LEMMA Depths ==
  /\ MaxDepth \in Nat
  /\ \A s \in Json : Depth[s] \in Nat /\ Depth[s] <= MaxDepth
  BY JsonAssumption

(* A value is of one kind, and each kind has one field.                    *)
LEMMA OneKind ==
  ASSUME NEW v \in Json
  PROVE  /\ Is(v, "obj") => v = Obj(v.obj) /\ v.obj = [k \in DOMAIN v.obj |-> v.obj[k]]
         /\ Is(v, "arr") => v = Arr(v.arr) /\ v.arr = [i \in 1 .. Len(v.arr) |-> v.arr[i]]
         /\ Is(v, "arr") => v.arr \in Seq(Range(v.arr))
         /\ Is(v, "str") => v = Str(v.str)
         /\ Is(v, "half") => v = Num(v.half, v.float) /\ v.half \in Int
         /\ Is(v, "bool") => v = Bool(v.bool) /\ v.bool \in BOOLEAN
         /\ Is(v, "null") => v = Null
         /\ Is(v, "obj") => ~Is(v, "arr") /\ ~Is(v, "str") /\ ~Is(v, "half")
         /\ Is(v, "arr") => ~Is(v, "str") /\ ~Is(v, "half")
         /\ Is(v, "str") => ~Is(v, "half")
<1>1. \A x : /\ DOMAIN Obj(x) = {"obj"} /\ DOMAIN Arr(x) = {"arr"} /\ DOMAIN Str(x) = {"str"}
             /\ DOMAIN Bool(x) = {"bool"} /\ \A y : DOMAIN Num(x, y) = {"half", "float"}
  BY DEF Obj, Arr, Str, Num, Bool
<1>2. DOMAIN Null = {"null"}
  BY DEF Null
<1>3. IsJson(v)
  BY JsonAssumption
<1>4. \A x : x \in Seq(Range(x)) => x = [i \in 1 .. Len(x) |-> x[i]]
  <2> TAKE x
  <2> DEFINE S == Range(x)
  <2>1. x \in Seq(S) => x = [i \in 1 .. Len(x) |-> x[i]]
    <3> HIDE DEF S
    <3> QED
      OBVIOUS
  <2> QED
    BY <2>1
<1>5. Is(v, "arr") => v.arr \in Seq(Range(v.arr))
  BY <1>1, <1>2, <1>3 DEF IsJson, Is
<1>6. \/ v = Null /\ Is(v, "null")
      \/ v = Bool(v.bool) /\ v.bool \in BOOLEAN
      \/ v = Num(v.half, v.float) /\ v.half \in Int
      \/ v = Str(v.str)
      \/ v = Arr(v.arr) /\ v.arr \in Seq(Range(v.arr))
      \/ v = Obj(v.obj) /\ v.obj = [k \in DOMAIN v.obj |-> v.obj[k]]
  BY <1>2, <1>3, Zenon DEF IsJson, Is
<1>7. \/ DOMAIN v = {"null"} \/ DOMAIN v = {"bool"} \/ DOMAIN v = {"half", "float"}
      \/ DOMAIN v = {"str"} \/ DOMAIN v = {"arr"} \/ DOMAIN v = {"obj"}
  BY <1>1, <1>2, <1>6, Zenon
<1>8. /\ Is(v, "obj") => ~Is(v, "arr") /\ ~Is(v, "str") /\ ~Is(v, "half")
      /\ Is(v, "arr") => ~Is(v, "str") /\ ~Is(v, "half")
      /\ Is(v, "str") => ~Is(v, "half")
  BY <1>7 DEF Is
<1>9. /\ Is(v, "half") => v = Num(v.half, v.float) /\ v.half \in Int
      /\ Is(v, "str") => v = Str(v.str)
      /\ Is(v, "arr") => v = Arr(v.arr)
      /\ Is(v, "obj") => v = Obj(v.obj) /\ v.obj = [k \in DOMAIN v.obj |-> v.obj[k]]
      /\ Is(v, "bool") => v = Bool(v.bool) /\ v.bool \in BOOLEAN
      /\ Is(v, "null") => v = Null
  <2>1. /\ DOMAIN Num(v.half, v.float) = {"half", "float"}
        /\ DOMAIN Str(v.str) = {"str"} /\ DOMAIN Arr(v.arr) = {"arr"}
        /\ DOMAIN Obj(v.obj) = {"obj"} /\ DOMAIN Bool(v.bool) = {"bool"}
    BY <1>1, Zenon
  <2> HIDE DEF Num, Str, Arr, Obj, Bool, Null
  <2> QED
    BY <1>2, <1>6, <2>1 DEF Is
<1> QED
  BY <1>4, <1>5, <1>8, <1>9, Zenon

(* The members of objects and the elements of arrays are JSON, less deep.  *)
LEMMA Inside ==
  ASSUME NEW s \in Json
  PROVE  /\ Is(s, "obj") => \A k \in DOMAIN s.obj : s.obj[k] \in Below(s)
         /\ Is(s, "arr") => \A i \in DOMAIN s.arr : s.arr[i] \in Below(s)
<1>1. \A p \in Parts(s) : p \in Below(s)
  BY JsonAssumption DEF Below
<1>2. Is(s, "arr") => \A i \in DOMAIN s.arr : s.arr[i] \in Parts(s)
  BY DEF Parts, Range
<1>3. Is(s, "obj") => \A k \in DOMAIN s.obj : s.obj[k] \in Parts(s)
  BY OneKind DEF Parts, Range
<1> QED
  BY <1>1, <1>2, <1>3

(* What is below something below s is below s.                             *)
LEMMA BelowBelow ==
  ASSUME NEW s \in Json, NEW p \in Below(s)
  PROVE  p \in Json /\ Below(p) \subseteq Below(s)
  BY Depths DEF Below

(* The same one level down, as a schema is read.                           *)
LEMMA InsideKeyword ==
  ASSUME NEW s \in Json, NEW k
  PROVE  /\ Has(s, k) => s.obj[k] \in Below(s)
         /\ \A kind : HasA(s, k, kind) => s.obj[k] \in Below(s)
         /\ HasA(s, k, "arr") => \A i \in DOMAIN s.obj[k].arr : s.obj[k].arr[i] \in Below(s)
         /\ HasA(s, k, "obj") => \A j \in DOMAIN s.obj[k].obj : s.obj[k].obj[j] \in Below(s)
<1>1. Has(s, k) => s.obj[k] \in Below(s)
  BY Inside DEF Has
<1>2. \A kind : HasA(s, k, kind) => Has(s, k) /\ Is(s.obj[k], kind)
  BY DEF HasA
<1>3. ASSUME HasA(s, k, "arr") PROVE \A i \in DOMAIN s.obj[k].arr : s.obj[k].arr[i] \in Below(s)
  <2>1. s.obj[k] \in Below(s) /\ Is(s.obj[k], "arr")
    BY <1>1, <1>2, <1>3
  <2> QED
    BY <2>1, BelowBelow, Inside
<1>4. ASSUME HasA(s, k, "obj") PROVE \A j \in DOMAIN s.obj[k].obj : s.obj[k].obj[j] \in Below(s)
  <2>1. s.obj[k] \in Below(s) /\ Is(s.obj[k], "obj")
    BY <1>1, <1>2, <1>4
  <2> QED
    BY <2>1, BelowBelow, Inside
<1> QED
  BY <1>1, <1>2, <1>3, <1>4

-----------------------------------------------------------------------------
(* The recursive functions.                                                *)

(* Compaction asks only about what is below.                               *)
LEMMA CompactedAsks ==
  ASSUME NEW f, NEW g, NEW s \in Json, NEW keep \in BOOLEAN,
         \A p \in Below(s) : f[p] = g[p]
  PROVE  Compacted(f, s, keep) = Compacted(g, s, keep)
<1>1. CASE Is(s, "obj")
  <2>1. \A k \in DOMAIN s.obj : f[s.obj[k]] = g[s.obj[k]]
    BY <1>1, Inside
  <2> QED
    BY <1>1, <2>1 DEF Compacted
<1>2. CASE Is(s, "arr") /\ ~Is(s, "obj")
  <2>1. \A i \in DOMAIN s.arr : f[s.arr[i]] = g[s.arr[i]]
    BY <1>2, Inside
  <2> QED
    BY <1>2, <2>1 DEF Compacted
<1>3. CASE ~Is(s, "arr") /\ ~Is(s, "obj")
  BY <1>3 DEF Compacted
<1> QED
  BY <1>1, <1>2, <1>3

(* Compaction is what its definition says.                                *)
LEMMA CompactionDefined ==
  ASSUME NEW s \in Json, NEW x \in BOOLEAN
  PROVE  CompactJsonschema[s][x] = Compacted(CompactJsonschema, s, x)
<1> DEFINE Step(f) == [t \in Json |-> [y \in BOOLEAN |-> Compacted(f, t, y)]]
           Right(f, n) == \A t \in Json : Depth[t] < n => f[t] = Step(f)[t]
           Reached == {n \in Nat : \E f : Right(f, n)}
<1>1. ASSUME NEW f, NEW n \in Nat, Right(f, n) PROVE Right(Step(f), n + 1)
  <2> SUFFICES ASSUME NEW t \in Json, Depth[t] < n + 1 PROVE Step(f)[t] = Step(Step(f))[t]
    OBVIOUS
  <2>1. \A p \in Below(t) : f[p] = Step(f)[p]
    BY <1>1, Depths DEF Below
  <2>2. \A y \in BOOLEAN : Compacted(f, t, y) = Compacted(Step(f), t, y)
    <3> HIDE DEF Step
    <3> QED
      BY <2>1, CompactedAsks
  <2> QED
    BY <2>2
<1>2. 0 \in Reached
  BY Depths
<1>3. \A n \in Nat : n \in Reached => n + 1 \in Reached
  <2> HIDE DEF Right, Step
  <2> QED
    BY <1>1
<1>4. PICK f : Right(f, MaxDepth + 1)
  <2> HIDE DEF Right
  <2>1. Nat \subseteq Reached
    <3> HIDE DEF Reached
    <3> QED
      BY <1>2, <1>3, Numbers
  <2> QED
    BY <2>1, Depths
<1>5. Right(Step(f), MaxDepth + 1 + 1)
  <2> HIDE DEF Right, Step
  <2> QED
    BY <1>1, <1>4, Depths
<1>6. Step(f) = Step(Step(f))
  BY <1>5, Depths
<1>7. CompactJsonschema = Step(CompactJsonschema)
  <2>1. \E h : h = Step(h)
    <3> HIDE DEF Step
    <3> QED
      BY <1>6
  <2>2. CompactJsonschema = CHOOSE h : h = Step(h)
    BY DEF CompactJsonschema
  <2> HIDE DEF Step
  <2> QED
    BY <2>1, <2>2
<1> QED
  BY <1>7

(* Validation asks only about what is below.                               *)
LEMMA ValidAsks ==
  ASSUME NEW f, NEW g, NEW s \in Json, NEW v \in Json,
         \A p \in Below(s) : f[p] = g[p]
  PROVE  ValidAt(f, s, v) = ValidAt(g, s, v)
<1>1. ValidBranches(f, s, v) = ValidBranches(g, s, v)
  <2>1. HasA(s, "anyOf", "arr") => \A b \in Range(s.obj["anyOf"].arr) : f[b] = g[b]
    BY InsideKeyword DEF Range
  <2>2. HasA(s, "allOf", "arr") => \A b \in Range(s.obj["allOf"].arr) : f[b] = g[b]
    BY InsideKeyword DEF Range
  <2>3. HasA(s, "oneOf", "arr") =>
          \A i \in DOMAIN s.obj["oneOf"].arr : f[s.obj["oneOf"].arr[i]] = g[s.obj["oneOf"].arr[i]]
    BY InsideKeyword
  <2>4. HasA(s, "oneOf", "arr") =>
          {i \in DOMAIN s.obj["oneOf"].arr : f[s.obj["oneOf"].arr[i]][v]}
            = {i \in DOMAIN s.obj["oneOf"].arr : g[s.obj["oneOf"].arr[i]][v]}
    BY <2>3
  <2> QED
    BY <2>1, <2>2, <2>4 DEF ValidBranches
<1>2. ValidObject(f, s, v) = ValidObject(g, s, v)
  <2>1. ASSUME NEW k PROVE ValidMember(f, s, v, k) = ValidMember(g, s, v, k)
    <3>1. HasA(s, "properties", "obj") /\ k \in DOMAIN s.obj["properties"].obj
            => f[s.obj["properties"].obj[k]] = g[s.obj["properties"].obj[k]]
      BY InsideKeyword
    <3>2. Has(s, "additionalProperties")
            => f[s.obj["additionalProperties"]] = g[s.obj["additionalProperties"]]
      BY InsideKeyword
    <3> QED
      BY <3>1, <3>2 DEF ValidMember
  <2> QED
    BY <2>1 DEF ValidObject
<1>3. ValidArray(f, s, v) = ValidArray(g, s, v)
  <2>1. HasA(s, "items", "obj") => f[s.obj["items"]] = g[s.obj["items"]]
    BY InsideKeyword
  <2>2. HasA(s, "items", "arr") =>
          \A i \in DOMAIN s.obj["items"].arr : f[s.obj["items"].arr[i]] = g[s.obj["items"].arr[i]]
    BY InsideKeyword
  <2> QED
    BY <2>1, <2>2 DEF ValidArray
<1> QED
  BY <1>1, <1>2, <1>3 DEF ValidAt

(* Validation is what its definition says.                                *)
LEMMA ValidationDefined ==
  ASSUME NEW s \in Json, NEW x \in Json
  PROVE  Valid[s][x] = ValidAt(Valid, s, x)
<1> DEFINE Step(f) == [t \in Json |-> [y \in Json |-> ValidAt(f, t, y)]]
           Right(f, n) == \A t \in Json : Depth[t] < n => f[t] = Step(f)[t]
           Reached == {n \in Nat : \E f : Right(f, n)}
<1>1. ASSUME NEW f, NEW n \in Nat, Right(f, n) PROVE Right(Step(f), n + 1)
  <2> SUFFICES ASSUME NEW t \in Json, Depth[t] < n + 1 PROVE Step(f)[t] = Step(Step(f))[t]
    OBVIOUS
  <2>1. \A p \in Below(t) : f[p] = Step(f)[p]
    BY <1>1, Depths DEF Below
  <2>2. \A y \in Json : ValidAt(f, t, y) = ValidAt(Step(f), t, y)
    <3> HIDE DEF Step
    <3> QED
      BY <2>1, ValidAsks
  <2> QED
    BY <2>2
<1>2. 0 \in Reached
  BY Depths
<1>3. \A n \in Nat : n \in Reached => n + 1 \in Reached
  <2> HIDE DEF Right, Step
  <2> QED
    BY <1>1
<1>4. PICK f : Right(f, MaxDepth + 1)
  <2> HIDE DEF Right
  <2>1. Nat \subseteq Reached
    <3> HIDE DEF Reached
    <3> QED
      BY <1>2, <1>3, Numbers
  <2> QED
    BY <2>1, Depths
<1>5. Right(Step(f), MaxDepth + 1 + 1)
  <2> HIDE DEF Right, Step
  <2> QED
    BY <1>1, <1>4, Depths
<1>6. Step(f) = Step(Step(f))
  BY <1>5, Depths
<1>7. Valid = Step(Valid)
  <2>1. \E h : h = Step(h)
    <3> HIDE DEF Step
    <3> QED
      BY <1>6
  <2>2. Valid = CHOOSE h : h = Step(h)
    BY DEF Valid
  <2> HIDE DEF Step
  <2> QED
    BY <2>1, <2>2
<1> QED
  BY <1>7

(* Stripping asks only about what is below the schema.                     *)
LEMMA StrippedAsks ==
  ASSUME NEW f, NEW g, NEW s \in Json, NEW v \in Json,
         \A p \in Below(s) : f[p] = g[p]
  PROVE  Stripped(f, s, v) = Stripped(g, s, v)
<1>1. CASE Is(v, "obj") /\ HasA(s, "properties", "obj")
  <2>1. \A k \in DOMAIN s.obj["properties"].obj :
          f[s.obj["properties"].obj[k]] = g[s.obj["properties"].obj[k]]
    BY <1>1, InsideKeyword
  <2> QED
    BY <1>1, <2>1 DEF Stripped
<1> QED
  BY <1>1 DEF Stripped

(* Stripping is what its definition says.                                 *)
LEMMA StrippingDefined ==
  ASSUME NEW s \in Json, NEW x \in Json
  PROVE  StripOptionalNulls[s][x] = Stripped(StripOptionalNulls, s, x)
<1> DEFINE Step(f) == [t \in Json |-> [y \in Json |-> Stripped(f, t, y)]]
           Right(f, n) == \A t \in Json : Depth[t] < n => f[t] = Step(f)[t]
           Reached == {n \in Nat : \E f : Right(f, n)}
<1>1. ASSUME NEW f, NEW n \in Nat, Right(f, n) PROVE Right(Step(f), n + 1)
  <2> SUFFICES ASSUME NEW t \in Json, Depth[t] < n + 1 PROVE Step(f)[t] = Step(Step(f))[t]
    OBVIOUS
  <2>1. \A p \in Below(t) : f[p] = Step(f)[p]
    BY <1>1, Depths DEF Below
  <2>2. \A y \in Json : Stripped(f, t, y) = Stripped(Step(f), t, y)
    <3> HIDE DEF Step
    <3> QED
      BY <2>1, StrippedAsks
  <2> QED
    BY <2>2
<1>2. 0 \in Reached
  BY Depths
<1>3. \A n \in Nat : n \in Reached => n + 1 \in Reached
  <2> HIDE DEF Right, Step
  <2> QED
    BY <1>1
<1>4. PICK f : Right(f, MaxDepth + 1)
  <2> HIDE DEF Right
  <2>1. Nat \subseteq Reached
    <3> HIDE DEF Reached
    <3> QED
      BY <1>2, <1>3, Numbers
  <2> QED
    BY <2>1, Depths
<1>5. Right(Step(f), MaxDepth + 1 + 1)
  <2> HIDE DEF Right, Step
  <2> QED
    BY <1>1, <1>4, Depths
<1>6. Step(f) = Step(Step(f))
  BY <1>5, Depths
<1>7. StripOptionalNulls = Step(StripOptionalNulls)
  <2>1. \E h : h = Step(h)
    <3> HIDE DEF Step
    <3> QED
      BY <1>6
  <2>2. StripOptionalNulls = CHOOSE h : h = Step(h)
    BY DEF StripOptionalNulls
  <2> HIDE DEF Step
  <2> QED
    BY <2>1, <2>2
<1> QED
  BY <1>7

(* Trimming asks only about what is below the value.                       *)
LEMMA TrimmedAsks ==
  ASSUME NEW f, NEW g, NEW v \in Json, NEW w \in Json,
         \A p \in Below(v) : f[p] = g[p]
  PROVE  Trimmed(f, v, w) = Trimmed(g, v, w)
<1>1. Is(v, "obj") => \A k \in DOMAIN v.obj : f[v.obj[k]] = g[v.obj[k]]
  BY Inside
<1> QED
  BY <1>1 DEF Trimmed

(* Trimming is what its definition says.                                  *)
LEMMA TrimmingDefined ==
  ASSUME NEW s \in Json, NEW x \in Json
  PROVE  Trims[s][x] = Trimmed(Trims, s, x)
<1> DEFINE Step(f) == [t \in Json |-> [y \in Json |-> Trimmed(f, t, y)]]
           Right(f, n) == \A t \in Json : Depth[t] < n => f[t] = Step(f)[t]
           Reached == {n \in Nat : \E f : Right(f, n)}
<1>1. ASSUME NEW f, NEW n \in Nat, Right(f, n) PROVE Right(Step(f), n + 1)
  <2> SUFFICES ASSUME NEW t \in Json, Depth[t] < n + 1 PROVE Step(f)[t] = Step(Step(f))[t]
    OBVIOUS
  <2>1. \A p \in Below(t) : f[p] = Step(f)[p]
    BY <1>1, Depths DEF Below
  <2>2. \A y \in Json : Trimmed(f, t, y) = Trimmed(Step(f), t, y)
    <3> HIDE DEF Step
    <3> QED
      BY <2>1, TrimmedAsks
  <2> QED
    BY <2>2
<1>2. 0 \in Reached
  BY Depths
<1>3. \A n \in Nat : n \in Reached => n + 1 \in Reached
  <2> HIDE DEF Right, Step
  <2> QED
    BY <1>1
<1>4. PICK f : Right(f, MaxDepth + 1)
  <2> HIDE DEF Right
  <2>1. Nat \subseteq Reached
    <3> HIDE DEF Reached
    <3> QED
      BY <1>2, <1>3, Numbers
  <2> QED
    BY <2>1, Depths
<1>5. Right(Step(f), MaxDepth + 1 + 1)
  <2> HIDE DEF Right, Step
  <2> QED
    BY <1>1, <1>4, Depths
<1>6. Step(f) = Step(Step(f))
  BY <1>5, Depths
<1>7. Trims = Step(Trims)
  <2>1. \E h : h = Step(h)
    <3> HIDE DEF Step
    <3> QED
      BY <1>6
  <2>2. Trims = CHOOSE h : h = Step(h)
    BY DEF Trims
  <2> HIDE DEF Step
  <2> QED
    BY <2>1, <2>2
<1> QED
  BY <1>7

-----------------------------------------------------------------------------
(* Compaction and validation.                                              *)

(* The keywords that the validator reads.                                  *)
Keywords ==
  {"const", "enum", "anyOf", "oneOf", "allOf", "type", "required", "properties",
   "additionalProperties", "items", "minItems", "maxItems", "minLength", "maxLength",
   "minimum", "maximum"}

(* None of them is metadata.                                               *)
LEMMA KeywordsAreKept ==
  ASSUME NEW k \in Keywords
  PROVE  k \notin MetadataKeys /\ k # "description"
  BY Zenon DEF Keywords, MetadataKeys

(* The kinds of values that schemas are made of.                           *)
Kinds == {"obj", "arr", "str", "half"}

(* They are these.                                                         *)
LEMMA TheKinds == "obj" \in Kinds /\ "arr" \in Kinds /\ "str" \in Kinds /\ "half" \in Kinds
  BY DEF Kinds

(* Compaction does not change of what kind a value is.                     *)
LEMMA CompactionOfKinds ==
  ASSUME NEW s \in Json, NEW keep \in BOOLEAN
  PROVE  /\ CompactJsonschema[s][keep] \in Json
         /\ ~Is(s, "obj") /\ ~Is(s, "arr") => CompactJsonschema[s][keep] = s
         /\ Is(s, "arr") =>
              CompactJsonschema[s][keep] = Arr([i \in DOMAIN s.arr |-> CompactJsonschema[s.arr[i]][keep]])
         /\ \A kind \in Kinds :
              Is(CompactJsonschema[s][keep], kind) <=> Is(s, kind)
<1> DEFINE t == CompactJsonschema[s][keep]
<1>1. t = Compacted(CompactJsonschema, s, keep)
  BY CompactionDefined
<1>2. t \in Json
  BY ClosedAssumption
<1>3. ~Is(s, "obj") /\ ~Is(s, "arr") => t = s
  BY <1>1 DEF Compacted
<1>4. Is(s, "arr") => t = Arr([i \in DOMAIN s.arr |-> CompactJsonschema[s.arr[i]][keep]])
  BY <1>1, OneKind DEF Compacted
<1>5. Is(s, "arr") => Is(t, "arr")
  BY <1>4 DEF Is, Arr
<1>6. Is(s, "obj") => \E f : t = Obj(f)
  BY <1>1 DEF Compacted
<1>7. Is(s, "obj") => Is(t, "obj")
  <2>1. \A f : Is(Obj(f), "obj")
    BY DEF Is, Obj
  <2> QED
    BY <1>6, <2>1
<1> HIDE DEF t
<1> QED
  <2>1. \A kind \in Kinds : Is(t, kind) <=> Is(s, kind)
    BY <1>2, <1>3, <1>5, <1>7, OneKind DEF Kinds
  <2> QED
    BY <2>1, <1>2, <1>3, <1>4 DEF t

(* Compaction keeps every keyword, with its value compacted.               *)
LEMMA CompactionOfKeywords ==
  ASSUME NEW s \in Json, NEW keep \in BOOLEAN, NEW k \in Keywords
  PROVE  /\ Has(CompactJsonschema[s][keep], k) <=> Has(s, k)
         /\ Has(s, k) => CompactJsonschema[s][keep].obj[k] = CompactJsonschema[s.obj[k]][keep]
         /\ \A kind \in Kinds :
              HasA(CompactJsonschema[s][keep], k, kind) <=> HasA(s, k, kind)
<1> DEFINE t == CompactJsonschema[s][keep]
<1>1. CASE ~Is(s, "obj")
  <2>1. ~Is(t, "obj")
    BY <1>1, CompactionOfKinds, TheKinds
  <2> QED
    BY <1>1, <2>1 DEF Has, HasA
<1>2. CASE Is(s, "obj")
  <2> DEFINE kept == {j \in DOMAIN s.obj \ MetadataKeys :
                        j = "description" => keep /\ Is(s.obj[j], "str")}
             f == [j \in kept |-> IF j = "description" THEN Shortened
                                  ELSE CompactJsonschema[s.obj[j]][keep]]
  <2>1. t = Obj(f)
    BY <1>2, CompactionDefined DEF Compacted
  <2>2. Is(t, "obj") /\ t.obj = f
    BY <2>1 DEF Is, Obj
  <2>3. k \in DOMAIN f <=> k \in DOMAIN s.obj
    BY KeywordsAreKept
  <2>4. k \in DOMAIN s.obj => f[k] = CompactJsonschema[s.obj[k]][keep]
    BY KeywordsAreKept
  <2> HIDE DEF f, t
  <2>5. Has(t, k) <=> Has(s, k)
    BY <1>2, <2>2, <2>3 DEF Has
  <2>6. Has(s, k) => t.obj[k] = CompactJsonschema[s.obj[k]][keep]
    BY <2>2, <2>4 DEF Has
  <2>7. Has(s, k) => \A kind \in Kinds : Is(t.obj[k], kind) <=> Is(s.obj[k], kind)
    <3> SUFFICES ASSUME Has(s, k), NEW kind \in Kinds
                 PROVE  Is(t.obj[k], kind) <=> Is(s.obj[k], kind)
      OBVIOUS
    <3> DEFINE p == s.obj[k]
    <3>1. p \in Json
      BY InsideKeyword DEF Below
    <3>2. t.obj[k] = CompactJsonschema[p][keep]
      BY <2>6
    <3> HIDE DEF p
    <3>3. Is(CompactJsonschema[p][keep], kind) <=> Is(p, kind)
      BY <3>1, CompactionOfKinds
    <3> QED
      BY <3>2, <3>3 DEF p
  <2>8. \A kind \in Kinds : HasA(t, k, kind) <=> HasA(s, k, kind)
    BY <2>5, <2>7 DEF HasA
  <2> QED
    BY <2>5, <2>6, <2>8 DEF t
<1> QED
  BY <1>1, <1>2

(* The values of keywords: those that are no schemas stay as they are, and *)
(* arrays have the same elements, compacted.                               *)
LEMMA CompactionOfValues ==
  ASSUME NEW s \in Json, NEW keep \in BOOLEAN, NEW k \in Keywords
  PROVE  /\ HasA(s, k, "half") \/ HasA(s, k, "str") => CompactJsonschema[s][keep].obj[k] = s.obj[k]
         /\ HasA(s, k, "arr") =>
              CompactJsonschema[s][keep].obj[k].arr
                = [i \in DOMAIN s.obj[k].arr |-> CompactJsonschema[s.obj[k].arr[i]][keep]]
         /\ HasA(s, k, "obj") => CompactJsonschema[s][keep].obj[k] = CompactJsonschema[s.obj[k]][keep]
<1>1. HasA(s, k, "half") \/ HasA(s, k, "str") \/ HasA(s, k, "arr") \/ HasA(s, k, "obj") => Has(s, k)
  BY DEF HasA
<1>2. Has(s, k) => s.obj[k] \in Json
  BY InsideKeyword DEF Below
<1>3. Has(s, k) => CompactJsonschema[s][keep].obj[k] = CompactJsonschema[s.obj[k]][keep]
  BY CompactionOfKeywords
<1>4. HasA(s, k, "half") \/ HasA(s, k, "str") => ~Is(s.obj[k], "obj") /\ ~Is(s.obj[k], "arr")
  BY <1>1, <1>2, OneKind DEF HasA
<1>5. \A f : Arr(f).arr = f
  BY DEF Arr
<1>6. HasA(s, k, "arr") => Is(s.obj[k], "arr")
  BY DEF HasA
<1> QED
  BY <1>1, <1>2, <1>3, <1>4, <1>5, <1>6, CompactionOfKinds

(* The words in an array stay.                                             *)
LEMMA CompactionOfWords ==
  ASSUME NEW s \in Json, NEW keep \in BOOLEAN, NEW k \in Keywords, HasA(s, k, "arr")
  PROVE  Strings(CompactJsonschema[s][keep].obj[k]) = Strings(s.obj[k])
<1> DEFINE a == s.obj[k].arr
           b == CompactJsonschema[s][keep].obj[k].arr
<1>1. b = [i \in DOMAIN a |-> CompactJsonschema[a[i]][keep]]
  BY CompactionOfValues
<1>2. \A i \in DOMAIN a : a[i] \in Json
  BY InsideKeyword DEF Below
<1>3. \A i \in DOMAIN a : /\ Is(b[i], "str") <=> Is(a[i], "str")
                          /\ Is(a[i], "str") => b[i] = a[i]
  <2> TAKE i \in DOMAIN a
  <2>1. b[i] = CompactJsonschema[a[i]][keep]
    BY <1>1
  <2>2. a[i] \in Json
    BY <1>2
  <2> HIDE DEF a, b
  <2>3. Is(CompactJsonschema[a[i]][keep], "str") <=> Is(a[i], "str")
    BY <2>2, CompactionOfKinds, TheKinds
  <2>4. Is(a[i], "str") => CompactJsonschema[a[i]][keep] = a[i]
    BY <2>2, CompactionOfKinds, OneKind
  <2> QED
    BY <2>1, <2>3, <2>4
<1>4. DOMAIN b = DOMAIN a
  BY <1>1
<1> HIDE DEF a, b
<1>5. {f \in Range(b) : Is(f, "str")} = {f \in Range(a) : Is(f, "str")}
  BY <1>3, <1>4 DEF Range
<1> QED
  BY <1>5 DEF Strings, a, b

(* Bounds stay.                                                            *)
LEMMA CompactionOfBounds ==
  ASSUME NEW s \in Json, NEW keep \in BOOLEAN, NEW n,
         NEW min \in Keywords, NEW max \in Keywords
  PROVE  Between(n, CompactJsonschema[s][keep], min, max) = Between(n, s, min, max)
<1>1. \A k \in Keywords : HasA(CompactJsonschema[s][keep], k, "half") <=> HasA(s, k, "half")
  BY CompactionOfKeywords, TheKinds
<1>2. \A k \in Keywords : HasA(s, k, "half") => CompactJsonschema[s][keep].obj[k] = s.obj[k]
  BY CompactionOfValues
<1>3. \A k \in Keywords : HasBound(CompactJsonschema[s][keep], k) <=> HasBound(s, k)
  BY <1>1, <1>2 DEF HasBound
<1>4. \A k \in Keywords : HasBound(s, k) => HasA(s, k, "half")
  BY DEF HasBound
<1> QED
  BY <1>2, <1>3, <1>4 DEF Between

(* The keywords, one by one.                                               *)
LEMMA TheKeywords ==
  /\ "const" \in Keywords /\ "enum" \in Keywords /\ "type" \in Keywords
  /\ "anyOf" \in Keywords /\ "oneOf" \in Keywords /\ "allOf" \in Keywords
  /\ "required" \in Keywords /\ "properties" \in Keywords /\ "items" \in Keywords
  /\ "additionalProperties" \in Keywords
  /\ "minItems" \in Keywords /\ "maxItems" \in Keywords
  /\ "minLength" \in Keywords /\ "maxLength" \in Keywords
  /\ "minimum" \in Keywords /\ "maximum" \in Keywords
  BY DEF Keywords

(* What the validator reads next is a subschema.                           *)
LEMMA SubschemasRead ==
  ASSUME NEW s \in Json
  PROVE  /\ HasA(s, "properties", "obj") =>
              \A j \in DOMAIN s.obj["properties"].obj : s.obj["properties"].obj[j] \in Subschemas(s)
         /\ HasA(s, "additionalProperties", "obj") => s.obj["additionalProperties"] \in Subschemas(s)
         /\ HasA(s, "items", "obj") => s.obj["items"] \in Subschemas(s)
         /\ \A k \in {"items", "anyOf", "oneOf", "allOf"} : HasA(s, k, "arr") =>
              \A i \in DOMAIN s.obj[k].arr : s.obj[k].arr[i] \in Subschemas(s)
<1>1. HasA(s, "properties", "obj") =>
        \A j \in DOMAIN s.obj["properties"].obj : s.obj["properties"].obj[j] \in Subschemas(s)
  BY DEF Subschemas, Range
<1>2. \A k \in {"additionalProperties", "items"} : HasA(s, k, "obj") => s.obj[k] \in Subschemas(s)
  BY DEF Subschemas
<1>3. \A k \in {"items", "anyOf", "oneOf", "allOf"} : HasA(s, k, "arr") =>
        Range(s.obj[k].arr) \subseteq Subschemas(s)
  BY DEF Subschemas
<1> QED
  BY <1>1, <1>2, <1>3 DEF Range

(* They are JSON, below it.                                                *)
LEMMA SubschemasBelow ==
  ASSUME NEW s \in Json
  PROVE  Subschemas(s) \subseteq Below(s)
<1>1. HasA(s, "properties", "obj") => Range(s.obj["properties"].obj) \subseteq Below(s)
  BY InsideKeyword DEF Range
<1>2. \A k : HasA(s, k, "obj") => s.obj[k] \in Below(s)
  BY InsideKeyword
<1>3. \A k : HasA(s, k, "arr") => Range(s.obj[k].arr) \subseteq Below(s)
  BY InsideKeyword DEF Range
<1> QED
  BY <1>1, <1>2, <1>3 DEF Subschemas

(* The keywords that apply no schema say the same.                         *)
LEMMA AloneAgrees ==
  ASSUME NEW s \in Json, NEW keep \in BOOLEAN, NEW v \in Json,
         Has(s, "const") => CompactJsonschema[s.obj["const"]][keep] = s.obj["const"],
         HasA(s, "enum", "arr") =>
           \A e \in Range(s.obj["enum"].arr) : CompactJsonschema[e][keep] = e
  PROVE  ValidAlone(CompactJsonschema[s][keep], v) <=> ValidAlone(s, v)
<1> DEFINE t == CompactJsonschema[s][keep]
<1>1. /\ Has(t, "const") <=> Has(s, "const")
      /\ Has(s, "const") => t.obj["const"] = s.obj["const"]
  BY CompactionOfKeywords, TheKeywords
<1>2. /\ HasA(t, "enum", "arr") <=> HasA(s, "enum", "arr")
      /\ HasA(t, "type", "arr") <=> HasA(s, "type", "arr")
      /\ HasA(t, "type", "str") <=> HasA(s, "type", "str")
  BY CompactionOfKeywords, TheKeywords, TheKinds
<1>3. HasA(s, "enum", "arr") => Range(t.obj["enum"].arr) = Range(s.obj["enum"].arr)
  <2> HAVE HasA(s, "enum", "arr")
  <2> DEFINE a == s.obj["enum"].arr
             b == t.obj["enum"].arr
  <2>1. b = [i \in DOMAIN a |-> CompactJsonschema[a[i]][keep]]
    BY CompactionOfValues, TheKeywords
  <2>2. \A i \in DOMAIN a : CompactJsonschema[a[i]][keep] = a[i]
    BY DEF Range
  <2> HIDE DEF a, b
  <2>3. Range(b) = Range(a)
    BY <2>1, <2>2 DEF Range
  <2> QED
    BY <2>3 DEF a, b
<1>4. HasA(s, "type", "str") => t.obj["type"] = s.obj["type"]
  BY CompactionOfValues, TheKeywords
<1>5. HasA(s, "type", "arr") => Strings(t.obj["type"]) = Strings(s.obj["type"])
  BY CompactionOfWords, TheKeywords
<1>6. /\ Between(2 * Len(v.str), t, "minLength", "maxLength")
           = Between(2 * Len(v.str), s, "minLength", "maxLength")
      /\ Between(v.half, t, "minimum", "maximum") = Between(v.half, s, "minimum", "maximum")
  BY CompactionOfBounds, TheKeywords
<1> HIDE DEF t
<1>7. ValidAlone(t, v) <=> ValidAlone(s, v)
  BY <1>1, <1>2, <1>3, <1>4, <1>5, <1>6 DEF ValidAlone
<1> QED
  BY <1>7 DEF t

(* The keywords that may have an array of schemas.                         *)
Lists == {"items", "anyOf", "oneOf", "allOf"}

(* They are these.                                                         *)
LEMMA TheLists ==
  /\ "items" \in Lists /\ "anyOf" \in Lists /\ "oneOf" \in Lists /\ "allOf" \in Lists
  /\ Lists \subseteq Keywords
  BY TheKeywords DEF Lists

(* An array of schemas has as many compacted ones, with the same verdicts. *)
LEMMA ElementsAgree ==
  ASSUME NEW s \in Json, NEW keep \in BOOLEAN, NEW k \in Lists,
         HasA(s, k, "arr"),
         \A p \in Subschemas(s) : \A w \in Json :
           Valid[CompactJsonschema[p][keep]][w] <=> Valid[p][w]
  PROVE  /\ HasA(CompactJsonschema[s][keep], k, "arr")
         /\ DOMAIN CompactJsonschema[s][keep].obj[k].arr = DOMAIN s.obj[k].arr
         /\ \A i \in DOMAIN s.obj[k].arr : \A w \in Json :
              Valid[CompactJsonschema[s][keep].obj[k].arr[i]][w] <=> Valid[s.obj[k].arr[i]][w]
<1> DEFINE a == s.obj[k].arr
           b == CompactJsonschema[s][keep].obj[k].arr
<1>1. k \in Keywords
  BY TheLists
<1>2. b = [i \in DOMAIN a |-> CompactJsonschema[a[i]][keep]]
  BY <1>1, CompactionOfValues
<1>3. HasA(CompactJsonschema[s][keep], k, "arr")
  BY <1>1, CompactionOfKeywords, TheKinds
<1>4. \A i \in DOMAIN a : a[i] \in Subschemas(s)
  BY SubschemasRead DEF Lists
<1> HIDE DEF a, b
<1>5. DOMAIN b = DOMAIN a /\ \A i \in DOMAIN a : b[i] = CompactJsonschema[a[i]][keep]
  BY <1>2
<1>6. \A i \in DOMAIN a : \A w \in Json : Valid[b[i]][w] <=> Valid[a[i]][w]
  BY <1>4, <1>5
<1> QED
  BY <1>3, <1>5, <1>6 DEF a, b

(* Branches agree.                                                         *)
LEMMA BranchesAgree ==
  ASSUME NEW s \in Json, NEW keep \in BOOLEAN, NEW v \in Json,
         \A p \in Subschemas(s) : \A w \in Json :
           Valid[CompactJsonschema[p][keep]][w] <=> Valid[p][w]
  PROVE  ValidBranches(Valid, CompactJsonschema[s][keep], v) <=> ValidBranches(Valid, s, v)
<1> DEFINE t == CompactJsonschema[s][keep]
           Branches == {"anyOf", "oneOf", "allOf"}
<1>1. \A k \in Branches : HasA(t, k, "arr") <=> HasA(s, k, "arr")
  BY CompactionOfKeywords, TheKeywords, TheKinds
<1>2. ASSUME NEW k \in Branches, HasA(s, k, "arr")
      PROVE  /\ DOMAIN t.obj[k].arr = DOMAIN s.obj[k].arr
             /\ \A i \in DOMAIN s.obj[k].arr : Valid[t.obj[k].arr[i]][v] <=> Valid[s.obj[k].arr[i]][v]
  <2>1. k \in Lists
    BY TheLists
  <2>2. /\ DOMAIN t.obj[k].arr = DOMAIN s.obj[k].arr
        /\ \A i \in DOMAIN s.obj[k].arr : \A w \in Json :
             Valid[t.obj[k].arr[i]][w] <=> Valid[s.obj[k].arr[i]][w]
    BY <1>2, <2>1, ElementsAgree
  <2> QED
    BY <2>2
<1> HIDE DEF t
<1>3. HasA(s, "anyOf", "arr") =>
        ((\E b \in Range(t.obj["anyOf"].arr) : Valid[b][v])
           <=> (\E b \in Range(s.obj["anyOf"].arr) : Valid[b][v]))
  BY <1>2 DEF Range
<1>4. HasA(s, "allOf", "arr") =>
        ((\A b \in Range(t.obj["allOf"].arr) : Valid[b][v])
           <=> (\A b \in Range(s.obj["allOf"].arr) : Valid[b][v]))
  BY <1>2 DEF Range
<1>5. HasA(s, "oneOf", "arr") =>
        {i \in DOMAIN t.obj["oneOf"].arr : Valid[t.obj["oneOf"].arr[i]][v]}
          = {i \in DOMAIN s.obj["oneOf"].arr : Valid[s.obj["oneOf"].arr[i]][v]}
  BY <1>2
<1>6. ValidBranches(Valid, t, v) <=> ValidBranches(Valid, s, v)
  BY <1>1, <1>3, <1>4, <1>5 DEF ValidBranches
<1> QED
  BY <1>6 DEF t

(* Elements of arrays agree.                                               *)
LEMMA ArraysAgree ==
  ASSUME NEW s \in Json, NEW keep \in BOOLEAN, NEW v \in Json, Is(v, "arr"),
         \A p \in Subschemas(s) : \A w \in Json :
           Valid[CompactJsonschema[p][keep]][w] <=> Valid[p][w]
  PROVE  ValidArray(Valid, CompactJsonschema[s][keep], v) <=> ValidArray(Valid, s, v)
<1> DEFINE t == CompactJsonschema[s][keep]
<1>1. /\ HasA(t, "items", "arr") <=> HasA(s, "items", "arr")
      /\ HasA(t, "items", "obj") <=> HasA(s, "items", "obj")
  BY CompactionOfKeywords, TheKeywords, TheKinds
<1>2. \A i \in DOMAIN v.arr : v.arr[i] \in Json
  BY Inside DEF Below
<1>3. HasA(s, "items", "arr") =>
        /\ DOMAIN t.obj["items"].arr = DOMAIN s.obj["items"].arr
        /\ \A i \in DOMAIN s.obj["items"].arr : \A w \in Json :
             Valid[t.obj["items"].arr[i]][w] <=> Valid[s.obj["items"].arr[i]][w]
  BY ElementsAgree, TheLists
<1>4. HasA(s, "items", "obj") =>
        \A w \in Json : Valid[t.obj["items"]][w] <=> Valid[s.obj["items"]][w]
  <2> HAVE HasA(s, "items", "obj")
  <2>1. "items" \in Keywords /\ Has(s, "items")
    BY TheKeywords DEF HasA
  <2>2. t.obj["items"] = CompactJsonschema[s.obj["items"]][keep]
    BY <2>1, CompactionOfKeywords
  <2>3. s.obj["items"] \in Subschemas(s)
    BY SubschemasRead
  <2> QED
    BY <2>2, <2>3
<1>5. Between(2 * Len(v.arr), t, "minItems", "maxItems")
        = Between(2 * Len(v.arr), s, "minItems", "maxItems")
  BY CompactionOfBounds, TheKeywords
<1> HIDE DEF t
<1>6. ValidArray(Valid, t, v) <=> ValidArray(Valid, s, v)
  BY <1>1, <1>2, <1>3, <1>4, <1>5 DEF ValidArray
<1> QED
  BY <1>6 DEF t

(* Members of objects agree, if no property is called like metadata.       *)
LEMMA ObjectsAgree ==
  ASSUME NEW s \in Json, NEW keep \in BOOLEAN, NEW v \in Json, Is(v, "obj"),
         \A p \in Subschemas(s) : \A w \in Json :
           Valid[CompactJsonschema[p][keep]][w] <=> Valid[p][w],
         HasA(s, "properties", "obj") =>
           DOMAIN s.obj["properties"].obj \cap (MetadataKeys \cup {"description"}) = {}
  PROVE  ValidObject(Valid, CompactJsonschema[s][keep], v) <=> ValidObject(Valid, s, v)
<1> DEFINE t == CompactJsonschema[s][keep]
<1>1. /\ HasA(t, "required", "arr") <=> HasA(s, "required", "arr")
      /\ HasA(t, "properties", "obj") <=> HasA(s, "properties", "obj")
      /\ HasA(t, "additionalProperties", "obj") <=> HasA(s, "additionalProperties", "obj")
      /\ Has(t, "additionalProperties") <=> Has(s, "additionalProperties")
  BY CompactionOfKeywords, TheKeywords, TheKinds
<1>2. HasA(s, "required", "arr") => Strings(t.obj["required"]) = Strings(s.obj["required"])
  BY CompactionOfWords, TheKeywords
<1>3. HasA(s, "properties", "obj") =>
        t.obj["properties"].obj = [j \in DOMAIN s.obj["properties"].obj |->
                                     CompactJsonschema[s.obj["properties"].obj[j]][keep]]
  <2> HAVE HasA(s, "properties", "obj")
  <2> DEFINE p == s.obj["properties"]
  <2>1. t.obj["properties"] = CompactJsonschema[p][keep]
    <3>1. "properties" \in Keywords /\ Has(s, "properties")
      BY TheKeywords DEF HasA
    <3> QED
      BY <3>1, CompactionOfKeywords
  <2>2. p \in Json /\ Is(p, "obj")
    BY InsideKeyword DEF Below, HasA
  <2>3. \A j \in DOMAIN p.obj : j \notin MetadataKeys /\ j # "description"
    OBVIOUS
  <2> HIDE DEF p, t
  <2>4. CompactJsonschema[p][keep] = Compacted(CompactJsonschema, p, keep)
    BY <2>2, CompactionDefined
  <2>5. Compacted(CompactJsonschema, p, keep)
          = Obj([j \in DOMAIN p.obj |-> CompactJsonschema[p.obj[j]][keep]])
    <3>1. {j \in DOMAIN p.obj \ MetadataKeys :
             j = "description" => keep /\ Is(p.obj[j], "str")} = DOMAIN p.obj
      BY <2>3
    <3> QED
      BY <2>2, <2>3, <3>1 DEF Compacted
  <2>6. \A f : Obj(f).obj = f
    BY DEF Obj
  <2> QED
    BY <2>1, <2>4, <2>5, <2>6 DEF p
<1>4. \A j \in DOMAIN v.obj : v.obj[j] \in Json
  BY Inside DEF Below
<1>5. ASSUME NEW j \in DOMAIN v.obj, HasA(s, "properties", "obj"), j \in DOMAIN s.obj["properties"].obj
      PROVE  Valid[t.obj["properties"].obj[j]][v.obj[j]] <=> Valid[s.obj["properties"].obj[j]][v.obj[j]]
  <2> DEFINE p == s.obj["properties"].obj[j]
  <2>1. p \in Subschemas(s)
    BY <1>5, SubschemasRead
  <2>2. t.obj["properties"].obj[j] = CompactJsonschema[p][keep]
    BY <1>3, <1>5
  <2> HIDE DEF p, t
  <2> QED
    BY <1>4, <2>1, <2>2 DEF p
<1>6. Has(s, "additionalProperties") =>
        t.obj["additionalProperties"] = CompactJsonschema[s.obj["additionalProperties"]][keep]
  BY CompactionOfKeywords, TheKeywords
<1>7. Has(s, "additionalProperties") =>
        /\ Is(t.obj["additionalProperties"], "obj") <=> Is(s.obj["additionalProperties"], "obj")
        /\ t.obj["additionalProperties"] # Bool(FALSE) <=> s.obj["additionalProperties"] # Bool(FALSE)
  <2> HAVE Has(s, "additionalProperties")
  <2> DEFINE p == s.obj["additionalProperties"]
  <2>1. p \in Json
    BY InsideKeyword DEF Below
  <2>2. t.obj["additionalProperties"] = CompactJsonschema[p][keep]
    BY <1>6
  <2> HIDE DEF p, t
  <2>3. Is(CompactJsonschema[p][keep], "obj") <=> Is(p, "obj")
    BY <2>1, CompactionOfKinds, TheKinds
  <2>4. Is(CompactJsonschema[p][keep], "arr") <=> Is(p, "arr")
    BY <2>1, CompactionOfKinds, TheKinds
  <2>5. ~Is(Bool(FALSE), "obj") /\ ~Is(Bool(FALSE), "arr")
    BY DEF Is, Bool
  <2>6. CompactJsonschema[p][keep] # Bool(FALSE) <=> p # Bool(FALSE)
    BY <2>1, <2>3, <2>4, <2>5, CompactionOfKinds
  <2> QED
    BY <2>2, <2>3, <2>6 DEF p
<1>8. ASSUME NEW j \in DOMAIN v.obj, Has(s, "additionalProperties"),
             Is(s.obj["additionalProperties"], "obj")
      PROVE  Valid[t.obj["additionalProperties"]][v.obj[j]]
               <=> Valid[s.obj["additionalProperties"]][v.obj[j]]
  BY <1>4, <1>6, <1>8, SubschemasRead DEF HasA
<1>9. HasA(s, "properties", "obj") => DOMAIN t.obj["properties"].obj = DOMAIN s.obj["properties"].obj
  BY <1>3
<1> HIDE DEF t
<1>10. ASSUME NEW j \in DOMAIN v.obj
       PROVE  ValidMember(Valid, t, v, j) <=> ValidMember(Valid, s, v, j)
  <2>1. CASE HasA(s, "properties", "obj") /\ j \in DOMAIN s.obj["properties"].obj
    BY <2>1, <1>1, <1>5, <1>9 DEF ValidMember
  <2>2. CASE ~(HasA(s, "properties", "obj") /\ j \in DOMAIN s.obj["properties"].obj)
    BY <2>2, <1>1, <1>7, <1>8, <1>9 DEF ValidMember
  <2> QED
    BY <2>1, <2>2
<1>11. ValidObject(Valid, t, v) <=> ValidObject(Valid, s, v)
  BY <1>1, <1>2, <1>10 DEF ValidObject
<1> QED
  BY <1>11 DEF t

(* Compacting a plain schema changes no verdict.                           *)
LEMMA CompactionAgrees ==
  ASSUME NEW ss \in SUBSET Json, IsPlain(ss), NEW keep \in BOOLEAN,
         NEW s \in ss, NEW v \in Json
  PROVE  Valid[CompactJsonschema[s][keep]][v] <=> Valid[s][v]
<1> DEFINE Agrees(p) == \A w \in Json : Valid[CompactJsonschema[p][keep]][w] <=> Valid[p][w]
           Reached == {n \in Nat : \A p \in ss : Depth[p] < n => Agrees(p)}
<1>1. 0 \in Reached
  BY Depths
<1>2. ASSUME NEW n \in Nat, n \in Reached PROVE n + 1 \in Reached
  <2> SUFFICES ASSUME NEW p \in ss, Depth[p] < n + 1, NEW w \in Json
               PROVE  Valid[CompactJsonschema[p][keep]][w] <=> Valid[p][w]
    OBVIOUS
  <2>1. Subschemas(p) \subseteq ss /\ p \in Json
    BY DEF IsPlain
  <2>2. \A q \in Subschemas(p) : Agrees(q)
    <3> HIDE DEF Agrees
    <3> QED
      BY <1>2, <2>1, SubschemasBelow, Depths DEF Below
  <2> DEFINE t == CompactJsonschema[p][keep]
  <2>3. ValidAlone(t, w) <=> ValidAlone(p, w)
    BY <2>1, AloneAgrees DEF IsPlain
  <2>4. ValidBranches(Valid, t, w) <=> ValidBranches(Valid, p, w)
    BY <2>1, <2>2, BranchesAgree
  <2>5. Is(w, "obj") => (ValidObject(Valid, t, w) <=> ValidObject(Valid, p, w))
    <3>1. HasA(p, "properties", "obj") =>
            DOMAIN p.obj["properties"].obj \cap (MetadataKeys \cup {"description"}) = {}
      BY DEF IsPlain
    <3> QED
      BY <2>1, <2>2, <3>1, ObjectsAgree
  <2>6. Is(w, "arr") => (ValidArray(Valid, t, w) <=> ValidArray(Valid, p, w))
    BY <2>1, <2>2, ArraysAgree
  <2>7. t \in Json
    BY <2>1, CompactionOfKinds
  <2> HIDE DEF t
  <2>8. Valid[t][w] = ValidAt(Valid, t, w) /\ Valid[p][w] = ValidAt(Valid, p, w)
    BY <2>1, <2>7, ValidationDefined
  <2>9. Valid[t][w] <=> Valid[p][w]
    BY <2>3, <2>4, <2>5, <2>6, <2>8 DEF ValidAt
  <2> QED
    BY <2>9 DEF t
<1>3. MaxDepth + 1 \in Reached
  <2>1. Nat \subseteq Reached
    <3> HIDE DEF Reached
    <3> QED
      BY <1>1, <1>2, Numbers
  <2> QED
    BY <2>1, Depths
<1> QED
  BY <1>3, Depths
-----------------------------------------------------------------------------
(* Nulls.                                                                  *)

(* A value is a trim of itself.                                            *)
LEMMA TrimsItself ==
  ASSUME NEW v \in Json
  PROVE  Trims[v][v]
<1> DEFINE Reached == {n \in Nat : \A p \in Json : Depth[p] < n => Trims[p][p]}
<1>1. 0 \in Reached
  BY Depths
<1>2. ASSUME NEW n \in Nat, n \in Reached PROVE n + 1 \in Reached
  <2> SUFFICES ASSUME NEW p \in Json, Depth[p] < n + 1 PROVE Trims[p][p]
    OBVIOUS
  <2>1. Is(p, "obj") => \A k \in DOMAIN p.obj : Trims[p.obj[k]][p.obj[k]]
    BY <1>2, Inside, Depths DEF Below
  <2>2. Trimmed(Trims, p, p)
    BY <2>1 DEF Trimmed
  <2> QED
    BY <2>2, TrimmingDefined
<1>3. MaxDepth + 1 \in Reached
  <2>1. Nat \subseteq Reached
    <3> HIDE DEF Reached
    <3> QED
      BY <1>1, <1>2, Numbers
  <2> QED
    BY <2>1, Depths
<1> QED
  BY <1>3, Depths

(* What stripping makes of an object whose properties are listed, and of   *)
(* anything else.                                                          *)
LEMMA StrippingOf ==
  ASSUME NEW s \in Json, NEW v \in Json
  PROVE  /\ Is(v, "obj") /\ HasA(s, "properties", "obj") =>
              /\ Is(StripOptionalNulls[s][v], "obj")
              /\ DOMAIN StripOptionalNulls[s][v].obj = Kept(s, v)
              /\ \A k \in Kept(s, v) :
                   StripOptionalNulls[s][v].obj[k]
                     = IF k \in DOMAIN s.obj["properties"].obj
                       THEN StripOptionalNulls[s.obj["properties"].obj[k]][v.obj[k]]
                       ELSE v.obj[k]
         /\ ~(Is(v, "obj") /\ HasA(s, "properties", "obj")) => StripOptionalNulls[s][v] = v
<1>1. StripOptionalNulls[s][v] = Stripped(StripOptionalNulls, s, v)
  BY StrippingDefined
<1>2. \A f : Is(Obj(f), "obj") /\ Obj(f).obj = f
  BY DEF Is, Obj
<1>3. ASSUME Is(v, "obj") /\ HasA(s, "properties", "obj")
      PROVE  StripOptionalNulls[s][v]
               = Obj([k \in Kept(s, v) |->
                        IF k \in DOMAIN s.obj["properties"].obj
                        THEN StripOptionalNulls[s.obj["properties"].obj[k]][v.obj[k]]
                        ELSE v.obj[k]])
  BY <1>1, <1>3 DEF Stripped
<1>4. ~(Is(v, "obj") /\ HasA(s, "properties", "obj")) => StripOptionalNulls[s][v] = v
  BY <1>1 DEF Stripped
<1> QED
  BY <1>2, <1>3, <1>4

(* Stripping leaves out nulls and nothing else.                            *)
LEMMA StrippingTrims ==
  ASSUME NEW s \in Json, NEW v \in Json, StripOptionalNulls[s][v] \in Json
  PROVE  Trims[v][StripOptionalNulls[s][v]]
<1> DEFINE Good(p) == \A w \in Json : StripOptionalNulls[p][w] \in Json =>
                                       Trims[w][StripOptionalNulls[p][w]]
           Reached == {n \in Nat : \A p \in Json : Depth[p] < n => Good(p)}
<1>1. 0 \in Reached
  BY Depths
<1>2. ASSUME NEW n \in Nat, n \in Reached PROVE n + 1 \in Reached
  <2> SUFFICES ASSUME NEW p \in Json, Depth[p] < n + 1, NEW w \in Json,
                      StripOptionalNulls[p][w] \in Json
               PROVE  Trims[w][StripOptionalNulls[p][w]]
    OBVIOUS
  <2> DEFINE u == StripOptionalNulls[p][w]
  <2>1. CASE ~(Is(w, "obj") /\ HasA(p, "properties", "obj"))
    BY <2>1, StrippingOf, TrimsItself
  <2>2. CASE Is(w, "obj") /\ HasA(p, "properties", "obj")
    <3> DEFINE props == p.obj["properties"].obj
    <3>1. /\ Is(u, "obj") /\ DOMAIN u.obj = Kept(p, w)
          /\ \A k \in Kept(p, w) : u.obj[k] = IF k \in DOMAIN props
                                              THEN StripOptionalNulls[props[k]][w.obj[k]]
                                              ELSE w.obj[k]
      BY <2>2, StrippingOf
    <3>2. Kept(p, w) \subseteq DOMAIN w.obj /\ \A k \in DOMAIN w.obj \ Kept(p, w) : w.obj[k] = Null
      BY DEF Kept
    <3>3. \A k \in DOMAIN w.obj : w.obj[k] \in Json
      BY <2>2, Inside DEF Below
    <3>4. \A k \in DOMAIN u.obj : u.obj[k] \in Json
      BY <3>1, Inside DEF Below
    <3>5. \A k \in DOMAIN props : props[k] \in Json /\ Good(props[k])
      <4>1. \A k \in DOMAIN props : props[k] \in Below(p)
        BY <2>2, InsideKeyword
      <4> HIDE DEF Good, props
      <4> QED
        BY <1>2, <4>1, Depths DEF Below
    <3> HIDE DEF props, u
    <3>6. ASSUME NEW k \in DOMAIN u.obj PROVE Trims[w.obj[k]][u.obj[k]]
      <4>1. k \in Kept(p, w) /\ w.obj[k] \in Json /\ u.obj[k] \in Json
        BY <3>1, <3>2, <3>3, <3>4
      <4>2. CASE k \in DOMAIN props
        BY <4>1, <4>2, <3>1, <3>5
      <4>3. CASE k \notin DOMAIN props
        BY <4>1, <4>3, <3>1, TrimsItself
      <4> QED
        BY <4>2, <4>3
    <3>7. Trimmed(Trims, w, u)
      BY <2>2, <3>1, <3>2, <3>6 DEF Trimmed
    <3>8. u \in Json
      BY DEF u
    <3>9. Trims[w][u]
      BY <3>7, <3>8, TrimmingDefined
    <3> QED
      BY <3>9 DEF u
  <2> QED
    BY <2>1, <2>2
<1>3. MaxDepth + 1 \in Reached
  <2>1. Nat \subseteq Reached
    <3> HIDE DEF Reached
    <3> QED
      BY <1>1, <1>2, Numbers
  <2> QED
    BY <2>1, Depths
<1> QED
  BY <1>3, Depths

(* A trim of an object is an object, and a trim of anything else is it.    *)
LEMMA TrimsOf ==
  ASSUME NEW v \in Json, NEW w \in Json, Trims[v][w]
  PROVE  /\ Is(v, "obj") =>
              /\ Is(w, "obj") /\ DOMAIN w.obj \subseteq DOMAIN v.obj
              /\ \A k \in DOMAIN w.obj : Trims[v.obj[k]][w.obj[k]]
              /\ \A k \in DOMAIN v.obj \ DOMAIN w.obj : v.obj[k] = Null
         /\ ~Is(v, "obj") => w = v
  BY TrimmingDefined DEF Trimmed

(* If a trim is valid, what stripping makes of the value is.               *)
LEMMA StrippingForgives ==
  ASSUME NEW ss \in SUBSET Json, IsListed(ss), NEW s \in ss, NEW v \in Json, NEW w \in Json,
         StripOptionalNulls[s][v] \in Json, Trims[v][w], Valid[s][w]
  PROVE  Valid[s][StripOptionalNulls[s][v]]
<1> DEFINE Good(p) == \A x \in Json, y \in Json :
                        StripOptionalNulls[p][x] \in Json /\ Trims[x][y] /\ Valid[p][y]
                          => Valid[p][StripOptionalNulls[p][x]]
           Reached == {n \in Nat : \A p \in ss : Depth[p] < n => Good(p)}
<1>1. 0 \in Reached
  BY Depths
<1>2. ASSUME NEW n \in Nat, n \in Reached PROVE n + 1 \in Reached
  <2> SUFFICES ASSUME NEW p \in ss, Depth[p] < n + 1, NEW x \in Json, NEW y \in Json,
                      StripOptionalNulls[p][x] \in Json, Trims[x][y], Valid[p][y]
               PROVE  Valid[p][StripOptionalNulls[p][x]]
    OBVIOUS
  <2> DEFINE u == StripOptionalNulls[p][x]
  <2>1. p \in Json /\ u \in Json
    OBVIOUS
  <2>2. CASE ~Is(x, "obj")
    BY <2>2, StrippingOf, TrimsOf
  <2>3. CASE Is(x, "obj")
    <3>1. Is(y, "obj") /\ ~TakesNoObject(p)
      BY <2>3, TrimsOf DEF TakesNoObject
    <3>2. /\ HasA(p, "properties", "obj") /\ Range(p.obj["properties"].obj) \subseteq ss
          /\ HasA(p, "additionalProperties", "obj") => TakesNoObject(p.obj["additionalProperties"])
          /\ ~Has(p, "const") /\ ~HasA(p, "enum", "arr")
          /\ ~HasA(p, "anyOf", "arr") /\ ~HasA(p, "oneOf", "arr") /\ ~HasA(p, "allOf", "arr")
      BY <3>1 DEF IsListed
    <3> DEFINE props == p.obj["properties"].obj
               more == p.obj["additionalProperties"]
    <3>3. /\ Is(u, "obj") /\ DOMAIN u.obj = Kept(p, x)
          /\ \A k \in Kept(p, x) : u.obj[k] = IF k \in DOMAIN props
                                              THEN StripOptionalNulls[props[k]][x.obj[k]]
                                              ELSE x.obj[k]
      BY <2>3, <3>2, StrippingOf
    <3>4. ValidAt(Valid, p, y)
      BY ValidationDefined
    <3>5. /\ DOMAIN y.obj \subseteq DOMAIN x.obj
          /\ \A k \in DOMAIN y.obj : Trims[x.obj[k]][y.obj[k]]
          /\ \A k \in DOMAIN x.obj \ DOMAIN y.obj : x.obj[k] = Null
      BY <2>3, TrimsOf
    <3>6. /\ \A k \in DOMAIN x.obj : x.obj[k] \in Json
          /\ \A k \in DOMAIN y.obj : y.obj[k] \in Json
          /\ \A k \in DOMAIN u.obj : u.obj[k] \in Json
      BY <2>1, <2>3, <3>1, <3>3, Inside DEF Below
    <3>7. \A k \in DOMAIN props : Good(props[k])
      <4>1. \A k \in DOMAIN props : props[k] \in Below(p) /\ props[k] \in ss
        BY <2>1, <3>2, InsideKeyword DEF Range
      <4> HIDE DEF Good, props
      <4> QED
        BY <1>2, <4>1, Depths DEF Below
    <3>8. ValidAlone(p, y) /\ ValidObject(Valid, p, y)
      BY <3>1, <3>4 DEF ValidAt
    <3>9. /\ ~Is(u, "str") /\ ~Is(u, "half") /\ ~Is(u, "arr")
          /\ ~Is(y, "str") /\ ~Is(y, "half") /\ ~Is(y, "arr")
      BY <2>1, <3>1, <3>3, OneKind
    <3> HIDE DEF Good, props, more, u
    <3>10. ValidAlone(p, u)
      <4>1. \A t : TypeMatches(y, t) => t = "object" \/ Is(y, "bool") \/ Is(y, "null")
        BY <3>9 DEF TypeMatches
      <4>2. ~Is(y, "bool") /\ ~Is(y, "null")
        <5>1. y = Obj(y.obj)
          BY <3>1, OneKind
        <5>2. \A f : ~Is(Obj(f), "bool") /\ ~Is(Obj(f), "null")
          BY DEF Is, Obj
        <5> QED
          BY <5>1, <5>2
      <4>3. \A t : TypeMatches(y, t) => TypeMatches(u, t)
        BY <3>3, <4>1, <4>2 DEF TypeMatches
      <4> QED
        BY <3>2, <3>8, <3>9, <4>3 DEF ValidAlone
    <3>11. Required(p) \subseteq DOMAIN y.obj
      BY <3>8 DEF ValidObject, Required
    <3>12. Kept(p, x) \subseteq DOMAIN y.obj
      BY <3>5, <3>11 DEF Kept
    <3>13. Required(p) \subseteq Kept(p, x)
      BY <3>5, <3>11 DEF Kept
    <3>14. ASSUME NEW k \in DOMAIN u.obj PROVE ValidMember(Valid, p, u, k)
      <4>1. k \in Kept(p, x) /\ k \in DOMAIN y.obj /\ k \in DOMAIN x.obj
        BY <3>3, <3>5, <3>12
      <4>2. ValidMember(Valid, p, y, k)
        BY <3>8, <4>1 DEF ValidObject
      <4>3. x.obj[k] \in Json /\ y.obj[k] \in Json /\ u.obj[k] \in Json /\ Trims[x.obj[k]][y.obj[k]]
        BY <3>5, <3>6, <4>1
      <4>4. CASE k \in DOMAIN props
        <5>1. Valid[props[k]][y.obj[k]]
          BY <3>2, <4>2, <4>4 DEF ValidMember, props
        <5>2. u.obj[k] = StripOptionalNulls[props[k]][x.obj[k]]
          BY <3>3, <4>1, <4>4
        <5>3. Valid[props[k]][u.obj[k]]
          BY <3>7, <4>3, <4>4, <5>1, <5>2 DEF Good
        <5> QED
          BY <3>2, <4>4, <5>3 DEF ValidMember, props
      <4>5. CASE k \notin DOMAIN props
        <5>1. u.obj[k] = x.obj[k]
          BY <3>3, <4>1, <4>5
        <5>2. Has(p, "additionalProperties") =>
                more # Bool(FALSE) /\ (Is(more, "obj") => Valid[more][y.obj[k]])
          BY <3>2, <4>2, <4>5 DEF ValidMember, props, more
        <5>3. ASSUME Has(p, "additionalProperties"), Is(more, "obj") PROVE Valid[more][u.obj[k]]
          <6>1. TakesNoObject(more)
            BY <3>2, <5>3 DEF HasA, more
          <6>2. ~Is(y.obj[k], "obj")
            BY <4>3, <5>2, <5>3, <6>1 DEF TakesNoObject
          <6>3. y.obj[k] = x.obj[k]
            BY <4>3, <6>2, TrimsOf
          <6> QED
            BY <5>1, <5>2, <5>3, <6>3
        <5> QED
          BY <3>2, <4>5, <5>2, <5>3 DEF ValidMember, props, more
      <4> QED
        BY <4>4, <4>5
    <3>15. ValidObject(Valid, p, u)
      BY <3>3, <3>13, <3>14 DEF ValidObject, Required
    <3>16. ValidAt(Valid, p, u)
      BY <3>2, <3>9, <3>10, <3>15 DEF ValidAt, ValidBranches
    <3>17. Valid[p][u]
      BY <2>1, <3>16, ValidationDefined DEF u
    <3> QED
      BY <3>17 DEF u
  <2> QED
    BY <2>2, <2>3
<1>3. MaxDepth + 1 \in Reached
  <2>1. Nat \subseteq Reached
    <3> HIDE DEF Reached
    <3> QED
      BY <1>1, <1>2, Numbers
  <2> QED
    BY <2>1, Depths
<1>4. Good(s)
  BY <1>3, Depths
<1> QED
  BY <1>4
-----------------------------------------------------------------------------
(* Signatures.                                                             *)

(* A signature asks only about what is below.                              *)
LEMMA SignatureAsks ==
  ASSUME NEW f, NEW g, NEW s \in Json,
         \A p \in Below(s) : f[p] = g[p]
  PROVE  TypeText(f, s) = TypeText(g, s)
<1>1. \A k : HasA(s, k, "arr") => TypesOf(f, s.obj[k].arr) = TypesOf(g, s.obj[k].arr)
  BY InsideKeyword DEF TypesOf
<1>2. ArrayType(f, s) = ArrayType(g, s)
  <2>1. HasA(s, "items", "obj") => f[s.obj["items"]] = g[s.obj["items"]]
    BY InsideKeyword
  <2>2. HasA(s, "items", "arr") =>
          \A i \in DOMAIN s.obj["items"].arr : f[s.obj["items"].arr[i]] = g[s.obj["items"].arr[i]]
    BY InsideKeyword
  <2> QED
    BY <2>1, <2>2 DEF ArrayType
<1>3. ObjectType(f, s) = ObjectType(g, s)
  <2>1. \A k \in DOMAIN Properties(s) : f[Properties(s)[k]] = g[Properties(s)[k]]
    BY InsideKeyword DEF Properties
  <2>2. HasA(s, "additionalProperties", "obj") =>
          f[s.obj["additionalProperties"]] = g[s.obj["additionalProperties"]]
    BY InsideKeyword
  <2> QED
    BY <2>1, <2>2 DEF ObjectType
<1>4. \A t : TsFromType(f, t, s) = TsFromType(g, t, s)
  BY <1>2, <1>3 DEF TsFromType
<1> QED
  BY <1>1, <1>2, <1>3, <1>4 DEF TypeText, HasSome

(* A signature is what its definition says.                               *)
LEMMA SignatureDefined ==
  ASSUME NEW s \in Json
  PROVE  TsType[s] = TypeText(TsType, s)
<1> DEFINE Step(f) == [t \in Json |-> TypeText(f, t)]
           Right(f, n) == \A t \in Json : Depth[t] < n => f[t] = Step(f)[t]
           Reached == {n \in Nat : \E f : Right(f, n)}
<1>1. ASSUME NEW f, NEW n \in Nat, Right(f, n) PROVE Right(Step(f), n + 1)
  <2> SUFFICES ASSUME NEW t \in Json, Depth[t] < n + 1 PROVE Step(f)[t] = Step(Step(f))[t]
    OBVIOUS
  <2>1. \A p \in Below(t) : f[p] = Step(f)[p]
    BY <1>1, Depths DEF Below
  <2>2. TypeText(f, t) = TypeText(Step(f), t)
    <3> HIDE DEF Step
    <3> QED
      BY <2>1, SignatureAsks
  <2> QED
    BY <2>2
<1>2. 0 \in Reached
  BY Depths
<1>3. \A n \in Nat : n \in Reached => n + 1 \in Reached
  <2> HIDE DEF Right, Step
  <2> QED
    BY <1>1
<1>4. PICK f : Right(f, MaxDepth + 1)
  <2> HIDE DEF Right
  <2>1. Nat \subseteq Reached
    <3> HIDE DEF Reached
    <3> QED
      BY <1>2, <1>3, Numbers
  <2> QED
    BY <2>1, Depths
<1>5. Right(Step(f), MaxDepth + 1 + 1)
  <2> HIDE DEF Right, Step
  <2> QED
    BY <1>1, <1>4, Depths
<1>6. Step(f) = Step(Step(f))
  BY <1>5, Depths
<1>7. TsType = Step(TsType)
  <2>1. \E h : h = Step(h)
    <3> HIDE DEF Step
    <3> QED
      BY <1>6
  <2>2. TsType = CHOOSE h : h = Step(h)
    BY DEF TsType
  <2> HIDE DEF Step
  <2> QED
    BY <2>1, <2>2
<1> QED
  BY <1>7

(* Whether a value is of a type asks only about what is below the value.   *)
LEMMA AdmitsAsks ==
  ASSUME NEW f, NEW g, NEW v \in Json, NEW type \in Types,
         \A p \in Below(v) : f[p] = g[p]
  PROVE  AdmitsText(f, type, v) = AdmitsText(g, type, v)
<1>1. /\ Is(v, "arr") => \A e \in Range(v.arr) : f[e] = g[e]
      /\ Is(v, "arr") => \A i \in DOMAIN v.arr : f[v.arr[i]] = g[v.arr[i]]
      /\ Is(v, "obj") => \A e \in Range(v.obj) : f[e] = g[e]
      /\ Is(v, "obj") => \A k \in DOMAIN v.obj : f[v.obj[k]] = g[v.obj[k]]
  BY Inside DEF Range
<1>2. \A a : AdmitsAtom(f, a, v) = AdmitsAtom(g, a, v)
  BY <1>1 DEF AdmitsAtom
<1> QED
  BY <1>2 DEF AdmitsText

(* Being of a type is what its definition says.                           *)
LEMMA AdmissionDefined ==
  ASSUME NEW s \in Json, NEW x \in Types
  PROVE  Admits[s][x] = AdmitsText(Admits, x, s)
<1> DEFINE Step(f) == [t \in Json |-> [y \in Types |-> AdmitsText(f, y, t)]]
           Right(f, n) == \A t \in Json : Depth[t] < n => f[t] = Step(f)[t]
           Reached == {n \in Nat : \E f : Right(f, n)}
<1>1. ASSUME NEW f, NEW n \in Nat, Right(f, n) PROVE Right(Step(f), n + 1)
  <2> SUFFICES ASSUME NEW t \in Json, Depth[t] < n + 1 PROVE Step(f)[t] = Step(Step(f))[t]
    OBVIOUS
  <2>1. \A p \in Below(t) : f[p] = Step(f)[p]
    BY <1>1, Depths DEF Below
  <2>2. \A y \in Types : AdmitsText(f, y, t) = AdmitsText(Step(f), y, t)
    <3> HIDE DEF Step
    <3> QED
      BY <2>1, AdmitsAsks
  <2> QED
    BY <2>2
<1>2. 0 \in Reached
  BY Depths
<1>3. \A n \in Nat : n \in Reached => n + 1 \in Reached
  <2> HIDE DEF Right, Step
  <2> QED
    BY <1>1
<1>4. PICK f : Right(f, MaxDepth + 1)
  <2> HIDE DEF Right
  <2>1. Nat \subseteq Reached
    <3> HIDE DEF Reached
    <3> QED
      BY <1>2, <1>3, Numbers
  <2> QED
    BY <2>1, Depths
<1>5. Right(Step(f), MaxDepth + 1 + 1)
  <2> HIDE DEF Right, Step
  <2> QED
    BY <1>1, <1>4, Depths
<1>6. Step(f) = Step(Step(f))
  BY <1>5, Depths
<1>7. Admits = Step(Admits)
  <2>1. \E h : h = Step(h)
    <3> HIDE DEF Step
    <3> QED
      BY <1>6
  <2>2. Admits = CHOOSE h : h = Step(h)
    BY DEF Admits
  <2> HIDE DEF Step
  <2> QED
    BY <2>1, <2>2
<1> QED
  BY <1>7

(* Texts are sequences of sequences.                                       *)
IsSeq(t) == t \in Seq(Range(t))
IsText(t) == IsSeq(t) /\ \A i \in DOMAIN t : IsSeq(t[i])

(* What a sequence is made of.                                             *)
LEMMA SeqProperties ==
  ASSUME NEW t, IsSeq(t)
  PROVE  /\ Len(t) \in Nat /\ DOMAIN t = 1 .. Len(t)
         /\ t = [i \in 1 .. Len(t) |-> t[i]]
         /\ t # <<>> <=> Len(t) > 0
<1> DEFINE S == Range(t)
<1>1. t \in Seq(S)
  BY DEF IsSeq
<1> HIDE DEF S
<1> QED
  BY <1>1

(* A function on the numbers up to n is one.                               *)
LEMMA SeqFrom ==
  ASSUME NEW t, NEW n \in Nat, DOMAIN t = 1 .. n, t = [i \in 1 .. n |-> t[i]]
  PROVE  IsSeq(t) /\ Len(t) = n
<1> DEFINE S == Range(t)
<1>1. t \in [1 .. n -> S]
  BY DEF Range
<1> HIDE DEF S
<1>2. t \in Seq(S) /\ Len(t) = n
  BY <1>1
<1> QED
  BY <1>2 DEF IsSeq, S

(* One sequence after the other.                                           *)
LEMMA Concatenation ==
  ASSUME NEW t, NEW u, IsSeq(t), IsSeq(u)
  PROVE  /\ IsSeq(t \o u) /\ Len(t \o u) = Len(t) + Len(u)
         /\ \A i \in DOMAIN t : i \in DOMAIN (t \o u) /\ (t \o u)[i] = t[i]
         /\ \A j \in DOMAIN u : Len(t) + j \in DOMAIN (t \o u) /\ (t \o u)[Len(t) + j] = u[j]
         /\ \A k \in DOMAIN (t \o u) :
              \/ k \in DOMAIN t
              \/ \E j \in DOMAIN u : k = Len(t) + j
<1> DEFINE S == Range(t) \cup Range(u)
<1>1. t \in Seq(S) /\ u \in Seq(S)
  <2>1. t \in Seq(Range(t)) /\ u \in Seq(Range(u))
    BY DEF IsSeq
  <2>2. Range(t) \subseteq S /\ Range(u) \subseteq S
    OBVIOUS
  <2> HIDE DEF S
  <2> QED
    BY <2>1, <2>2
<1> HIDE DEF S
<1>2. t \o u \in Seq(S) /\ Len(t \o u) = Len(t) + Len(u)
  BY <1>1
<1>3. /\ \A i \in 1 .. Len(t) : (t \o u)[i] = t[i]
      /\ \A j \in 1 .. Len(u) : (t \o u)[Len(t) + j] = u[j]
  BY <1>1
<1>4. DOMAIN t = 1 .. Len(t) /\ DOMAIN u = 1 .. Len(u) /\ Len(t) \in Nat /\ Len(u) \in Nat
  BY <1>1
<1>5. DOMAIN (t \o u) = 1 .. Len(t) + Len(u)
  BY <1>2, <1>4
<1>6. t \o u = [k \in 1 .. Len(t) + Len(u) |-> (t \o u)[k]]
  <2> DEFINE w == t \o u
  <2>1. w \in Seq(S) /\ DOMAIN w = 1 .. Len(t) + Len(u)
    BY <1>2, <1>5
  <2> HIDE DEF w
  <2>2. w = [k \in 1 .. Len(t) + Len(u) |-> w[k]]
    BY <2>1
  <2> QED
    BY <2>2 DEF w
<1>7. IsSeq(t \o u)
  <2> DEFINE w == t \o u
             n == Len(t) + Len(u)
  <2>1. n \in Nat /\ DOMAIN w = 1 .. n /\ w = [k \in 1 .. n |-> w[k]]
    BY <1>4, <1>5, <1>6
  <2> HIDE DEF w, n
  <2>2. IsSeq(w)
    BY <2>1, SeqFrom
  <2> QED
    BY <2>2 DEF w
<1>8. ASSUME NEW k \in DOMAIN (t \o u), k \notin DOMAIN t PROVE \E j \in DOMAIN u : k = Len(t) + j
  <2>1. k - Len(t) \in DOMAIN u /\ k = Len(t) + (k - Len(t))
    BY <1>4, <1>5, <1>8
  <2> QED
    BY <2>1
<1> QED
  BY <1>2, <1>3, <1>4, <1>5, <1>7, <1>8

(* Two texts with "|" between them.                                        *)
LEMMA Alternatives ==
  ASSUME NEW t, NEW u, NEW v, IsText(t), IsText(u)
  PROVE  /\ IsText(t \o u)
         /\ AdmitsText(Admits, t, v) \/ AdmitsText(Admits, u, v) => AdmitsText(Admits, t \o u, v)
<1>1. IsSeq(t) /\ IsSeq(u)
  BY DEF IsText
<1>2. \A k \in DOMAIN (t \o u) : IsSeq((t \o u)[k])
  <2> SUFFICES ASSUME NEW k \in DOMAIN (t \o u) PROVE IsSeq((t \o u)[k])
    OBVIOUS
  <2>1. CASE k \in DOMAIN t
    <3>1. (t \o u)[k] = t[k]
      BY <1>1, <2>1, Concatenation
    <3> QED
      BY <2>1, <3>1 DEF IsText
  <2>2. CASE k \notin DOMAIN t
    <3>1. PICK j \in DOMAIN u : k = Len(t) + j
      <4>1. \A m \in DOMAIN (t \o u) : m \in DOMAIN t \/ \E j \in DOMAIN u : m = Len(t) + j
        BY ONLY <1>1, Concatenation, Zenon
      <4> QED
        BY <4>1, <2>2, Zenon
    <3>2. (t \o u)[k] = u[j]
      BY <1>1, <3>1, Concatenation
    <3> QED
      BY <3>1, <3>2 DEF IsText
  <2> QED
    BY <2>1, <2>2
<1>3. AdmitsText(Admits, t, v) => AdmitsText(Admits, t \o u, v)
  <2>1. \A i \in DOMAIN t : i \in DOMAIN (t \o u) /\ (t \o u)[i] = t[i]
    BY <1>1, Concatenation
  <2> QED
    BY <2>1 DEF AdmitsText
<1>4. AdmitsText(Admits, u, v) => AdmitsText(Admits, t \o u, v)
  <2>1. \A j \in DOMAIN u : Len(t) + j \in DOMAIN (t \o u) /\ (t \o u)[Len(t) + j] = u[j]
    BY <1>1, Concatenation
  <2> QED
    BY <2>1 DEF AdmitsText
<1> QED
  BY <1>1, <1>2, <1>3, <1>4, Concatenation DEF IsText

(* The text of alternatives: a text that admits what any of them admits.   *)
LEMMA EitherAdmits ==
  ASSUME NEW ts, IsSeq(ts), \A i \in DOMAIN ts : IsText(ts[i])
  PROVE  /\ IsText(Either(ts))
         /\ \A v : (\E i \in DOMAIN ts : AdmitsText(Admits, ts[i], v)) => AdmitsText(Admits, Either(ts), v)
<1> DEFINE n == Len(ts)
           Step(f) == [i \in 1 .. n |-> IF i = 1 THEN ts[i] ELSE f[i - 1] \o ts[i]]
<1>1. n \in Nat /\ DOMAIN ts = 1 .. n
  BY SeqProperties
<1>2. CASE n = 0
  <2>1. Either(ts) = ts
    BY <1>2 DEF Either, FlattenSeq
  <2> QED
    BY <1>1, <1>2, <2>1 DEF IsText
<1>3. CASE n # 0
  <2> DEFINE Right(f, m) == \A i \in 1 .. n : i <= m => f[i] = Step(f)[i]
             Reached == {m \in Nat : \E f : Right(f, m)}
  <2>1. 0 \in Reached
    OBVIOUS
  <2>2. ASSUME NEW f, NEW m \in Nat, Right(f, m) PROVE Right(Step(f), m + 1)
    <3> SUFFICES ASSUME NEW i \in 1 .. n, i <= m + 1 PROVE Step(f)[i] = Step(Step(f))[i]
      OBVIOUS
    <3>1. i # 1 => f[i - 1] = Step(f)[i - 1]
      BY <2>2, <1>1
    <3> QED
      BY <3>1
  <2>3. \A m \in Nat : m \in Reached => m + 1 \in Reached
    <3> HIDE DEF Right, Step
    <3> QED
      BY <2>2
  <2>4. PICK f : Right(f, n)
    <3> HIDE DEF Right
    <3>1. Nat \subseteq Reached
      <4> HIDE DEF Reached
      <4> QED
        BY <2>1, <2>3, Numbers
    <3> QED
      BY <3>1, <1>1
  <2>5. Right(Step(f), n + 1)
    <3> HIDE DEF Right, Step
    <3> QED
      BY <2>2, <2>4, <1>1
  <2>6. Step(f) = Step(Step(f))
    BY <2>5, <1>1
  <2> DEFINE h == CHOOSE g : g = Step(g)
  <2>7. h = Step(h)
    <3> HIDE DEF Step
    <3> QED
      BY <2>6
  <2>8. Either(ts) = h[n]
    BY <1>3 DEF Either, FlattenSeq
  <2> HIDE DEF h
  <2> DEFINE Good(i) == IsText(h[i]) /\ \A v : (\E j \in 1 .. i : AdmitsText(Admits, ts[j], v))
                                              => AdmitsText(Admits, h[i], v)
             Through == {m \in Nat : m + 1 \in 1 .. n => Good(m + 1)}
  <2>9. 0 \in Through
    <3>1. h[1] = ts[1]
      BY <2>7, <1>1, <1>3
    <3> QED
      BY <3>1, <1>1, <1>3
  <2>10. ASSUME NEW m \in Nat, m \in Through PROVE m + 1 \in Through
    <3> SUFFICES ASSUME m + 1 + 1 \in 1 .. n PROVE Good(m + 1 + 1)
      OBVIOUS
    <3>1. m + 1 \in 1 .. n
      BY <1>1
    <3>2. h[m + 2] = h[m + 1] \o ts[m + 2]
      <4>1. \A i \in 2 .. n : h[i] = h[i - 1] \o ts[i]
        <5> TAKE i \in 2 .. n
        <5>1. i \in 1 .. n /\ i # 1
          BY <1>1
        <5>2. Step(h)[i] = h[i - 1] \o ts[i]
          BY <5>1, Zenon
        <5> HIDE DEF Step
        <5> QED
          BY <2>7, <5>2, Zenon
      <4>2. PICK i \in 2 .. n : i = m + 2 /\ i - 1 = m + 1
        BY <1>1
      <4> HIDE DEF n, Step
      <4>3. h[i] = h[i - 1] \o ts[i]
        BY <4>1, Zenon
      <4> QED
        BY <4>2, <4>3, Zenon
    <3>3. IsText(h[m + 1]) /\ IsText(ts[m + 2])
      BY <2>10, <3>1, <1>1
    <3>4. IsText(h[m + 2])
      BY <3>2, <3>3, Alternatives
    <3>5. ASSUME NEW v, NEW j \in 1 .. m + 2, AdmitsText(Admits, ts[j], v)
          PROVE  AdmitsText(Admits, h[m + 2], v)
      <4>1. j = m + 2 \/ j \in 1 .. m + 1
        OBVIOUS
      <4>2. AdmitsText(Admits, h[m + 1], v) \/ AdmitsText(Admits, ts[m + 2], v)
        BY <2>10, <3>1, <3>5, <4>1
      <4> QED
        BY <3>2, <3>3, <4>2, Alternatives
    <3> QED
      BY <3>4, <3>5
  <2>11. n - 1 \in Through
    <3>1. Nat \subseteq Through
      <4> HIDE DEF Through
      <4> QED
        BY <2>9, <2>10, Numbers
    <3>2. n - 1 \in Nat
      BY <1>1, <1>3
    <3> HIDE DEF Through
    <3> QED
      BY <3>1, <3>2
  <2>12. Good(n)
    BY <2>11, <1>1, <1>3
  <2> QED
    BY <2>8, <2>12, <1>1
<1> QED
  BY <1>2, <1>3

(* All of a text but its last alternative, and all but its first.          *)
LEMMA FrontAndTail ==
  ASSUME NEW t, IsText(t), t # <<>>
  PROVE  /\ IsText(Front(t)) /\ IsText(Tail(t))
         /\ Last(t) = t[Len(t)] /\ Head(t) = t[1]
         /\ Len(t) \in DOMAIN t /\ 1 \in DOMAIN t
         /\ \A i \in DOMAIN t : i # Len(t) => i \in DOMAIN Front(t) /\ Front(t)[i] = t[i]
         /\ \A i \in DOMAIN t : i # 1 => \E j \in DOMAIN Tail(t) : Tail(t)[j] = t[i]
<1> DEFINE S == Range(t)
           n == Len(t)
<1>1. t \in Seq(S) /\ \A i \in DOMAIN t : IsSeq(t[i])
  BY DEF IsText, IsSeq
<1> HIDE DEF S
<1>2. n \in Nat /\ n > 0 /\ DOMAIN t = 1 .. n
  BY <1>1
<1>3. Last(t) = t[Len(t)] /\ Head(t) = t[1]
  BY <1>1 DEF Last
<1>4. /\ DOMAIN Front(t) = 1 .. n - 1 /\ \A i \in 1 .. n - 1 : Front(t)[i] = t[i]
      /\ Front(t) = [i \in 1 .. n - 1 |-> Front(t)[i]]
  BY <1>1, <1>2 DEF Front
<1>5. /\ DOMAIN Tail(t) = 1 .. n - 1 /\ \A i \in 1 .. n - 1 : Tail(t)[i] = t[i + 1]
      /\ Tail(t) = [i \in 1 .. n - 1 |-> Tail(t)[i]]
  <2>1. Tail(t) \in Seq(S)
    BY <1>1, <1>2
  <2>2. Len(Tail(t)) = n - 1
    BY <1>1, <1>2
  <2>3. \A i \in 1 .. n - 1 : Tail(t)[i] = t[i + 1]
    BY <1>1, <1>2
  <2> DEFINE w == Tail(t)
  <2>4. w \in Seq(S) /\ Len(w) = n - 1 /\ \A i \in 1 .. n - 1 : w[i] = t[i + 1]
    BY <2>1, <2>2, <2>3
  <2> HIDE DEF w, n
  <2>5. DOMAIN w = 1 .. n - 1 /\ w = [i \in 1 .. n - 1 |-> w[i]]
    BY <2>4
  <2> QED
    BY <2>4, <2>5 DEF w
<1>6. n - 1 \in Nat
  BY <1>2
<1>7. ASSUME NEW f, DOMAIN f = 1 .. n - 1, f = [i \in 1 .. n - 1 |-> f[i]],
             \A i \in 1 .. n - 1 : IsSeq(f[i])
      PROVE  IsText(f)
  <2> HIDE DEF n
  <2>1. IsSeq(f)
    BY <1>6, <1>7, SeqFrom
  <2> QED
    BY <1>7, <2>1 DEF IsText
<1>8. \A i \in 1 .. n - 1 : i \in DOMAIN t /\ i + 1 \in DOMAIN t
  BY <1>2
<1>9. IsText(Front(t))
  <2>1. \A i \in 1 .. n - 1 : IsSeq(Front(t)[i])
    BY <1>1, <1>4, <1>8
  <2> QED
    BY <1>4, <1>7, <2>1
<1>10. IsText(Tail(t))
  <2>1. \A i \in 1 .. n - 1 : IsSeq(Tail(t)[i])
    BY <1>1, <1>5, <1>8
  <2> QED
    BY <1>5, <1>7, <2>1
<1>11. ASSUME NEW i \in DOMAIN t, i # 1 PROVE \E j \in DOMAIN Tail(t) : Tail(t)[j] = t[i]
  <2>1. i - 1 \in 1 .. n - 1 /\ i - 1 + 1 = i
    BY <1>2, <1>11
  <2>2. Tail(t)[i - 1] = t[i]
    BY <1>5, <2>1
  <2> QED
    BY <1>5, <2>1, <2>2
<1>12. \A i \in DOMAIN t : i # Len(t) => i \in 1 .. n - 1
  BY <1>2
<1>13. Len(t) \in DOMAIN t /\ 1 \in DOMAIN t
  BY <1>2
<1> HIDE DEF n
<1> QED
  BY <1>3, <1>4, <1>9, <1>10, <1>11, <1>12, <1>13

(* A text of one alternative.                                              *)
LEMMA OneAlternative ==
  ASSUME NEW a, NEW v, IsSeq(a)
  PROVE  /\ IsText(<<a>>)
         /\ AdmitsText(Admits, <<a>>, v) <=> \A j \in DOMAIN a : AdmitsAtom(Admits, a[j], v)
<1> DEFINE t == <<a>>
<1>1. DOMAIN t = 1 .. 1 /\ t[1] = a /\ t = [i \in 1 .. 1 |-> t[i]]
  OBVIOUS
<1>2. DOMAIN t = {1}
  BY <1>1
<1> HIDE DEF t
<1>3. IsSeq(t)
  BY <1>1, SeqFrom
<1>4. IsText(t)
  BY <1>1, <1>2, <1>3 DEF IsText
<1>5. AdmitsText(Admits, t, v) <=> \A j \in DOMAIN a : AdmitsAtom(Admits, a[j], v)
  BY <1>1, <1>2 DEF AdmitsText
<1> QED
  BY <1>4, <1>5 DEF t

(* No alternatives at all are a text, which admits nothing.                *)
LEMMA NoText == IsText(<<>>) /\ \A v : ~AdmitsText(Admits, <<>>, v)
<1>1. DOMAIN <<>> = {} /\ <<>> \in Seq(Range(<<>>))
  OBVIOUS
<1> QED
  BY <1>1 DEF IsText, IsSeq, AdmitsText

(* Two texts with "&" between them, which takes the last alternative of    *)
(* one and the first of the other together, admit what both admit.         *)
LEMMA BothAdmit ==
  ASSUME NEW t, NEW u, IsText(t), IsText(u)
  PROVE  /\ IsText(Both(t, u)) /\ Both(<<>>, u) = u
         /\ \A v : AdmitsText(Admits, t, v) /\ AdmitsText(Admits, u, v) => AdmitsText(Admits, Both(t, u), v)
<1>1. Both(<<>>, u) = u
  BY DEF Both
<1>2. CASE t = <<>> \/ u = <<>>
  <2>1. Both(t, u) = t \/ Both(t, u) = u
    BY <1>2 DEF Both
  <2> QED
    BY <1>1, <2>1
<1>3. CASE t # <<>> /\ u # <<>>
  <2> DEFINE x == Last(t) \o Head(u)
             w == Front(t) \o <<x>>
  <2>1. Both(t, u) = w \o Tail(u)
    BY <1>3 DEF Both
  <2>2. /\ IsText(Front(t)) /\ Last(t) = t[Len(t)] /\ Len(t) \in DOMAIN t
        /\ \A i \in DOMAIN t : i # Len(t) => i \in DOMAIN Front(t) /\ Front(t)[i] = t[i]
    BY <1>3, FrontAndTail
  <2>3. /\ IsText(Tail(u)) /\ Head(u) = u[1] /\ 1 \in DOMAIN u
        /\ \A i \in DOMAIN u : i # 1 => \E j \in DOMAIN Tail(u) : Tail(u)[j] = u[i]
    BY <1>3, FrontAndTail
  <2>4. IsSeq(Last(t)) /\ IsSeq(Head(u))
    BY <2>2, <2>3 DEF IsText
  <2>5. IsSeq(x)
    BY <2>4, Concatenation
  <2>6. ASSUME NEW v, \A j \in DOMAIN Last(t) : AdmitsAtom(Admits, Last(t)[j], v),
               \A j \in DOMAIN Head(u) : AdmitsAtom(Admits, Head(u)[j], v)
        PROVE  \A j \in DOMAIN x : AdmitsAtom(Admits, x[j], v)
    <3> TAKE j \in DOMAIN x
    <3>1. CASE j \in DOMAIN Last(t)
      <4>1. x[j] = Last(t)[j]
        BY <2>4, <3>1, Concatenation
      <4> QED
        BY <2>6, <3>1, <4>1
    <3>2. CASE j \notin DOMAIN Last(t)
      <4>1. PICK m \in DOMAIN Head(u) : j = Len(Last(t)) + m
        <5>1. \A k \in DOMAIN (Last(t) \o Head(u)) :
                k \in DOMAIN Last(t) \/ \E m \in DOMAIN Head(u) : k = Len(Last(t)) + m
          BY ONLY <2>4, Concatenation, Zenon
        <5> QED
          BY <5>1, <3>2, Zenon
      <4>2. x[j] = Head(u)[m]
        BY <2>4, <4>1, Concatenation
      <4> QED
        BY <2>6, <4>2
    <3> QED
      BY <3>1, <3>2
  <2> HIDE DEF x
  <2>7. IsText(<<x>>)
    BY <2>5, OneAlternative
  <2>8. IsText(w) /\ IsText(w \o Tail(u))
    <3>1. IsText(w)
      BY <2>2, <2>7, Alternatives
    <3> HIDE DEF w
    <3> QED
      BY <2>3, <3>1, Alternatives
  <2>9. ASSUME NEW v, AdmitsText(Admits, t, v), AdmitsText(Admits, u, v)
        PROVE  AdmitsText(Admits, w \o Tail(u), v)
    <3>1. PICK i \in DOMAIN t : \A j \in DOMAIN t[i] : AdmitsAtom(Admits, t[i][j], v)
      BY <2>9 DEF AdmitsText
    <3>2. PICK k \in DOMAIN u : \A j \in DOMAIN u[k] : AdmitsAtom(Admits, u[k][j], v)
      BY <2>9 DEF AdmitsText
    <3>3. CASE i # Len(t)
      <4>1. AdmitsText(Admits, Front(t), v)
        BY <2>2, <3>1, <3>3 DEF AdmitsText
      <4>2. AdmitsText(Admits, w, v)
        BY <2>2, <2>7, <4>1, Alternatives
      <4> HIDE DEF w
      <4> QED
        BY <2>3, <2>8, <4>2, Alternatives
    <3>4. CASE k # 1
      <4>1. AdmitsText(Admits, Tail(u), v)
        BY <2>3, <3>2, <3>4 DEF AdmitsText
      <4> HIDE DEF w
      <4> QED
        BY <2>3, <2>8, <4>1, Alternatives
    <3>5. CASE i = Len(t) /\ k = 1
      <4>1. \A j \in DOMAIN x : AdmitsAtom(Admits, x[j], v)
        BY <2>2, <2>3, <2>6, <3>1, <3>2, <3>5
      <4>2. AdmitsText(Admits, <<x>>, v)
        BY <2>5, <4>1, OneAlternative
      <4>3. AdmitsText(Admits, w, v)
        BY <2>2, <2>7, <4>2, Alternatives
      <4> HIDE DEF w
      <4> QED
        BY <2>3, <2>8, <4>3, Alternatives
    <3> QED
      BY <3>3, <3>4, <3>5
  <2> QED
    BY <1>1, <2>1, <2>8, <2>9
<1> QED
  BY <1>2, <1>3

(* The text of what must all hold: it admits what each of the texts, of    *)
(* which there are some, admits.                                           *)
LEMMA EachOfAdmits ==
  ASSUME NEW ts, IsSeq(ts), \A i \in DOMAIN ts : IsText(ts[i])
  PROVE  /\ IsText(EachOf(ts))
         /\ \A v : 1 \in DOMAIN ts /\ (\A i \in DOMAIN ts : AdmitsText(Admits, ts[i], v))
                     => AdmitsText(Admits, EachOf(ts), v)
<1> DEFINE n == Len(ts)
           Step(f) == [i \in 0 .. n |-> IF i = 0 THEN <<>> ELSE Both(f[i - 1], ts[i])]
           Right(f, m) == \A i \in 0 .. n : i < m => f[i] = Step(f)[i]
           Reached == {m \in Nat : \E f : Right(f, m)}
<1>1. n \in Nat /\ DOMAIN ts = 1 .. n
  BY SeqProperties
<1>2. 0 \in Reached
  OBVIOUS
<1>3. ASSUME NEW f, NEW m \in Nat, Right(f, m) PROVE Right(Step(f), m + 1)
  <2> SUFFICES ASSUME NEW i \in 0 .. n, i < m + 1 PROVE Step(f)[i] = Step(Step(f))[i]
    OBVIOUS
  <2>1. i # 0 => f[i - 1] = Step(f)[i - 1]
    BY <1>3, <1>1
  <2> QED
    BY <2>1
<1>4. \A m \in Nat : m \in Reached => m + 1 \in Reached
  <2> HIDE DEF Right, Step
  <2> QED
    BY <1>3
<1>5. PICK f : Right(f, n + 1)
  <2> HIDE DEF Right
  <2>1. Nat \subseteq Reached
    <3> HIDE DEF Reached
    <3> QED
      BY <1>2, <1>4, Numbers
  <2>2. n + 1 \in Reached
    BY <2>1, <1>1
  <2> QED
    BY <2>2
<1>6. Right(Step(f), n + 1 + 1)
  <2> HIDE DEF Right, Step
  <2> QED
    BY <1>3, <1>5, <1>1
<1>7. Step(f) = Step(Step(f))
  BY <1>6, <1>1
<1> DEFINE h == CHOOSE g : g = Step(g)
<1>8. h = Step(h)
  <2> HIDE DEF Step
  <2> QED
    BY <1>7
<1>9. EachOf(ts) = h[n]
  BY DEF EachOf
<1> HIDE DEF h
<1> DEFINE Good(i) == IsText(h[i]) /\ \A v : i > 0 /\ (\A j \in 1 .. i : AdmitsText(Admits, ts[j], v))
                                               => AdmitsText(Admits, h[i], v)
           Through == {m \in Nat : m \in 0 .. n => Good(m)}
<1>10. h[0] = <<>> /\ \A i \in 1 .. n : h[i] = Both(h[i - 1], ts[i])
  <2>1. Step(h)[0] = <<>>
    BY <1>1
  <2>2. \A i \in 1 .. n : Step(h)[i] = Both(h[i - 1], ts[i])
    BY <1>1
  <2> HIDE DEF Step, n
  <2> QED
    BY <1>8, <2>1, <2>2, Zenon
<1>11. 0 \in Through
  BY <1>10, NoText
<1>12. ASSUME NEW m \in Nat, m \in Through PROVE m + 1 \in Through
  <2> SUFFICES ASSUME m + 1 \in 0 .. n PROVE Good(m + 1)
    OBVIOUS
  <2>1. m \in 0 .. n /\ m + 1 \in 1 .. n /\ m + 1 - 1 = m
    BY <1>1
  <2>2. h[m + 1] = Both(h[m], ts[m + 1])
    <3>1. \A i \in 1 .. n : h[i] = Both(h[i - 1], ts[i])
      BY <1>10
    <3>2. PICK i \in 1 .. n : i = m + 1 /\ i - 1 = m
      BY <2>1
    <3> HIDE DEF n, Step
    <3>3. h[i] = Both(h[i - 1], ts[i])
      BY <3>1, Zenon
    <3> QED
      BY <3>2, <3>3, Zenon
  <2>3. IsText(h[m]) /\ IsText(ts[m + 1])
    BY <1>12, <2>1, <1>1
  <2>4. IsText(h[m + 1])
    BY <2>2, <2>3, BothAdmit
  <2>5. ASSUME NEW v, \A j \in 1 .. m + 1 : AdmitsText(Admits, ts[j], v)
        PROVE  AdmitsText(Admits, h[m + 1], v)
    <3>1. AdmitsText(Admits, ts[m + 1], v)
      BY <2>5, <2>1
    <3>2. CASE m = 0
      <4>1. h[m] = <<>>
        BY <1>10, <3>2
      <4>2. h[m + 1] = ts[m + 1]
        BY <2>2, <2>3, <4>1, BothAdmit
      <4> QED
        BY <3>1, <4>2
    <3>3. CASE m # 0
      <4>1. AdmitsText(Admits, h[m], v)
        BY <1>12, <2>1, <2>5, <3>3
      <4> QED
        BY <2>2, <2>3, <3>1, <4>1, BothAdmit
    <3> QED
      BY <3>2, <3>3
  <2> QED
    BY <2>4, <2>5
<1>13. n \in Through
  <2>1. Nat \subseteq Through
    <3> HIDE DEF Through
    <3> QED
      BY <1>11, <1>12, Numbers
  <2> HIDE DEF Through
  <2> QED
    BY <2>1, <1>1
<1>14. Good(n)
  BY <1>13, <1>1
<1> QED
  BY <1>1, <1>9, <1>14

(* A text of one atom admits what the atom admits.                         *)
LEMMA OneAtom ==
  ASSUME NEW a, NEW v
  PROVE  /\ IsText(Atom(a))
         /\ AdmitsText(Admits, Atom(a), v) <=> AdmitsAtom(Admits, a, v)
<1> DEFINE x == <<a>>
<1>1. DOMAIN x = 1 .. 1 /\ x[1] = a /\ x = [i \in 1 .. 1 |-> x[i]]
  OBVIOUS
<1>2. DOMAIN x = {1}
  BY <1>1
<1>3. Atom(a) = <<x>>
  BY DEF Atom
<1> HIDE DEF x
<1>4. IsSeq(x)
  BY <1>1, SeqFrom
<1>5. IsText(<<x>>) /\ (AdmitsText(Admits, <<x>>, v) <=> AdmitsAtom(Admits, a, v))
  BY <1>1, <1>2, <1>4, OneAlternative
<1> QED
  BY <1>3, <1>5

(* What the atoms of a signature admit.                                    *)
LEMMA AtomsAdmit ==
  ASSUME NEW v, NEW c, NEW d
  PROVE  /\ AdmitsText(Admits, AnyType, v)
         /\ AdmitsText(Admits, Literal(v), v)
         /\ TypeMatches(v, c) => AdmitsText(Admits, Atom([name |-> c]), v)
         /\ v # Null => AdmitsText(Admits, Atom([braces |-> TRUE]), v)
         /\ Is(v, "arr") /\ (\A e \in Range(v.arr) : Admits[e][c])
              => AdmitsText(Admits, Atom([elements |-> c]), v)
         /\ Is(v, "obj") /\ (\A e \in Range(v.obj) : Admits[e][c])
              => AdmitsText(Admits, Atom([members |-> c]), v)
         /\ /\ Is(v, "obj") /\ d \subseteq DOMAIN v.obj
            /\ \A k \in DOMAIN v.obj \cap DOMAIN c : Admits[v.obj[k]][c[k]]
            => AdmitsText(Admits, Atom([fields |-> c, needed |-> d]), v)
<1>1. AdmitsAtom(Admits, [any |-> TRUE], v)
  BY DEF AdmitsAtom, Is
<1>2. AdmitsAtom(Admits, [lit |-> v], v)
  BY DEF AdmitsAtom, Is
<1>3. TypeMatches(v, c) => AdmitsAtom(Admits, [name |-> c], v)
  <2>1. Is([name |-> c], "name") /\ [name |-> c].name = c
    BY DEF Is
  <2> QED
    BY <2>1 DEF AdmitsAtom
<1>4. v # Null => AdmitsAtom(Admits, [braces |-> TRUE], v)
  <2>1. Is([braces |-> TRUE], "braces")
    BY DEF Is
  <2> QED
    BY <2>1 DEF AdmitsAtom
<1>5. Is(v, "arr") /\ (\A e \in Range(v.arr) : Admits[e][c]) => AdmitsAtom(Admits, [elements |-> c], v)
  <2>1. Is([elements |-> c], "elements") /\ [elements |-> c].elements = c
    BY DEF Is
  <2> QED
    BY <2>1 DEF AdmitsAtom
<1>6. Is(v, "obj") /\ (\A e \in Range(v.obj) : Admits[e][c]) => AdmitsAtom(Admits, [members |-> c], v)
  <2>1. Is([members |-> c], "members") /\ [members |-> c].members = c
    BY DEF Is
  <2> QED
    BY <2>1 DEF AdmitsAtom
<1>7. /\ Is(v, "obj") /\ d \subseteq DOMAIN v.obj
      /\ \A k \in DOMAIN v.obj \cap DOMAIN c : Admits[v.obj[k]][c[k]]
      => AdmitsAtom(Admits, [fields |-> c, needed |-> d], v)
  <2> DEFINE a == [fields |-> c, needed |-> d]
  <2>1. Is(a, "fields") /\ a.fields = c /\ a.needed = d
    BY DEF Is
  <2> HIDE DEF a
  <2>2. /\ Is(v, "obj") /\ d \subseteq DOMAIN v.obj
        /\ \A k \in DOMAIN v.obj \cap DOMAIN c : Admits[v.obj[k]][c[k]]
        => AdmitsAtom(Admits, a, v)
    BY <2>1 DEF AdmitsAtom
  <2> QED
    BY <2>2 DEF a
<1> QED
  BY <1>1, <1>2, <1>3, <1>4, <1>5, <1>6, <1>7, OneAtom DEF AnyType, Literal

(* The arrays of a schema are sequences, and so are the types of their     *)
(* elements.                                                               *)
LEMMA TypesOfArray ==
  ASSUME NEW s \in Json, NEW k, HasA(s, k, "arr"), NEW f
  PROVE  /\ DOMAIN [i \in DOMAIN s.obj[k].arr |-> f[i]] = DOMAIN s.obj[k].arr
         /\ IsSeq([i \in DOMAIN s.obj[k].arr |-> f[i]])
         /\ s.obj[k].arr # <<>> => 1 \in DOMAIN s.obj[k].arr
<1> DEFINE w == s.obj[k].arr
           ts == [i \in DOMAIN w |-> f[i]]
<1>1. s.obj[k] \in Json /\ Is(s.obj[k], "arr")
  BY InsideKeyword DEF HasA, Below
<1>2. w \in Seq(Range(w))
  BY <1>1, OneKind
<1>3. Len(w) \in Nat /\ DOMAIN w = 1 .. Len(w) /\ (w # <<>> <=> Len(w) > 0)
  <2> HIDE DEF w
  <2> QED
    BY <1>2, SeqProperties DEF IsSeq
<1>4. IsSeq(ts)
  <2> DEFINE n == Len(w)
  <2>1. n \in Nat /\ DOMAIN ts = 1 .. n /\ ts = [i \in 1 .. n |-> ts[i]]
    BY <1>3
  <2> HIDE DEF n, ts
  <2> QED
    BY <2>1, SeqFrom
<1> QED
  BY <1>3, <1>4

(* Types of one name are texts.                                            *)
LEMMA NamedTexts ==
  ASSUME NEW s, NEW t
  PROVE  IsText(TsFromType(TsType, t, s)) /\ IsText(ArrayType(TsType, s)) /\ IsText(ObjectType(TsType, s))
<1>1. IsText(ArrayType(TsType, s))
  BY OneAtom DEF ArrayType
<1>2. IsText(ObjectType(TsType, s))
  BY OneAtom DEF ObjectType
<1> QED
  BY <1>1, <1>2, OneAtom DEF TsFromType

(* Every signature is a text.                                              *)
LEMMA SignaturesAreTexts ==
  ASSUME NEW s \in Json
  PROVE  IsText(TsType[s])
<1> DEFINE Reached == {n \in Nat : \A t \in Json : Depth[t] < n => IsText(TsType[t])}
<1>1. 0 \in Reached
  BY Depths
<1>2. ASSUME NEW n \in Nat, n \in Reached PROVE n + 1 \in Reached
  <2> SUFFICES ASSUME NEW t \in Json, Depth[t] < n + 1 PROVE IsText(TsType[t])
    OBVIOUS
  <2>1. \A p \in Below(t) : IsText(TsType[p])
    BY <1>2, Depths DEF Below
  <2>2. ASSUME NEW k, HasA(t, k, "arr")
        PROVE  IsText(Either(TypesOf(TsType, t.obj[k].arr))) /\ IsText(EachOf(TypesOf(TsType, t.obj[k].arr)))
    <3> DEFINE ts == TypesOf(TsType, t.obj[k].arr)
    <3>1. IsSeq(ts) /\ DOMAIN ts = DOMAIN t.obj[k].arr
      <4> DEFINE f == [i \in DOMAIN t.obj[k].arr |-> TsType[t.obj[k].arr[i]]]
      <4>1. ts = [i \in DOMAIN t.obj[k].arr |-> f[i]]
        BY DEF TypesOf
      <4> HIDE DEF f, ts
      <4> QED
        BY <2>2, <4>1, TypesOfArray
    <3>2. \A i \in DOMAIN ts : IsText(ts[i])
      BY <2>1, <2>2, <3>1, InsideKeyword DEF TypesOf
    <3> HIDE DEF ts
    <3>3. IsText(Either(ts)) /\ IsText(EachOf(ts))
      BY <3>1, <3>2, EitherAdmits, EachOfAdmits
    <3> QED
      BY <3>3 DEF ts
  <2>3. ASSUME NEW k, NEW f, HasA(t, k, "arr"), \A i \in DOMAIN t.obj[k].arr : IsText(f[i])
        PROVE  IsText(Either([i \in DOMAIN t.obj[k].arr |-> f[i]]))
    <3> DEFINE ts == [i \in DOMAIN t.obj[k].arr |-> f[i]]
    <3>1. IsSeq(ts) /\ DOMAIN ts = DOMAIN t.obj[k].arr
      BY <2>3, TypesOfArray
    <3>2. \A i \in DOMAIN ts : IsText(ts[i])
      BY <2>3
    <3> HIDE DEF ts
    <3>3. IsText(Either(ts))
      BY <3>1, <3>2, EitherAdmits
    <3> QED
      BY <3>3 DEF ts
  <2>4. HasSome(t, "enum") =>
          IsText(Either([i \in DOMAIN t.obj["enum"].arr |-> Literal(t.obj["enum"].arr[i])]))
    <3> DEFINE f == [i \in DOMAIN t.obj["enum"].arr |-> Literal(t.obj["enum"].arr[i])]
    <3>1. \A i \in DOMAIN t.obj["enum"].arr : IsText(f[i])
      BY OneAtom DEF Literal
    <3>2. f = [i \in DOMAIN t.obj["enum"].arr |-> f[i]]
      OBVIOUS
    <3> HIDE DEF f
    <3>3. HasSome(t, "enum") => IsText(Either(f))
      BY <2>3, <3>1, <3>2 DEF HasSome
    <3> QED
      BY <3>3 DEF f
  <2>5. HasA(t, "type", "arr") =>
          LET names == t.obj["type"].arr
          IN  IsText(Either([i \in DOMAIN names |-> IF Is(names[i], "str")
                                                    THEN TsFromType(TsType, names[i].str, t) ELSE <<>>]))
    <3> DEFINE names == t.obj["type"].arr
               f == [i \in DOMAIN names |-> IF Is(names[i], "str")
                                            THEN TsFromType(TsType, names[i].str, t) ELSE <<>>]
    <3>1. \A i \in DOMAIN names : IsText(f[i])
      BY NamedTexts, NoText
    <3>2. f = [i \in DOMAIN names |-> f[i]]
      OBVIOUS
    <3> HIDE DEF f
    <3>3. HasA(t, "type", "arr") => IsText(Either(f))
      BY <2>3, <3>1, <3>2
    <3> QED
      BY <3>3 DEF f
  <2>6. IsText(TypeText(TsType, t))
    BY <2>2, <2>4, <2>5, NamedTexts, OneAtom DEF TypeText, HasSome, Literal, AnyType
  <2> QED
    BY <2>6, SignatureDefined
<1>3. MaxDepth + 1 \in Reached
  <2>1. Nat \subseteq Reached
    <3> HIDE DEF Reached
    <3> QED
      BY <1>1, <1>2, Numbers
  <2> QED
    BY <2>1, Depths
<1> QED
  BY <1>3, Depths

(* What a type that is named in a schema admits, where the schemas below   *)
(* have signatures that cover them.                                        *)
LEMMA NamedCovers ==
  ASSUME NEW ss \in SUBSET Json, IsTyped(ss), NEW s \in ss,
         \A b \in ss \cap Below(s), x \in Json : Valid[b][x] => Admits[x][TsType[b]],
         NEW v \in Json, Valid[s][v], NEW t, TypeMatches(v, t)
  PROVE  AdmitsText(Admits, TsFromType(TsType, t, s), v)
<1>1. ValidAt(Valid, s, v)
  BY ValidationDefined
<1>2. Subschemas(s) \subseteq ss /\ ~HasA(s, "items", "arr")
  BY DEF IsTyped
<1>3. \A x \in Json : Admits[x][AnyType]
  BY AdmissionDefined, AtomsAdmit DEF Types
<1>4. CASE t = "array"
  <2>1. Is(v, "arr")
    BY <1>4 DEF TypeMatches
  <2>2. \A e \in Range(v.arr) : e \in Json
    BY <2>1, Inside DEF Below, Range
  <2>3. ASSUME HasA(s, "items", "obj"), NEW e \in Range(v.arr)
        PROVE  Admits[e][TsType[s.obj["items"]]]
    <3>1. s.obj["items"] \in Subschemas(s)
      BY <2>3 DEF Subschemas
    <3>2. s.obj["items"] \in ss \cap Below(s)
      BY <1>2, <2>3, <3>1, InsideKeyword
    <3>3. Valid[s.obj["items"]][e]
      BY <1>1, <2>1, <2>3 DEF ValidAt, ValidArray, Range
    <3> QED
      BY <2>2, <2>3, <3>2, <3>3
  <2>4. AdmitsText(Admits, ArrayType(TsType, s), v)
    BY <1>2, <1>3, <2>1, <2>2, <2>3, AtomsAdmit DEF ArrayType
  <2> QED
    BY <1>4, <2>4 DEF TsFromType
<1>5. CASE t = "object"
  <2> DEFINE props == Properties(s)
  <2>1. Is(v, "obj") /\ v # Null
    <3>1. Is(v, "obj")
      BY <1>5 DEF TypeMatches
    <3>2. ~Is(Null, "obj")
      BY DEF Is, Null
    <3> QED
      BY <3>1, <3>2
  <2>2. \A k \in DOMAIN v.obj : v.obj[k] \in Json /\ ValidMember(Valid, s, v, k)
    BY <1>1, <2>1, Inside DEF Below, ValidAt, ValidObject
  <2>3. \A e \in Range(v.obj) : e \in Json
    BY <2>2 DEF Range
  <2>4. CASE DOMAIN props # {}
    <3>1. HasA(s, "properties", "obj") /\ props = s.obj["properties"].obj
      BY <2>4 DEF Properties
    <3>2. Required(s) \cap DOMAIN props \subseteq DOMAIN v.obj
      BY <1>1, <2>1 DEF Required, ValidAt, ValidObject
    <3>3. ASSUME NEW k \in DOMAIN v.obj \cap DOMAIN props
          PROVE  Admits[v.obj[k]][TsType[props[k]]]
      <4>1. props[k] \in Subschemas(s)
        BY <3>1 DEF Subschemas, Range
      <4>2. props[k] \in ss \cap Below(s)
        BY <1>2, <3>1, <4>1, InsideKeyword
      <4>3. Valid[props[k]][v.obj[k]]
        BY <2>2, <3>1 DEF ValidMember
      <4> QED
        BY <2>2, <4>2, <4>3
    <3> DEFINE c == [k \in DOMAIN props |-> TsType[props[k]]]
    <3>4. DOMAIN c = DOMAIN props /\ \A k \in DOMAIN v.obj \cap DOMAIN c : Admits[v.obj[k]][c[k]]
      BY <3>3
    <3>5. ObjectType(TsType, s) = Atom([fields |-> c, needed |-> Required(s) \cap DOMAIN props])
      BY <2>4 DEF ObjectType
    <3> HIDE DEF c, props
    <3>6. AdmitsText(Admits, ObjectType(TsType, s), v)
      BY <2>1, <3>2, <3>4, <3>5, AtomsAdmit
    <3> QED
      BY <1>5, <3>6 DEF TsFromType
  <2>5. CASE DOMAIN props = {}
    <3>1. ASSUME HasA(s, "additionalProperties", "obj"), NEW e \in Range(v.obj)
          PROVE  Admits[e][TsType[s.obj["additionalProperties"]]]
      <4>1. s.obj["additionalProperties"] \in Subschemas(s)
        BY <3>1 DEF Subschemas
      <4>2. s.obj["additionalProperties"] \in ss \cap Below(s)
        BY <1>2, <3>1, <4>1, InsideKeyword
      <4>3. PICK k \in DOMAIN v.obj : e = v.obj[k]
        BY <3>1 DEF Range
      <4>4. ~(HasA(s, "properties", "obj") /\ k \in DOMAIN s.obj["properties"].obj)
        BY <2>5 DEF Properties
      <4>5. Valid[s.obj["additionalProperties"]][v.obj[k]]
        BY <2>2, <3>1, <4>4 DEF ValidMember, HasA
      <4> QED
        BY <2>2, <4>2, <4>3, <4>5
    <3>2. AdmitsText(Admits, ObjectType(TsType, s), v)
      <4>1. CASE HasA(s, "additionalProperties", "obj")
        <5>1. ObjectType(TsType, s) = Atom([members |-> TsType[s.obj["additionalProperties"]]])
          BY <2>5, <4>1 DEF ObjectType
        <5> QED
          BY <2>1, <3>1, <4>1, <5>1, AtomsAdmit
      <4>2. CASE ~HasA(s, "additionalProperties", "obj")
        <5>1. \/ ObjectType(TsType, s) = Atom([braces |-> TRUE])
              \/ ObjectType(TsType, s) = Atom([members |-> AnyType])
          BY <2>5, <4>2 DEF ObjectType
        <5> QED
          BY <1>3, <2>1, <2>3, <5>1, AtomsAdmit
      <4> QED
        BY <4>1, <4>2
    <3> QED
      BY <1>5, <3>2 DEF TsFromType
  <2> QED
    BY <2>4, <2>5
<1>6. CASE t = "integer"
  <2>1. TypeMatches(v, "number")
    BY <1>6 DEF TypeMatches
  <2> QED
    BY <1>6, <2>1, AtomsAdmit DEF TsFromType
<1>7. CASE t \notin {"array", "object", "integer"}
  <2>1. TsFromType(TsType, t, s) = Atom([name |-> t])
    BY <1>7 DEF TsFromType
  <2> QED
    BY <2>1, AtomsAdmit
<1> QED
  BY <1>4, <1>5, <1>6, <1>7

(* What a signature that stands for branches admits.                       *)
LEMMA BranchesCover ==
  ASSUME NEW ss \in SUBSET Json, IsTyped(ss), NEW s \in ss,
         \A b \in ss \cap Below(s), x \in Json : Valid[b][x] => Admits[x][TsType[b]],
         NEW v \in Json, Valid[s][v]
  PROVE  /\ HasSome(s, "anyOf") => AdmitsText(Admits, Either(TypesOf(TsType, s.obj["anyOf"].arr)), v)
         /\ HasSome(s, "oneOf") => AdmitsText(Admits, Either(TypesOf(TsType, s.obj["oneOf"].arr)), v)
         /\ HasSome(s, "allOf") => AdmitsText(Admits, EachOf(TypesOf(TsType, s.obj["allOf"].arr)), v)
<1>1. ValidBranches(Valid, s, v)
  BY ValidationDefined DEF ValidAt
<1>2. ASSUME NEW k \in {"anyOf", "oneOf", "allOf"}, HasSome(s, k)
      PROVE  LET ts == TypesOf(TsType, s.obj[k].arr)
             IN  /\ IsSeq(ts) /\ DOMAIN ts = DOMAIN s.obj[k].arr /\ 1 \in DOMAIN ts
                 /\ \A i \in DOMAIN ts : /\ IsText(ts[i])
                                         /\ Valid[s.obj[k].arr[i]][v] => AdmitsText(Admits, ts[i], v)
  <2> DEFINE f == [i \in DOMAIN s.obj[k].arr |-> TsType[s.obj[k].arr[i]]]
             ts == TypesOf(TsType, s.obj[k].arr)
  <2>1. HasA(s, k, "arr") /\ s.obj[k].arr # <<>>
    BY <1>2 DEF HasSome
  <2>2. ts = [i \in DOMAIN s.obj[k].arr |-> f[i]]
    BY DEF TypesOf
  <2>3. IsSeq(ts) /\ DOMAIN ts = DOMAIN s.obj[k].arr /\ 1 \in DOMAIN ts
    <3> HIDE DEF f, ts
    <3> QED
      BY <2>1, <2>2, TypesOfArray
  <2>4. ASSUME NEW i \in DOMAIN s.obj[k].arr
        PROVE  /\ IsText(ts[i])
               /\ Valid[s.obj[k].arr[i]][v] => AdmitsText(Admits, ts[i], v)
    <3> DEFINE b == s.obj[k].arr[i]
    <3>1. ts[i] = TsType[b]
      BY <2>4 DEF TypesOf
    <3>2. b \in Subschemas(s)
      BY <1>2, <2>1, <2>4 DEF Subschemas, Range
    <3>3. b \in ss \cap Below(s) /\ b \in Json
      BY <2>1, <2>4, <3>2, InsideKeyword DEF IsTyped, Below
    <3> HIDE DEF b
    <3>4. IsText(TsType[b]) /\ TsType[b] \in Types
      BY <3>3, SignaturesAreTexts DEF Types
    <3>5. Valid[b][v] => AdmitsText(Admits, TsType[b], v)
      BY <3>3, <3>4, AdmissionDefined
    <3> QED
      BY <3>1, <3>4, <3>5 DEF b
  <2> HIDE DEF f
  <2> QED
    BY <2>3, <2>4
<1>3. ASSUME NEW k \in {"anyOf", "oneOf"}, HasSome(s, k),
             \E i \in DOMAIN s.obj[k].arr : Valid[s.obj[k].arr[i]][v]
      PROVE  AdmitsText(Admits, Either(TypesOf(TsType, s.obj[k].arr)), v)
  <2> DEFINE ts == TypesOf(TsType, s.obj[k].arr)
  <2>1. /\ IsSeq(ts) /\ \A i \in DOMAIN ts : IsText(ts[i])
        /\ \E i \in DOMAIN ts : AdmitsText(Admits, ts[i], v)
    BY <1>2, <1>3
  <2> HIDE DEF ts
  <2>2. AdmitsText(Admits, Either(ts), v)
    BY <2>1, EitherAdmits
  <2> QED
    BY <2>2 DEF ts
<1>4. HasSome(s, "anyOf") => AdmitsText(Admits, Either(TypesOf(TsType, s.obj["anyOf"].arr)), v)
  BY <1>1, <1>3 DEF ValidBranches, HasSome, Range
<1>5. HasSome(s, "oneOf") => AdmitsText(Admits, Either(TypesOf(TsType, s.obj["oneOf"].arr)), v)
  <2> SUFFICES ASSUME HasSome(s, "oneOf")
               PROVE  AdmitsText(Admits, Either(TypesOf(TsType, s.obj["oneOf"].arr)), v)
    OBVIOUS
  <2> DEFINE fitting == {i \in DOMAIN s.obj["oneOf"].arr : Valid[s.obj["oneOf"].arr[i]][v]}
  <2>1. Cardinality(fitting) = 1
    BY <1>1 DEF ValidBranches, HasSome
  <2>2. fitting # {}
    <3> HIDE DEF fitting
    <3> QED
      BY <2>1, FS_EmptySet
  <2> QED
    BY <1>3, <2>2
<1>6. HasSome(s, "allOf") => AdmitsText(Admits, EachOf(TypesOf(TsType, s.obj["allOf"].arr)), v)
  <2> SUFFICES ASSUME HasSome(s, "allOf")
               PROVE  AdmitsText(Admits, EachOf(TypesOf(TsType, s.obj["allOf"].arr)), v)
    OBVIOUS
  <2> DEFINE ts == TypesOf(TsType, s.obj["allOf"].arr)
  <2>1. \A i \in DOMAIN s.obj["allOf"].arr : Valid[s.obj["allOf"].arr[i]][v]
    BY <1>1 DEF ValidBranches, HasSome, Range
  <2>2. /\ IsSeq(ts) /\ 1 \in DOMAIN ts
        /\ \A i \in DOMAIN ts : IsText(ts[i]) /\ AdmitsText(Admits, ts[i], v)
    BY <1>2, <2>1
  <2> HIDE DEF ts
  <2>3. AdmitsText(Admits, EachOf(ts), v)
    BY <2>2, EachOfAdmits
  <2> QED
    BY <2>3 DEF ts
<1> QED
  BY <1>4, <1>5, <1>6

(* What fits a schema is of the type that its signature says.              *)
LEMMA SignatureCoversAll ==
  ASSUME NEW ss \in SUBSET Json, IsTyped(ss), NEW s \in ss, NEW v \in Json, Valid[s][v]
  PROVE  Admits[v][TsType[s]]
<1> DEFINE Covers(t) == \A x \in Json : Valid[t][x] => Admits[x][TsType[t]]
           Reached == {n \in Nat : \A t \in ss : Depth[t] < n => Covers(t)}
<1>1. 0 \in Reached
  BY Depths
<1>2. ASSUME NEW n \in Nat, n \in Reached PROVE n + 1 \in Reached
  <2> SUFFICES ASSUME NEW t \in ss, Depth[t] < n + 1, NEW x \in Json, Valid[t][x]
               PROVE  Admits[x][TsType[t]]
    OBVIOUS
  <2>1. \A b \in ss \cap Below(t), y \in Json : Valid[b][y] => Admits[y][TsType[b]]
    BY <1>2, Depths DEF Below
  <2>2. ValidAlone(t, x)
    BY ValidationDefined DEF ValidAt
  <2>3. \A name : TypeMatches(x, name) => AdmitsText(Admits, TsFromType(TsType, name, t), x)
    BY <2>1, NamedCovers
  <2>4. Has(t, "const") => AdmitsText(Admits, Literal(t.obj["const"]), x)
    BY <2>2, AtomsAdmit DEF ValidAlone
  <2>5. HasSome(t, "enum") =>
          AdmitsText(Admits, Either([i \in DOMAIN t.obj["enum"].arr |-> Literal(t.obj["enum"].arr[i])]), x)
    <3> SUFFICES ASSUME HasSome(t, "enum")
                 PROVE  AdmitsText(Admits, Either([i \in DOMAIN t.obj["enum"].arr |->
                                                     Literal(t.obj["enum"].arr[i])]), x)
      OBVIOUS
    <3> DEFINE f == [i \in DOMAIN t.obj["enum"].arr |-> Literal(t.obj["enum"].arr[i])]
    <3>1. HasA(t, "enum", "arr")
      BY DEF HasSome
    <3>2. f = [i \in DOMAIN t.obj["enum"].arr |-> f[i]] /\ DOMAIN f = DOMAIN t.obj["enum"].arr
      OBVIOUS
    <3>3. \A i \in DOMAIN f : IsText(f[i])
      BY OneAtom DEF Literal
    <3>4. \E i \in DOMAIN f : AdmitsText(Admits, f[i], x)
      BY <2>2, <3>1, AtomsAdmit DEF ValidAlone, Range
    <3> HIDE DEF f
    <3>5. IsSeq(f)
      BY <3>1, <3>2, TypesOfArray
    <3>6. AdmitsText(Admits, Either(f), x)
      BY <3>3, <3>4, <3>5, EitherAdmits
    <3> QED
      BY <3>6 DEF f
  <2>6. HasA(t, "type", "str") => AdmitsText(Admits, TsFromType(TsType, t.obj["type"].str, t), x)
    BY <2>2, <2>3 DEF ValidAlone
  <2>7. HasA(t, "type", "arr") =>
          LET names == t.obj["type"].arr
          IN  AdmitsText(Admits, Either([i \in DOMAIN names |->
                                           IF Is(names[i], "str")
                                           THEN TsFromType(TsType, names[i].str, t) ELSE <<>>]), x)
    <3> SUFFICES ASSUME HasA(t, "type", "arr")
                 PROVE  LET names == t.obj["type"].arr
                        IN  AdmitsText(Admits, Either([i \in DOMAIN names |->
                                                         IF Is(names[i], "str")
                                                         THEN TsFromType(TsType, names[i].str, t)
                                                         ELSE <<>>]), x)
      OBVIOUS
    <3> DEFINE names == t.obj["type"].arr
               f == [i \in DOMAIN names |-> IF Is(names[i], "str")
                                            THEN TsFromType(TsType, names[i].str, t) ELSE <<>>]
    <3>1. PICK name \in Strings(t.obj["type"]) : TypeMatches(x, name)
      BY <2>2 DEF ValidAlone
    <3>2. PICK i \in DOMAIN names : Is(names[i], "str") /\ names[i].str = name
      BY <3>1 DEF Strings, Range
    <3>3. AdmitsText(Admits, f[i], x)
      BY <2>3, <3>1, <3>2
    <3>4. f = [j \in DOMAIN names |-> f[j]] /\ DOMAIN f = DOMAIN names
      OBVIOUS
    <3>5. \A j \in DOMAIN f : IsText(f[j])
      BY NamedTexts, NoText
    <3> HIDE DEF f
    <3>6. IsSeq(f)
      BY <3>4, TypesOfArray
    <3>7. AdmitsText(Admits, Either(f), x)
      BY <3>2, <3>3, <3>4, <3>5, <3>6, EitherAdmits
    <3> QED
      BY <3>7 DEF f
  <2>8. Has(t, "properties") \/ Has(t, "items") => HasA(t, "type", "str") \/ HasA(t, "type", "arr")
    BY DEF IsTyped
  <2>9. /\ HasSome(t, "anyOf") => AdmitsText(Admits, Either(TypesOf(TsType, t.obj["anyOf"].arr)), x)
        /\ HasSome(t, "oneOf") => AdmitsText(Admits, Either(TypesOf(TsType, t.obj["oneOf"].arr)), x)
        /\ HasSome(t, "allOf") => AdmitsText(Admits, EachOf(TypesOf(TsType, t.obj["allOf"].arr)), x)
    BY <2>1, BranchesCover
  <2>10. AdmitsText(Admits, TypeText(TsType, t), x)
    BY <2>4, <2>5, <2>6, <2>7, <2>8, <2>9, AtomsAdmit DEF TypeText
  <2>11. t \in Json /\ TsType[t] = TypeText(TsType, t) /\ TsType[t] \in Types
    BY SignatureDefined DEF Types
  <2> QED
    BY <2>10, <2>11, AdmissionDefined
<1>3. MaxDepth + 1 \in Reached
  <2>1. Nat \subseteq Reached
    <3> HIDE DEF Reached
    <3> QED
      BY <1>1, <1>2, Numbers
  <2> QED
    BY <2>1, Depths
<1>4. Covers(s)
  BY <1>3, Depths
<1> QED
  BY <1>4
-----------------------------------------------------------------------------
(* The invariant: the schema shown, the signature and the verdict are what *)
(* the code makes of the schema and of the arguments.                      *)
SchemasInvariant ==
  /\ schema \in Schemas /\ tier \in Tiers /\ args \in Values
  /\ shown \in {Null, Shown(schema, tier)}
  /\ shown = Null \/ hint = Signature(schema, tier)
  /\ verdict \in {Null, IF tier = "none" THEN [ok |-> args]
                        ELSE Rehydrate(args, schema, tier = "high")}

(* It holds of every session.                                              *)
LEMMA SchemasInvariantHolds == Spec => []SchemasInvariant
<1>1. Init => SchemasInvariant
  BY DEF Init, SchemasInvariant
<1>2. SchemasInvariant /\ [Next]_vars => SchemasInvariant'
  <2> SUFFICES ASSUME SchemasInvariant, [Next]_vars PROVE SchemasInvariant'
    OBVIOUS
  <2>1. CASE List
    BY <2>1 DEF List, SchemasInvariant
  <2>2. CASE Call
    BY <2>2 DEF Call, SchemasInvariant
  <2>3. CASE UNCHANGED vars
    BY <2>3 DEF vars, SchemasInvariant
  <2> QED
    BY <2>1, <2>2, <2>3 DEF Next
<1> QED
  BY <1>1, <1>2, PTL DEF Spec

(* Null is neither a verdict that forwards nor one that rejects.           *)
LEMMA NullIsNoVerdict == ~Is(Null, "ok") /\ Null # Rejected /\ \A v : [ok |-> v] # Rejected
<1>1. DOMAIN Null = {"null"} /\ DOMAIN Rejected = {"error"} /\ \A v : DOMAIN [ok |-> v] = {"ok"}
  BY DEF Null, Rejected
<1> QED
  BY <1>1 DEF Is

(* HostAgrees, for schemas that are plain with all below them: in the safe *)
(* and balanced tiers the schema that the host is shown accepts, as the    *)
(* gateway's validator reads it, what the upstream's own accepts, however  *)
(* deep the schema is and whatever the arguments are.                      *)
THEOREM HostsAgree ==
  ASSUME NEW ss \in SUBSET Json, Schemas \subseteq ss, IsPlain(ss)
  PROVE  Spec => []HostAgrees
<1>1. SchemasInvariant => HostAgrees
  <2> SUFFICES ASSUME SchemasInvariant, shown # Null, tier # "high"
               PROVE  Valid[shown][args] <=> Valid[schema][args]
    BY DEF HostAgrees
  <2>1. schema \in ss /\ args \in Json /\ shown = Shown(schema, tier)
    BY JsonAssumption DEF SchemasInvariant
  <2>2. tier \in {"none", "safe", "balanced"}
    BY TierAssumption DEF SchemasInvariant
  <2>3. shown = schema \/ \E keep \in BOOLEAN : shown = CompactJsonschema[schema][keep]
    BY <2>1, <2>2 DEF Shown
  <2> QED
    BY <2>1, <2>3, CompactionAgrees
<1> QED
  BY <1>1, SchemasInvariantHolds, PTL

(* ForwardedFits, whatever the schemas are: what reaches an upstream fits  *)
(* its schema, and is what the agent sent but for nulls.                   *)
THEOREM ForwardedAlwaysFits == Spec => []ForwardedFits
<1>1. SchemasInvariant => ForwardedFits
  <2> SUFFICES ASSUME SchemasInvariant, Is(verdict, "ok"), tier # "none"
               PROVE  /\ Valid[schema][verdict.ok]
                      /\ IF tier = "high" THEN Trims[args][verdict.ok] ELSE verdict.ok = args
    BY DEF ForwardedFits
  <2> DEFINE normalized == IF tier = "high" THEN StripOptionalNulls[schema][args] ELSE args
  <2>1. verdict = IF Valid[schema][normalized] THEN [ok |-> normalized] ELSE Rejected
    <3>1. verdict = Rehydrate(args, schema, tier = "high")
      BY NullIsNoVerdict DEF SchemasInvariant
    <3> QED
      BY <3>1 DEF Rehydrate
  <2>2. ~Is(Rejected, "ok")
    BY DEF Is, Rejected
  <2>3. Valid[schema][normalized] /\ verdict.ok = normalized
    <3> HIDE DEF normalized
    <3> QED
      BY <2>1, <2>2
  <2>4. schema \in Json /\ args \in Json /\ StripOptionalNulls[schema][args] \in Json
    BY JsonAssumption, ClosedAssumption DEF SchemasInvariant
  <2>5. Trims[args][StripOptionalNulls[schema][args]]
    BY <2>4, StrippingTrims
  <2> QED
    BY <2>3, <2>5
<1> QED
  BY <1>1, SchemasInvariantHolds, PTL

(* NullsAreForgiven, for schemas that list the properties of the objects   *)
(* that they take: a call is rejected in the high tier only if no choice   *)
(* of nulls to leave out makes it fit, and not for nulls that the code     *)
(* overlooked or should have kept.                                         *)
THEOREM NullsAlwaysForgiven ==
  ASSUME NEW ss \in SUBSET Json, Schemas \subseteq ss, IsListed(ss)
  PROVE  Spec => []NullsAreForgiven
<1>1. SchemasInvariant => NullsAreForgiven
  <2> SUFFICES ASSUME SchemasInvariant, tier = "high", verdict = Rejected,
                      NEW w \in Json, Trims[args][w], Valid[schema][w]
               PROVE  FALSE
    BY DEF NullsAreForgiven
  <2>1. schema \in ss /\ args \in Json /\ StripOptionalNulls[schema][args] \in Json
    BY JsonAssumption, ClosedAssumption DEF SchemasInvariant
  <2>2. Valid[schema][StripOptionalNulls[schema][args]]
    BY <2>1, StrippingForgives
  <2>3. verdict = Rehydrate(args, schema, TRUE)
    BY NullIsNoVerdict DEF SchemasInvariant
  <2>4. verdict = [ok |-> StripOptionalNulls[schema][args]]
    BY <2>2, <2>3 DEF Rehydrate
  <2> QED
    BY <2>4, NullIsNoVerdict
<1> QED
  BY <1>1, SchemasInvariantHolds, PTL

(* SignatureCovers, for schemas that are typed with all below them: what   *)
(* fits the schema is of the type that the model reads in its place.       *)
THEOREM SignaturesCover ==
  ASSUME NEW ss \in SUBSET Json, Schemas \subseteq ss, IsTyped(ss)
  PROVE  Spec => []SignatureCovers
<1>1. SchemasInvariant => SignatureCovers
  <2> SUFFICES ASSUME SchemasInvariant, shown # Null, tier = "high", Valid[schema][args]
               PROVE  Admits[args][hint]
    BY DEF SignatureCovers
  <2>1. schema \in ss /\ args \in Json /\ hint = TsType[schema]
    BY JsonAssumption DEF SchemasInvariant, Signature
  <2> QED
    BY <2>1, SignatureCoversAll
<1> QED
  BY <1>1, SchemasInvariantHolds, PTL
=============================================================================
