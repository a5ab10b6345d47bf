----------------------------- MODULE MCSchemas -----------------------------
(* Small instances of Schemas for TLC: schemas of objects with up to two   *)
(* members, one of them possibly an object again, and arguments that fit   *)
(* them, nearly fit them or do not.                                        *)
EXTENDS Schemas, TLC

Typed(t)  == ("type" :> Str(t))
Words(ws) == Arr([i \in DOMAIN ws |-> Str(ws[i])])

(* Metadata that no property name is confused with.                        *)
Meta == ("$schema" :> Str("m")) @@ ("description" :> Str("m")) @@ ("default" :> Null)

Leaves ==
  { Obj(Typed("string") @@ ("minLength" :> Whole(2)) @@ Meta),
    Obj("type" :> Words(<<"integer", "null">>)),
    Obj(Typed("number") @@ ("minimum" :> Float(1)) @@ ("maximum" :> Float(1))),
    Obj("enum" :> Arr(<<Str("a"), Null, Float(2)>>)),
    Obj("const" :> Whole(1)),
    Obj("anyOf" :> Arr(<<Obj(Typed("string") @@ ("maxLength" :> Whole(1))),
                         Obj(Typed("integer") @@ ("minLength" :> Float(1)))>>)),
    Obj("oneOf" :> Arr(<<Obj(Typed("number")), Obj(Typed("integer"))>>)),
    Obj("allOf" :> Arr(<<Obj("anyOf" :> Arr(<<Obj(Typed("string")), Obj(Typed("number"))>>)),
                         Obj(("minimum" :> Whole(1)) @@ ("maxLength" :> Float(2)))>>)),
    Obj(Typed("array") @@ ("items" :> Obj("type" :> Words(<<"string", "null">>)))
          @@ ("minItems" :> Whole(1)) @@ ("maxItems" :> Whole(1))) }

Requireds == {<<>>, <<"p">>, <<"q">>}

Inner ==
  { Obj(Typed("object") @@ Meta @@ ("required" :> Words(req))
        @@ ("properties" :> Obj("p" :> Obj(Typed("string") @@ Meta)))) : req \in {<<>>, <<"p">>} }

Outer(props) ==
  { Obj(Typed("object") @@ Meta @@ ("properties" :> Obj(props))
        @@ ("required" :> Words(req)) @@ more) :
      req \in Requireds,
      more \in {<<>>, "additionalProperties" :> Bool(FALSE),
                "additionalProperties" :> Obj(Typed("string"))} }

PlainSchemas ==
  UNION {Outer("p" :> f) : f \in Leaves \cup Inner}
    \cup UNION {Outer(("p" :> f) @@ ("q" :> g)) : f \in Leaves, g \in Inner}

Atoms ==
  { Null, Str("a"), Str("ab"), Float(1), Float(2), Whole(1), Arr(<<>>), Arr(<<Str("a")>>), Arr(<<Null, Null>>),
    Obj(<<>>), Obj("p" :> Null), Obj("p" :> Str("a")) }

Arguments ==
  {Str("a"), Obj(<<>>)} \cup {Obj("p" :> v) : v \in Atoms}
    \cup {Obj(("p" :> v) @@ ("q" :> w)) : v, w \in Atoms}

(* A tool to open an issue: it has a parameter called title.               *)
TitleSchemas ==
  UNION {Outer("title" :> f) : f \in Leaves}

TitleArguments == {Obj(<<>>)} \cup {Obj("title" :> v) : v \in Atoms}

(* All of JSON that these are about: their parts, what compaction makes of *)
(* them, and the arguments with some of their nulls left out.              *)
RECURSIVE Below(_), DepthOf(_), CompactionOf(_, _), TrimsOf(_)

Below(v) == {v} \cup UNION {Below(p) : p \in Parts(v)}

DepthOf(v) ==
  IF Parts(v) = {} THEN 0 ELSE 1 + Max({DepthOf(p) : p \in Parts(v)})

CompactionOf(s, keep) ==
  Compacted([p \in Parts(s) |-> [k \in BOOLEAN |-> CompactionOf(p, k)]], s, keep)

TrimsOf(v) ==
  IF ~Is(v, "obj") THEN {v}
  ELSE LET Some(k) == TrimsOf(v.obj[k])
           Keys    == {ks \in SUBSET DOMAIN v.obj :
                         \A k \in DOMAIN v.obj \ ks : v.obj[k] = Null}
       IN  UNION {{Obj(f) : f \in {g \in [ks -> UNION {Some(k) : k \in ks}] :
                                     \A k \in ks : g[k] \in Some(k)}} : ks \in Keys}

JsonOf(schemas, arguments) ==
  LET all == UNION {Below(v) : v \in schemas \cup UNION {TrimsOf(v) : v \in arguments}}
  IN  all \cup {CompactionOf(v, keep) : v \in all, keep \in BOOLEAN} \cup {Shortened}

Nesting == [v \in Json |-> DepthOf(v)]

(* Named apart from what the configurations use, so that TLC keeps them.    *)
PlainAll == JsonOf(PlainSchemas, Arguments)
TitleAll == JsonOf(TitleSchemas, TitleArguments)
PlainJson == PlainAll
TitleJson == TitleAll
(* What the theorems ask of schemas is true of these.                      *)
RECURSIVE SchemasIn(_)
SchemasIn(s) == {s} \cup UNION {SchemasIn(b) : b \in Subschemas(s)}

ASSUME TheoremsApply ==
  Schemas = PlainSchemas =>
    LET ss == UNION {SchemasIn(s) : s \in PlainSchemas}
    IN  /\ IsPlain(ss) /\ IsTyped(ss)
        /\ IsListed({s \in ss : HasA(s, "properties", "obj") \/ TakesNoObject(s)})
=============================================================================
