---------------------------- MODULE MCHealthValues ----------------------------
(***************************************************************************)
(* TLC instance: what revisions answer, and the JSON values that the health*)
(* reader is compared on with the reading by levels.                       *)
(***************************************************************************)
EXTENDS Naturals

Text(words)  == [t |-> "str",  v |-> words]
Logical(b)   == [t |-> "bool", v |-> b]
Object(prs)  == [t |-> "obj",  v |-> prs]
List(items)  == [t |-> "list", v |-> items]

Number(n)    == [t |-> "num",  v |-> n]

Scalars ==
  {Logical(TRUE), Logical(FALSE), Number(1), [t |-> "null", v |-> 0],
   Text(<<"ok">>), Text(<<"failed">>), Text(<<"false">>),
   Text(<<"no", "failure">>), Text(<<"not", "yet", "ready">>), Text(<<"x">>)}

Sentinel == "__scf_conflicting_health_keys__"

FieldNames == {"status", "healthy", "db"}

One(k, v)       == Object(<< <<k, v>> >>)
Two(k, v, l, w) == Object(<< <<k, v>>, <<l, w>> >>)

Flat == {Object(<<>>), List(<<>>)}
        \cup {List(<<v>>) : v \in Scalars}
        \cup {One(k, v) : k \in FieldNames, v \in Scalars}
        \cup {Two(k, v, l, w) : k \in FieldNames, l \in FieldNames,
                                v \in Scalars, w \in Scalars}

Nested == {Two(k, v, "status", Logical(TRUE)) : k \in {"db", "healthy"}, v \in Flat}
          \cup {List(<<v>>) : v \in Flat}

Deep == {One(k, One("db", v)) : k \in {"db", "healthy"},
                                v \in {List(<<w>>) : w \in Scalars}
                                      \cup {One("status", w) : w \in Scalars}}

(* One key with two values that Python finds equal or not: a boolean and   *)
(* its number deeper down, pairs in another order, a repeated key inside   *)
(* one of them; and a third value between two that are the same.           *)
Alike ==
  {One("ok", Logical(TRUE)), One("ok", Number(1)), List(<<Logical(TRUE)>>),
   List(<<Number(1)>>),
   Two("ok", Logical(TRUE), "db", Text(<<"x">>)),
   Two("db", Text(<<"x">>), "ok", Number(1)),
   Two("ok", Logical(FALSE), "ok", Logical(TRUE))}

Repeated == {Two(k, v, k, w) : k \in {"healthy", "db"}, v \in Alike, w \in Alike}
            \cup {Object(<< <<"healthy", v>>, <<"healthy", w>>, <<"healthy", v>> >>) :
                    v \in Scalars, w \in {Logical(TRUE), Text(<<"ok">>)}}

(* The parser's own note in a body: alone, with a claim of health, twice,  *)
(* and beside keys that disagree.                                          *)
Notes == {Number(1), List(<<>>), List(<<Text(<<"healthy">>)>>), List(<<Text(<<"db">>)>>)}

Noted ==
  {Two(Sentinel, note, "ok", Logical(TRUE)) : note \in Notes}
  \cup {Object(<< <<Sentinel, note>>, <<k, v>>, <<k, w>>, <<"ok", Logical(TRUE)>> >>) :
          note \in Notes, k \in {"db", "healthy", Sentinel},
          v \in Notes, w \in Notes}

(* A healthy application, in text and in JSON; what a failing one answers: *)
(* status 503, a body that says so, a component that does, a proxy's page. *)
MCWellBodies ==
  {[form |-> "text", text |-> <<"ready">>],
   [form |-> "json", value |->
      Object(<< <<"status", Text(<<"ok">>)>>,
                <<"db", Object(<< <<"healthy", Logical(TRUE)>> >>)>> >>)]}

MCSickBodies ==
  {[form |-> "text", text |-> <<"not", "yet", "ready">>],
   [form |-> "json", value |->
      Object(<< <<"status", Text(<<"ok">>)>>,
                <<"db", Object(<< <<"healthy", Logical(FALSE)>> >>)>> >>)],
   [form |-> "text", text |-> <<"x">>]}

------------------------------------------------------------------

(* Every value inside one of these is one of them.                         *)
Inside(value) ==
  CASE value.t = "obj"  -> {value.v[i][2] : i \in DOMAIN value.v}
    [] value.t = "list" -> {value.v[i] : i \in DOMAIN value.v}
    [] value.t \in {"bool", "str", "num", "null"} -> {}

Answered == {body.value : body \in {b \in MCWellBodies \cup MCSickBodies :
                                      b.form = "json"}}

Outer  == Flat \cup Nested \cup Deep \cup Repeated \cup Noted \cup Answered
Inner  == UNION {Inside(value) : value \in Outer \ Flat}
Within == UNION {Inside(value) : value \in Inner}

ValuesCompared == Scalars \cup Outer \cup Inner \cup Within

MCJsonValues == ValuesCompared
=============================================================================
