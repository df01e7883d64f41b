------------------------------ MODULE Template -------------------------------
(***************************************************************************)
(* Templates over a variable pool (flowforge/variables.py): resolving a    *)
(* value as it is walked, and compiling it to a plan that is rendered.     *)
(*                                                                         *)
(* A value is [kind, items]: a "str" is a sequence of pieces (text, blank, *)
(* a stray "{{", references), a "dict" a function of keys, a "list" and a  *)
(* "tuple" sequences; anything else is atomic.  Looking up, resolving and  *)
(* rendering give [ok, value], the value being the reference that raises.  *)
(***************************************************************************)
EXTENDS Integers, Sequences, FiniteSets, SequencesExt

Ok(v) == [ok |-> TRUE, value |-> v]
Error(at) == [ok |-> FALSE, value |-> at]
Val(kind, items) == [kind |-> kind, items |-> items]
Text(p) == [is |-> "text", text |-> p]
Reference(segments, fallback) == [is |-> "ref", segments |-> segments, fallback |-> fallback]
NoFallback == "<none>"
IsRef(p) == p.is = "ref"

-----------------------------------------------------------------------------
(* The pool: a function from namespaces to dicts. *)

\* int(segment) for the segments that are digits, with a sign or without.
Indices == [s \in {"0", "1", "-1", "-2"} |->
               CASE s = "0" -> 0 [] s = "1" -> 1 [] s = "-1" -> -1 [] s = "-2" -> -2]

\* cursor[index]; a negative index counts from the end.
At(items, i) ==
    LET k == IF i < 0 THEN Len(items) + i + 1 ELSE i + 1
    IN  IF k \in 1 .. Len(items) THEN Ok(items[k]) ELSE Error("index")

Step(cursor, segment) ==
    CASE ~cursor.ok -> cursor
      [] cursor.ok /\ cursor.value.kind = "dict" ->
             IF segment \in DOMAIN cursor.value.items THEN Ok(cursor.value.items[segment]) ELSE Error("field")
      [] cursor.ok /\ cursor.value.kind \in {"list", "tuple"} ->
             IF segment \in DOMAIN Indices THEN At(cursor.value.items, Indices[segment]) ELSE Error("index")
      [] OTHER -> Error("atom")

Lookup(pool, segments) ==
    IF segments = <<>> \/ Head(segments) \notin DOMAIN pool THEN Error("namespace")
    ELSE FoldLeft(Step, Ok(pool[Head(segments)]), Tail(segments))

OrFallback(found, ref) ==
    IF found.ok THEN found
    ELSE IF ref.fallback = NoFallback THEN Error(ref) ELSE Ok(Val("str", <<Text(ref.fallback)>>))

\* _stringify: what a value adds to the text around it.
Stringify(v) ==
    CASE v.kind = "str" -> v.items
      [] v.kind = "none" -> <<>>
      [] OTHER -> <<[is |-> "json", text |-> v]>>

Strip(pieces) ==
    LET Blank(p) == ~IsRef(p) /\ p.text = " "
        solid == {i \in DOMAIN pieces : ~Blank(pieces[i])}
        low == CHOOSE i \in solid : \A j \in solid : i <= j
        high == CHOOSE i \in solid : \A j \in solid : j <= i
    IN  IF solid = {} THEN <<>> ELSE SubSeq(pieces, low, high)

IsWhole(pieces) == Len(Strip(pieces)) = 1 /\ IsRef(Strip(pieces)[1])

\* The pieces of several results, or the first that raises.
Joined(results) ==
    FoldLeft(LAMBDA acc, r : IF acc.ok /\ r.ok THEN Ok(acc.value \o r.value)
                             ELSE IF acc.ok THEN r ELSE acc, Ok(<<>>), results)
Collected(kind, results) ==
    LET all == Joined([i \in DOMAIN results |->
                  IF results[i].ok THEN Ok(<<results[i].value>>) ELSE results[i]])
    IN  IF all.ok THEN Ok(Val(kind, all.value)) ELSE all
\* The entries of a dict in their order, which is the same on either way.
Entries(f) == [i \in 1 .. Cardinality(DOMAIN f) |-> SetToSeq(DOMAIN f)[i]]
Mapped(results) ==
    LET all == Joined([i \in DOMAIN Entries(results) |->
                  LET r == results[Entries(results)[i]] IN IF r.ok THEN Ok(<<r.value>>) ELSE r])
    IN  IF all.ok THEN Ok(Val("dict", [k \in DOMAIN results |-> results[k].value])) ELSE all
Stringified(r) == IF r.ok THEN Ok(Stringify(r.value)) ELSE r

-----------------------------------------------------------------------------
(* resolve_uncached. *)

ResolveRef(pool, ref) == OrFallback(Lookup(pool, ref.segments), ref)

ResolveString(pool, pieces) ==
    IF IsWhole(pieces) THEN ResolveRef(pool, Strip(pieces)[1])
    ELSE LET all == Joined([i \in DOMAIN pieces |->
                       IF IsRef(pieces[i]) THEN Stringified(ResolveRef(pool, pieces[i])) ELSE Ok(<<pieces[i]>>)])
         IN  IF all.ok THEN Ok(Val("str", all.value)) ELSE all

RECURSIVE Resolve(_, _)
Resolve(pool, v) ==
    CASE v.kind = "str" -> ResolveString(pool, v.items)
      [] v.kind \in {"list", "tuple"} ->
             Collected(v.kind, [i \in DOMAIN v.items |-> Resolve(pool, v.items[i])])
      [] v.kind = "dict" -> Mapped([k \in DOMAIN v.items |-> Resolve(pool, v.items[k])])
      [] OTHER -> Ok(v)

-----------------------------------------------------------------------------
(* compile_template and Template.render. *)

Static(v) == [plan |-> "static", value |-> v]

\* The references with the text between them, as finditer walks the string.
Run(pieces) == [is |-> "run", pieces |-> pieces]
RECURSIVE PartsFrom(_, _)
PartsFrom(pieces, position) ==
    LET later == {i \in DOMAIN pieces : i >= position /\ IsRef(pieces[i])}
        match == CHOOSE i \in later : \A j \in later : i <= j
        between == SubSeq(pieces, position, match - 1)
    IN  IF later = {} THEN IF position <= Len(pieces) THEN <<Run(SubSeq(pieces, position, Len(pieces)))>> ELSE <<>>
        ELSE (IF between = <<>> THEN <<>> ELSE <<Run(between)>>) \o <<pieces[match]>> \o PartsFrom(pieces, match + 1)

\* (mutant) the text after the last reference is forgotten
PartsNoTail(pieces) ==
    LET parts == PartsFrom(pieces, 1)
    IN  IF parts # <<>> /\ ~IsRef(parts[Len(parts)]) THEN SubSeq(parts, 1, Len(parts) - 1) ELSE parts

Parts(pieces) == PartsFrom(pieces, 1)

CompileString(pieces) ==
    IF \A i \in DOMAIN pieces : ~IsRef(pieces[i]) THEN Static(Val("str", pieces))
    ELSE IF IsWhole(pieces) THEN [plan |-> "reference", ref |-> Strip(pieces)[1]]
    ELSE [plan |-> "interpolation", parts |-> Parts(pieces)]

RECURSIVE Compile(_)
Compile(v) ==
    CASE v.kind = "str" -> CompileString(v.items)
      [] v.kind \in {"list", "tuple", "dict"} ->
             LET plans == [i \in DOMAIN v.items |-> Compile(v.items[i])]
             IN  IF \A i \in DOMAIN plans : plans[i].plan = "static" THEN Static(v)
                 ELSE [plan |-> "container", kind |-> v.kind, items |-> plans]
      [] OTHER -> Static(v)

\* Two segments are the quick way, everything else goes through lookup.
RenderRef(pool, ref) ==
    LET s == ref.segments
    IN  IF Len(s) = 2 /\ s[1] \in DOMAIN pool /\ pool[s[1]].kind = "dict" /\ s[2] \in DOMAIN pool[s[1]].items
        THEN Ok(pool[s[1]].items[s[2]])
        ELSE OrFallback(Lookup(pool, s), ref)

\* A part is a reference or a run of other pieces.
RenderPart(pool, part) ==
    IF IsRef(part) THEN Stringified(RenderRef(pool, part)) ELSE Ok(part.pieces)

\* The static items are placed first, the others rendered in their order.
RECURSIVE Render(_, _)
Render(pool, p) ==
    CASE p.plan = "static" -> Ok(p.value)
      [] p.plan = "reference" -> RenderRef(pool, p.ref)
      [] p.plan = "interpolation" ->
             LET all == Joined([i \in DOMAIN p.parts |-> RenderPart(pool, p.parts[i])])
             IN  IF all.ok THEN Ok(Val("str", all.value)) ELSE all
      [] p.plan = "container" ->
             LET rendered == [i \in DOMAIN p.items |-> Render(pool, p.items[i])]
             IN  IF p.kind = "dict" THEN Mapped(rendered) ELSE Collected(p.kind, rendered)
=============================================================================
