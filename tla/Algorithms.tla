------------------------------ MODULE Algorithms ------------------------------
(***************************************************************************)
(* The pure functions of the engine against what they should compute, over *)
(* every input of small sets: the walks of a graph and the framing of a    *)
(* model's answer step by step, templates and Kafka's record batches in    *)
(* one.  A behaviour picks a task and does it.                             *)
(***************************************************************************)
EXTENDS GraphOrder, Framing, TLC

T == INSTANCE Template
C == INSTANCE Codec

VARIABLES task, output
avars == <<task, output, vars, fvars>>

-----------------------------------------------------------------------------
(* Templates: strings of at most three pieces, alone and in containers.    *)

Str(text) == T!Val("str", <<T!Text(text)>>)
Variables == [a |-> T!Val("dict", [x |-> Str("v"), l |-> T!Val("list", <<Str("v"), T!Val("none", <<>>)>>)]),
         b |-> T!Val("dict", [l |-> T!Val("dict", [x |-> T!Val("number", <<3>>)])])]
Refs == {T!Reference(s, f) : s \in {<<"a", "x">>, <<"a", "y">>, <<"a">>, <<"c", "x">>, <<"a", "l", "-1">>,
                                    <<"a", "l", "2">>, <<"a", "x", "0">>, <<"b", "l", "x">>},
                            f \in {T!NoFallback, "f"}}
PieceSet == {T!Text(t) : t \in {" ", "t", "{{"}} \cup Refs
Strings == {T!Val("str", s) : s \in UNION {[1 .. n -> PieceSet] : n \in 0 .. 2}}
           \cup {T!Val("str", <<p, r, q>>) : p, q \in {T!Text(" "), T!Text("t")}, r \in Refs}
Few == {Str("t"), T!Val("number", <<3>>)} \cup {T!Val("str", <<r>>) : r \in Refs}
Containers == {T!Val(k, <<v, w>>) : k \in {"list", "tuple"}, v, w \in Few}
              \cup {T!Val("dict", [k |-> v, x |-> T!Val("list", <<w>>)]) : v, w \in Few}
Template == \E v \in Strings \cup Containers : task = [of |-> "template", value |-> v]

(* Answers: lines and frames in every piecing, and any three tokens.       *)

Line(v) == <<Tok("data", 0)>> \o Halves(v) \o <<Tok("end", 0)>>
DoneLine == <<Tok("data", 0), Tok("done", 0), Tok("end", 0)>>
Frame(v) == <<Tok("prelude", 4)>> \o Halves(v) \o <<Tok("crc", v)>>
Parts == {Tok("data", 0), Tok("done", 0), Tok("end", 0), Tok("first", 1), Tok("second", 1),
          Tok("prelude", 1), Tok("event", 3), Tok("crc", 1)}
SseBodies == {Line(1) \o <<Tok("comment", 0), Tok("end", 0)>> \o SubSeq(Line(2), 1, 3),
              Line(1) \o DoneLine \o Line(2),
              Line(2) \o <<Tok("data", 0), Tok("first", 1), Tok("end", 0)>>}
FrameBodies == {Frame(1) \o Frame(2), Frame(1) \o [Frame(2) EXCEPT ![4] = Tok("crc", 3)],
                Frame(1) \o <<Tok("prelude", 1), Tok("crc", 1)>>}
SmallBodies ==
    [format : {"sse"}, tokens : SseBodies] \cup [format : {"frames"}, tokens : FrameBodies]
    \cup [format : Formats, tokens : UNION {[1 .. n -> Parts] : n \in 0 .. 3}]

(* Batches of one or two records, and how much of them is fetched.         *)

Records == {[value |-> v, timestamp |-> t, key |-> k, headers |-> h] :
               v \in {<<>>, <<1>>}, t \in {0, 60, 200}, k \in {<<>>, << <<>> >>, << <<1>> >>},
               h \in {<<>>, << << <<1>>, <<>> >> >>}}
Batch ==
    \E r, q \in Records, b \in {0, 100}, m \in {0, 1, 16} :
        task = [of |-> "batch", records |-> <<r, q>>, base |-> b, missing |-> m]

-----------------------------------------------------------------------------

Log(b) == C!Stored(C!EncodeBatch(b.records, b.base), 7) \o C!Stored(C!EncodeBatch(Tail(b.records), b.base), 9)

Compute(t) ==
    CASE t.of = "template" -> T!Render(Variables, T!Compile(t.value))
      [] t.of = "batch" -> C!DecodeBatches(SubSeq(Log(t), 1, Len(Log(t)) - t.missing))

\* A walk or an answer that is not the task stays at one of its beginnings.
NoGraph == edges = {}
NoAnswer == format = "sse" /\ mode = "close" /\ body = <<>>

AInit ==
    /\ output = <<>>
    /\ \/ (Template \/ Batch) /\ NoGraph /\ NoAnswer
       \/ task = [of |-> "graph"] /\ NoAnswer
       \/ task = [of |-> "answer"] /\ NoGraph
    /\ Init
    /\ FInit

Work ==
    /\ task.of \in {"template", "batch"}
    /\ output = <<>>
    /\ output' = <<Compute(task)>>
    /\ UNCHANGED <<task, vars, fvars>>

Walk == task.of = "graph" /\ Next /\ UNCHANGED <<task, output, fvars>>

Follow == task.of = "answer" /\ FNext /\ UNCHANGED <<task, output, vars>>

ASpec == AInit /\ [][Work \/ Walk \/ Follow]_avars

Computed(of) == task.of = of /\ output # <<>>

\* What compiling a value and rendering the plan gives is what walking the
\* value gives, the reference that raises first included (variables.py keeps
\* the second as the oracle of the first).
TemplateAgrees == Computed("template") => output[1] = T!Resolve(Variables, task.value)

\* A fetch gives back the records that were produced, with the offsets the
\* broker gave them and the batch's time where they had none, and nothing of a
\* last batch of which a part is missing.
BatchesSurvive ==
    Computed("batch") =>
        LET At(r, offset, batch) ==
                [value |-> r.value, key |-> r.key, headers |-> r.headers, offset |-> offset,
                 timestamp |-> IF r.timestamp = 0 THEN C!FirstStamp(batch, task.base) ELSE r.timestamp]
            r1 == task.records[1]
            r2 == task.records[2]
            first == <<At(r1, 7, task.records), At(r2, 8, task.records)>>
        IN  output[1] = IF task.missing = 0 THEN Append(first, At(r2, 9, <<r2>>)) ELSE first
=============================================================================
