----------------------------- MODULE MCStreamConfig -----------------------------
(***************************************************************************)
(* Stream files that vary in one respect each: the nesting of the tags,    *)
(* the intervals of a stream and of the one it refers to, names, templates *)
(* and directories, and the streams that a stream includes.                *)
(***************************************************************************)
EXTENDS StreamConfig

MCRegistry ==
  [mesh    |-> [direction |-> {"input"}, template |-> "m.nc", vars |-> {"f"}, subs |-> {}],
   restart |-> [direction |-> {"input", "output"}, template |-> "r.nc",
                vars |-> {"g"}, subs |-> {"mesh"}]]

Entry(n) ==
  [immutable |-> FALSE, complete |-> TRUE, name |-> n, type |-> {}, template |-> "a.nc",
   fint |-> <<>>, input |-> <<>>, output |-> <<>>, clobber |-> 0, times |-> FALSE,
   vars |-> {}, file |-> "none", subs |-> {}, unnamed |-> {}]

Mesh == [Entry("mesh") EXCEPT !.immutable = TRUE, !.type = {"input"}, !.template = "m.nc",
                                !.input = <<"initial_only">>]

Tags == [kind : {"open", "close"}, name : {"streams", "stream"}]
        \cup {[kind |-> k, name |-> "stream"] : k \in {"single", "both", "empty"}}
        \cup {[kind |-> k, name |-> "?xml"] : k \in {"declaration", "close"}}
TagsOk == <<[kind |-> "open", name |-> "streams"], [kind |-> "single", name |-> "stream"],
            [kind |-> "close", name |-> "streams"]>>
Types == SUBSET {"input", "output"}
Open3 == <<"open", "open", "open">>

Nestings == [tags : UNION {[1..n -> Tags] : n \in 0..5}, streams : {<<Mesh>>}, dirs : {Open3}]

Refs == {<<"stream", "q">>} \cup
        {<<"stream", s, a>> : s \in {"p", "q", "gone"}, a \in {"input_interval", "output_interval"}}
Written == {<<>>, <<"none">>, <<"initial_only">>, <<"6h">>} \cup Refs

Intervals ==
  [tags : {TagsOk}, dirs : {Open3},
   streams : {<<Mesh,
                [Entry("p") EXCEPT !.type = t, !.fint = f, !.input = i, !.output = o],
                [Entry("q") EXCEPT !.type = {"output"}, !.template = "b.nc",
                                     !.input = qi, !.output = qo]>> :
                t \in Types,
                f \in {<<>>, <<"none">>, <<"6h">>, <<"input_interval">>, <<"output_interval">>},
                i \in Written, o \in Written,
                qi \in {<<>>, <<"12h">>},
                qo \in {<<"final_only">>, <<"12h">>, <<"stream", "p", "input_interval">>}}]

Paths == {<<"open">>, <<"locked">>} \cup
         {p \in [1..3 -> {"absent", "open", "locked"}] :
            p[1] # "absent" /\ (p[2] = "absent" => p[3] = "absent")}

NamesAndFiles ==
  [tags : {TagsOk}, dirs : Paths,
   streams : {<<[Entry(n) EXCEPT !.immutable = im, !.type = t, !.template = tp, !.fint = f,
                                   !.input = <<"none">>, !.output = <<"6h">>, !.clobber = 2,
                                   !.times = x],
                [Entry("q") EXCEPT !.type = {"output"}, !.template = qt, !.output = <<"6h">>,
                                     !.complete = c],
                Mesh>> :
                n \in {"p", "q", "restart"}, im \in BOOLEAN, t \in Types,
                tp \in {"a.nc", "b.nc", "wrong.nc"}, qt \in {"a.nc", "m.nc", "r.nc"},
                f \in {<<>>, <<"none">>}, x \in BOOLEAN, c \in BOOLEAN}]

Includes ==
  [tags : {TagsOk}, dirs : {Open3},
   streams : {<<[Entry("p") EXCEPT !.vars = v, !.subs = s, !.file = fl],
                [Entry(n) EXCEPT !.type = {"output"}, !.template = "b.nc", !.output = <<"none">>,
                                   !.vars = w, !.subs = u],
                IF im THEN [Mesh EXCEPT !.vars = x] ELSE Mesh>> :
                v \in {{}, {"f"}, {"unknown"}}, s \in SUBSET {"p", "q", "restart", "other"},
                fl \in {"none", "there", "gone"}, n \in {"q", "restart"},
                w \in {{}, {"f"}, {"h"}}, u \in SUBSET {"p", "q", "mesh"},
                im \in BOOLEAN, x \in {{}, {"f"}}}]

(* Children without a name, beside others that may be wrong.               *)
Nameless ==
  [tags : {TagsOk}, dirs : {Open3},
   streams : {<<[Entry("p") EXCEPT !.vars = v, !.subs = s, !.file = fl, !.unnamed = x],
                [Entry(n) EXCEPT !.type = {"output"}, !.template = "b.nc", !.output = <<"none">>,
                                   !.vars = w, !.subs = u, !.unnamed = y],
                [Mesh EXCEPT !.unnamed = z]>> :
                v \in {{}, {"f"}, {"unknown"}}, s \in SUBSET {"q", "other"},
                fl \in {"none", "there"}, n \in {"q", "restart"},
                w \in {{}, {"unknown"}}, u \in {{}, {"p"}, {"q", "mesh"}},
                x \in SUBSET {"var", "array", "stream"}, y \in {{}, {"array"}, {"stream"}},
                z \in {{}, {"var"}, {"array"}}}]

MCConfigs == Nestings \cup Intervals \cup NamesAndFiles \cup Includes \cup Nameless
================================================================================
