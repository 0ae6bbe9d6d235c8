------------------------------ MODULE StreamConfig ------------------------------
(***************************************************************************)
(* How the streams of a core come to be: the ones of its Registry are      *)
(* created by generated code, and then the stream file is read by          *)
(* xml_stream_parser.c, whose calls change the list of the stream manager. *)
(* The file is checked once (syntax, attributes, uniqueness) while the     *)
(* mesh stream is looked up, and parsed, without these checks, later on.   *)
(*                                                                         *)
(* An interval is a tuple of words: <<>> when the attribute is absent,     *)
(* <<"none">>, <<"initial_only">>, <<"final_only">>, <<t>> for a time t,   *)
(* <<"stream", s, a>> for a reference "stream:s:a" to attribute a of       *)
(* stream s, <<"stream", s>> for one that lacks its second colon, and, in  *)
(* filename_interval, <<a>>.  A search for a word in the text of an        *)
(* interval looks for it in the tuple.                                     *)
(***************************************************************************)
EXTENDS Naturals, Sequences, FiniteSets, SequencesExt

CONSTANTS
  Registry,      (* the immutable streams of Registry.xml: their direction, *)
                 (* template, own fields (vars) and included streams (subs) *)
  Fields,        (* the fields that exist                                   *)
  FieldFile,     (* the fields a <file> lists                               *)
  Templates,     (* filename templates whose variables are all legal        *)
  Times,         (* the words that denote a time interval                   *)
  MeshStream,    (* the stream that the mesh is read from                   *)
  Configs        (* what may be found at the start: [tags, streams, dirs]   *)

ASSUME RegistryAssumption ==
  /\ MeshStream \in DOMAIN Registry
  /\ FieldFile \subseteq Fields
  /\ \A n \in DOMAIN Registry :
       Registry[n] \in [direction : SUBSET {"input", "output"}, template : STRING,
                       vars : SUBSET Fields, subs : SUBSET DOMAIN Registry]

(* The words that are looked for in an interval.                           *)
Words == {"none", "initial_only", "final_only", "input_interval", "output_interval",
          "stream", "bad"}

(* A stream that is referred to has no such word for a name: the search    *)
(* would find it in the reference.                                         *)
Interval == {<<>>, <<"none">>, <<"initial_only">>, <<"final_only">>}
            \cup {<<t>> : t \in Times}
            \cup {"stream"} \X (STRING \ Words)
            \cup {"stream"} \X (STRING \ Words) \X STRING

(* What a file says of a stream.  Its vars are the names in its <var>s,    *)
(* and in the <var_array>s and <var_struct>s of a mutable one; its subs    *)
(* those in the <stream>s inside it; unnamed are the kinds of these        *)
(* children ("array" for the middle two) of which one has no name.  Its    *)
(* file is "none", or "there", or "gone" when the file of field names that *)
(* it mentions has no name or cannot be opened.                            *)
Element ==
  [immutable : BOOLEAN, complete : BOOLEAN, times : BOOLEAN, name : STRING,
   type : SUBSET {"input", "output"}, template : STRING, clobber : 0..3,
   input : Interval, output : Interval,
   fint : {<<>>} \cup {<<w>> : w \in Times \cup {"none", "input_interval", "output_interval"}},
   vars : SUBSET STRING, subs : SUBSET STRING, unnamed : SUBSET {"var", "array", "stream"},
   file : {"none", "there", "gone"}]

(* A tag without the comments, which are skipped.  Those that XML knows    *)
(* and a stream file consists of, and what else the check may meet: the    *)
(* declaration <?xml ... ?>, a tag </x/> that begins and ends with a       *)
(* slash, and the empty tag <>.                                            *)
Tag    == [kind : {"open", "close", "single"}, name : STRING]
AnyTag == [kind : {"open", "close", "single", "declaration", "both", "empty"}, name : STRING]

(* The directories are those from the root of the template's path, which   *)
(* is there, to the one of the files.                                      *)
ASSUME ConfigAssumption ==
  /\ Times \cap Words = {}
  /\ \A c \in Configs :
       /\ c.tags \in Seq(AnyTag)
       /\ c.streams \in Seq(Element)
       /\ c.dirs \in Seq({"absent", "open", "locked"})
       /\ c.dirs # <<>> /\ c.dirs[1] # "absent"

VARIABLES
  config,   (* the stream file, and the directories above its output files  *)
  dirs,     (* these directories now, from the root (an existing one) on    *)
  phase,    (* what the program does next                                   *)
  at,       (* the stream element it is at                                  *)
  mgr       (* the stream manager's list: name -> stream                    *)

vars == <<config, dirs, phase, at, mgr>>

Phases == {"check", "mesh", "setup", "create", "alarms", "fields",
           "accepted", "failed", "crashed"}

Absent == <<>>
Bad    == <<"bad">>
No     == <<"none">>

Mentions(text, word) == \E k \in DOMAIN text : text[k] = word

(* Neither initial_only nor final_only nor none occurs in the text.        *)
Plain(text) == \A w \in {"initial_only", "final_only", "none"} : ~Mentions(text, w)

(* The elements in the order in which the parser handles them: those of    *)
(* one kind, in the order of the file, then those of the other.            *)
OfKind(file, immutable) ==
  LET Upto[k \in 0..Len(file)] ==
        IF k = 0 THEN <<>>
        ELSE IF file[k].immutable = immutable THEN Append(Upto[k-1], file[k])
        ELSE Upto[k-1]
  IN  Upto[Len(file)]

ParseOrder(file) == OfKind(file, TRUE) \o OfKind(file, FALSE)

Named(file, n) == {k \in DOMAIN file : file[k].name = n}

-----------------------------------------------------------------------------
(* Checks *)

(* What is left of the tags: the names on the stack, and what came of it.  *)
NoTags == [open |-> <<>>, verdict |-> "fine"]

(* Mutant: closing tags of any name are accepted.                          *)
NestAnyName(left, tag) ==
  CASE left.verdict = "fine" /\ tag.kind \in {"open", "declaration"} ->
         [left EXCEPT !.open = <<tag.name>> \o @]
    [] left.verdict = "fine" /\ tag.kind = "close" ->
         IF left.open = <<>> THEN [left EXCEPT !.verdict = "crash"]
                             ELSE [left EXCEPT !.open = Tail(@)]
    [] OTHER -> left

(* One tag: what neither begins nor ends with a slash, the declaration     *)
(* too, is pushed as an opening tag, and a closing tag has to name the one *)
(* it pops; with nothing on the stack, the null node is dereferenced.  The *)
(* others change nothing.                                                  *)
Nest(left, tag) ==
  CASE left.verdict = "fine" /\ tag.kind \in {"open", "declaration"} ->
         [left EXCEPT !.open = <<tag.name>> \o @]
    [] left.verdict = "fine" /\ tag.kind = "close" ->
         IF left.open = <<>> THEN [left EXCEPT !.verdict = "crash"]
         ELSE IF Head(left.open) # tag.name THEN [left EXCEPT !.verdict = "mismatch"]
         ELSE [left EXCEPT !.open = Tail(@)]
    [] OTHER -> left

Nesting(tags) ==
  LET After[k \in 0..Len(tags)] ==
        IF k = 0 THEN NoTags ELSE Nest(After[k-1], tags[k])
  IN  After[Len(tags)]

(* The tags that are looked at: an empty one ends the scan.                *)
Scanned(tags) ==
  LET empty == SelectInSeq(tags, LAMBDA tag : tag.kind = "empty")
  IN  IF empty = 0 THEN tags ELSE SubSeq(tags, 1, empty - 1)

(* Mutant: an attribute that filename_interval refers to may be missing.   *)
AttributesTrusted(e) ==
  /\ e.complete
  /\ "input" \in e.type => e.input # Absent
  /\ "output" \in e.type => e.output # Absent
  /\ e.template \in Templates

(* name, type and filename_template are there; so is an interval for each  *)
(* direction and for what filename_interval refers to, which happens more  *)
(* than once; and the template has no unknown variable.                    *)
AttributesOk(e) ==
  LET Refers(a, iv) == /\ iv # Absent
                       /\ ~Mentions(iv, "initial_only") /\ ~Mentions(iv, "final_only")
  IN  /\ e.complete
      /\ "input" \in e.type => e.input # Absent
      /\ "output" \in e.type => e.output # Absent
      /\ Mentions(e.fint, "input_interval") => Refers("input", e.input)
      /\ Mentions(e.fint, "output_interval") => Refers("output", e.output)
      /\ e.template \in Templates

(* Two streams differ in name and, if one is for output, in template.      *)
Unique(e, f) ==
  /\ e.name # f.name
  /\ "output" \in e.type \cup f.type => e.template # f.template

(* An immutable stream has neither <var> nor <file>.                       *)
OnlyAttributes(e) == e.vars = {} /\ "var" \notin e.unnamed /\ e.file = "none"

(* Mutant: streams of different kinds are not compared with each other.    *)
StreamsOkApart(file) ==
  /\ \A k \in DOMAIN file : AttributesOk(file[k])
  /\ \A k \in DOMAIN file :
       IF file[k].immutable THEN OnlyAttributes(file[k]) ELSE file[k].file # "gone"
  /\ \A k, l \in DOMAIN file :
       k # l /\ file[k].immutable = file[l].immutable => Unique(file[k], file[l])

(* Immutable streams have no fields of their own in the file, and a file   *)
(* of field names can be opened.                                           *)
StreamsOk(file) ==
  /\ \A k \in DOMAIN file : AttributesOk(file[k])
  /\ \A k \in DOMAIN file :
       IF file[k].immutable THEN OnlyAttributes(file[k]) ELSE file[k].file # "gone"
  /\ \A k, l \in DOMAIN file : k # l => Unique(file[k], file[l])

-----------------------------------------------------------------------------
(* Intervals *)

(* A reference without its second colon: its index is -1 when the name of  *)
(* the stream is cut off there (xml_stream_parser.c:965).                  *)
Stray(iv) == Len(iv) = 2

(* extract_stream_interval: a reference is replaced by what it refers to,  *)
(* unless this is itself to be expanded, or nothing.  Without a second     *)
(* colon, what is referred to is "", which is refused, too.                *)
Extract(iv, attr, e, file) ==
  IF Stray(iv) THEN Bad
  ELSE IF ~(Len(iv) = 3 /\ iv[1] = "stream") THEN iv
  ELSE LET other == Named(file, iv[2])
           value == LET o == file[CHOOSE k \in other : TRUE]
                    IN  IF iv[3] = "input_interval" THEN o.input ELSE o.output
       IN  IF \/ iv[2] = e.name /\ iv[3] = attr
              \/ iv[3] \notin {"input_interval", "output_interval"}
              \/ other = {}
           THEN Bad
           ELSE IF \/ value = Absent
                   \/ value \in {<<"input_interval">>, <<"output_interval">>}
                   \/ value[1] = "stream"
                THEN Bad ELSE value

InputOf(e, file)  == Extract(e.input, "input_interval", e, file)
OutputOf(e, file) == Extract(e.output, "output_interval", e, file)

(* The interval that determines the file name of a record.  What is looked *)
(* at is the interval as it was written; what is taken is its expansion.   *)
FileInterval(e, file) ==
  LET input  == IF Plain(e.input) THEN InputOf(e, file) ELSE No
      output == IF Plain(e.output) THEN OutputOf(e, file) ELSE No
      reads  == "input" \in e.type /\ (Plain(e.input) \/ "output" \notin e.type)
  IN  CASE e.fint = Absent /\ reads -> input
        [] e.fint = Absent /\ ~reads -> IF "output" \in e.type THEN output ELSE No
        [] Mentions(e.fint, "input_interval") -> input
        [] Mentions(e.fint, "output_interval") /\ ~Mentions(e.fint, "input_interval") -> output
        [] OTHER -> e.fint

(* The input interval is expanded first, and ends the program if it is     *)
(* refused.                                                                *)
WritesAstray(e, in) == Stray(e.input) \/ (in # Bad /\ Stray(e.output))

(* The parser passes a missing attribute of the stream to a function on    *)
(* strings.                                                                *)
ReadsMissing(e) ==
  \/ ~e.complete
  \/ "input" \in e.type /\ e.input = Absent
  \/ "output" \in e.type /\ e.output = Absent
  \/ Mentions(e.fint, "input_interval") /\ e.input = Absent
  \/ ~Mentions(e.fint, "input_interval") /\ Mentions(e.fint, "output_interval") /\ e.output = Absent

-----------------------------------------------------------------------------
(* Directories *)

(* Mutant: a directory that is there is taken to be writable.              *)
BuildPathUnseen(path) ==
  [ok |-> TRUE, dirs |-> [k \in DOMAIN path |-> IF path[k] = "absent" THEN "open" ELSE path[k]]]

(* build_stream_path, on the directories above the file.  Only the last    *)
(* one has to be writable; the parent of one that cannot be made counts as *)
(* writable as long as nothing else is known of it: that of the first one  *)
(* is never looked at.                                                     *)
BuildPath(path) ==
  LET n == Len(path)
      (* path[1] is the directory that the template starts from           *)
      Walk[k \in 1..n] ==
        IF k = 1 THEN [dirs |-> path, writable |-> TRUE, ok |-> TRUE]
        ELSE LET w == Walk[k-1]
             IN  CASE ~w.ok -> w
                   [] w.ok /\ w.dirs[k] # "absent" ->
                        [w EXCEPT !.writable = (w.dirs[k] = "open"),
                                  !.ok = (k < n \/ w.dirs[k] = "open")]
                   [] w.ok /\ w.dirs[k] = "absent" /\ w.dirs[k-1] = "open" ->
                        [w EXCEPT !.dirs[k] = "open"]
                   [] OTHER -> [w EXCEPT !.ok = w.writable]
  IN  [ok |-> Walk[n].ok, dirs |-> Walk[n].dirs]

-----------------------------------------------------------------------------
(* The stream manager *)

Stream(immutable, direction, template, clobber, fields) ==
  [immutable |-> immutable, direction |-> direction, template |-> template,
   clobber |-> clobber, fint |-> No, active |-> TRUE,
   alarms |-> [input |-> No, output |-> No], fields |-> fields]

(* setup_immutable_streams, as the Registry generates it                   *)
FromRegistry ==
  [n \in DOMAIN Registry |->
     Stream(TRUE, Registry[n].direction, Registry[n].template, 0,
            Registry[n].vars \cup UNION {Registry[s].vars : s \in Registry[n].subs})]

(* stream_mgr_create_stream_c: what becomes of the list ...                *)
Created(m, e, fint) ==
  LET n == e.name
      base == IF e.immutable THEN [m EXCEPT ![n].template = e.template, ![n].clobber = e.clobber]
              ELSE IF n \in DOMAIN m THEN m
              ELSE [x \in DOMAIN m \cup {n} |->
                      IF x # n THEN m[x]
                      ELSE Stream(FALSE, e.type, e.template, e.clobber, {})]
  IN  [base EXCEPT ![n].fint = IF fint = No THEN @ ELSE fint,
                   ![n].active = (@ /\ e.type # {})]

(* ... and its error: every property that is set afterwards, successfully, *)
(* replaces the error of the creation.                                     *)
SetsMore(e, fint) == e.times \/ fint # No \/ e.type = {}

CreateFails(m, e, fint) ==
  IF e.immutable THEN e.name \notin DOMAIN m
                 ELSE e.name \in DOMAIN m /\ ~SetsMore(e, fint)

(* stream_mgr_add_alarm_c: 'none' adds nothing; the direction has to be    *)
(* one of the stream in the list.                                          *)
AlarmFails(m, e, d, iv) ==
  d \in e.type /\ iv # No /\ d \notin m[e.name].direction

Alarmed(m, e, in, out) ==
  [m EXCEPT ![e.name].alarms =
     [input  |-> IF "input" \in e.type /\ in # No THEN in ELSE @.input,
      output |-> IF "output" \in e.type /\ out # No THEN out ELSE @.output]]

(* A stream that is included is looked for in the file when the call that  *)
(* should add an immutable stream fails: it is not in the list, or it is   *)
(* to be added to an immutable stream.                                     *)
FromFile(m, e, n) == n \notin DOMAIN m \/ (m[n].immutable /\ m[e.name].immutable)

(* Mutant: only what is in the list is included.                           *)
IncludedFromListOnly(m, e, n, file) ==
  IF ~FromFile(m, e, n) /\ m[n].immutable THEN m[n].fields ELSE {}

(* The fields that it brings: from its element in the file, or from the    *)
(* list when it is immutable there; and none when it is there and mutable: *)
(* the call adds nothing, and reports a success.                           *)
Included(m, e, n, file) ==
  IF FromFile(m, e, n)
  THEN UNION {file[k].vars : k \in {j \in Named(file, n) : ~file[j].immutable}}
  ELSE IF m[n].immutable THEN m[n].fields ELSE {}

FileFields(e) == IF e.file = "none" THEN {} ELSE FieldFile

IncludedFields(m, e, file) == UNION {Included(m, e, n, file) : n \in e.subs}

FieldsOf(m, e, file) == FileFields(e) \cup e.vars \cup IncludedFields(m, e, file)

UnnamedField(e) == e.unnamed \cap {"var", "array"} # {}

(* The groups of children in the order in which they are gone through: the *)
(* fields each one adds, and whether a name is missing in it, which is     *)
(* handed on as a null pointer.                                            *)
Groups(m, e, file) ==
  <<[adds |-> FileFields(e), unnamed |-> FALSE],
    [adds |-> e.vars, unnamed |-> UnnamedField(e)],
    [adds |-> IncludedFields(m, e, file),
     unnamed |-> \/ "stream" \in e.unnamed
                 \/ \E f \in ToSet(file) : /\ ~f.immutable /\ f.name \in e.subs
                                           /\ FromFile(m, e, f.name)
                                           /\ UnnamedField(f)]>>

(* A field that does not exist, or that is added to an immutable stream.   *)
Refused(m, e, fields) == ~(fields \subseteq Fields) \/ (m[e.name].immutable /\ fields # {})

-----------------------------------------------------------------------------
(* The program *)

Init ==
  /\ config \in Configs
  /\ dirs = config.dirs
  /\ phase = "check"
  /\ at = 0
  /\ mgr = <<>>

(* xml_syntax_check, then check_streams                                    *)
Check ==
  LET left == Nesting(Scanned(config.tags))
  IN  /\ phase = "check"
      /\ phase' = IF left.verdict = "crash" THEN "crashed"
                  ELSE IF left = NoTags /\ StreamsOk(config.streams) THEN "mesh" ELSE "failed"
      /\ UNCHANGED <<config, dirs, at, mgr>>

(* xml_stream_get_attributes: the mesh stream has to be in the file.       *)
FindMesh ==
  /\ phase = "mesh"
  /\ phase' = IF \E k \in Named(config.streams, MeshStream) : config.streams[k].immutable
              THEN "setup" ELSE "failed"
  /\ UNCHANGED <<config, dirs, at, mgr>>

SetUpImmutable ==
  /\ phase = "setup"
  /\ mgr' = FromRegistry
  /\ at' = 1
  /\ phase' = "create"
  /\ UNCHANGED <<config, dirs>>

Order == ParseOrder(config.streams)
Here  == Order[at]

Create ==
  LET e     == Here
      in    == InputOf(e, config.streams)
      out   == OutputOf(e, config.streams)
      fint  == FileInterval(e, config.streams)
      built == IF "output" \in e.type THEN BuildPath(dirs) ELSE [ok |-> TRUE, dirs |-> dirs]
  IN  /\ phase = "create"
      /\ at <= Len(Order)
      /\ IF Bad \in {in, out}
         THEN /\ phase' \in {"failed"} \cup (IF WritesAstray(e, in) THEN {"crashed"} ELSE {})
              /\ UNCHANGED <<dirs, mgr>>
         ELSE IF ReadsMissing(e)
         THEN phase' = "crashed" /\ UNCHANGED <<dirs, mgr>>
         ELSE /\ dirs' = built.dirs
              /\ IF ~built.ok \/ (e.immutable /\ CreateFails(mgr, e, fint))
                 THEN phase' = "failed" /\ UNCHANGED mgr
                 ELSE /\ mgr' = Created(mgr, e, fint)
                      /\ phase' = IF CreateFails(mgr, e, fint) THEN "failed" ELSE "alarms"
      /\ UNCHANGED <<config, at>>

AddAlarms ==
  LET e   == Here
      in  == InputOf(e, config.streams)
      out == OutputOf(e, config.streams)
  IN  /\ phase = "alarms"
      /\ IF AlarmFails(mgr, e, "input", in) \/ AlarmFails(mgr, e, "output", out)
         THEN phase' = "failed" /\ UNCHANGED <<at, mgr>>
         ELSE /\ mgr' = Alarmed(mgr, e, in, out)
              /\ phase' = IF e.immutable THEN "create" ELSE "fields"
              /\ at' = IF e.immutable THEN at + 1 ELSE at
      /\ UNCHANGED <<config, dirs>>

(* The children of a mutable stream.  The first group in which something   *)
(* is wrong ends the program: it fails on a field that is refused, and     *)
(* crashes on a missing name, whichever of the two comes first in it.      *)
AddFields ==
  LET e      == Here
      groups == Groups(mgr, e, config.streams)
      wrong(k)   == Refused(mgr, e, groups[k].adds) \/ (k = 1 /\ e.file = "gone")
      reached(k) == \A j \in 1..k-1 : ~wrong(j) /\ ~groups[j].unnamed
  IN  /\ phase = "fields"
      /\ \/ /\ \E k \in 1..3 : reached(k) /\ wrong(k)
            /\ phase' = "failed"
            /\ UNCHANGED <<at, mgr>>
         \/ /\ \E k \in 1..3 : reached(k) /\ groups[k].unnamed
            /\ phase' = "crashed"
            /\ UNCHANGED <<at, mgr>>
         \/ /\ reached(4)
            /\ mgr' = [mgr EXCEPT ![e.name].fields = @ \cup FieldsOf(mgr, e, config.streams)]
            /\ phase' = "create"
            /\ at' = at + 1
      /\ UNCHANGED <<config, dirs>>

Accept ==
  /\ phase = "create"
  /\ at > Len(Order)
  /\ phase' = "accepted"
  /\ UNCHANGED <<config, dirs, at, mgr>>

Next ==
  \/ Check \/ FindMesh \/ SetUpImmutable
  \/ Create \/ AddAlarms \/ AddFields \/ Accept

Spec == Init /\ [][Next]_vars

-----------------------------------------------------------------------------
(* Properties *)

(* The names of tags that may stand between an opening tag and the one     *)
(* that closes it: nothing, an element, or several, by the definition of   *)
(* well-formed XML (and not with a stack).                                 *)
Balanced[tags \in Seq(Tag)] ==
  \/ tags = <<>>
  \/ /\ tags[1].kind = "single"
     /\ Balanced[Tail(tags)]
  \/ /\ tags[1].kind = "open"
     /\ \E k \in 2..Len(tags) :
          /\ tags[k] = [kind |-> "close", name |-> tags[1].name]
          /\ Balanced[SubSeq(tags, 2, k-1)]
          /\ Balanced[SubSeq(tags, k+1, Len(tags))]

(* Of tags that XML knows, a file is parsed only if those that are looked  *)
(* at are balanced, and it is refused for its tags only if they are not    *)
(* (xml_syntax_check).  Nothing is said of a file with a declaration,      *)
(* which is refused although it is well-formed, of </x/>, which passes,    *)
(* and of what comes after an empty tag, which is not looked at.           *)
NestingIsBalance ==
  LET tags == config.tags
      seen == Scanned(tags)
  IN  /\ phase \in Phases \ {"check", "failed", "crashed"} /\ seen \in Seq(Tag) => Balanced[seen]
      /\ phase = "failed" /\ at = 0 /\ tags \in Seq(Tag) /\ Balanced[tags] =>
           \/ ~StreamsOk(config.streams)
           \/ MeshStream \notin {config.streams[k].name : k \in
                {j \in DOMAIN config.streams : config.streams[j].immutable}}

(* The parser repeats none of the checks, and what they let through is     *)
(* enough for it as far as the attributes of the streams go: none that it  *)
(* reads is missing.  It crashes only on what nothing checks: a closing    *)
(* tag where nothing is open (xml_stream_parser.c:733), a reference        *)
(* without its second colon (965), and a child without a name, of the      *)
(* stream or of one that it includes (1749-1817).                          *)
AttributesAreThere ==
  phase = "crashed" =>
    IF at = 0
    THEN LET seen == Scanned(config.tags)
             before(k) == SubSeq(seen, 1, k-1)
         IN  \E k \in DOMAIN seen :
               seen[k].kind = "close" /\ (before(k) \in Seq(Tag) => Balanced[before(k)])
    ELSE \/ Stray(Here.input) \/ Stray(Here.output)
         \/ /\ ~Here.immutable
            /\ \/ Here.unnamed # {}
               \/ \E f \in ToSet(config.streams) : f.name \in Here.subs /\ UnnamedField(f)

(* The name of an immutable stream of the Registry in a <stream> element.  *)
Shadows(e) == ~e.immutable /\ e.name \in DOMAIN Registry

(* What a written interval stands for.                                     *)
Value(iv, file) ==
  IF ~(Len(iv) = 3) THEN iv
  ELSE LET o == CHOOSE f \in ToSet(file) : f.name = iv[2]
       IN  IF iv[3] = "input_interval" THEN o.input ELSE o.output

IsTime(iv) == Len(iv) = 1 /\ iv[1] \in Times

(* The file interval, as the comment at xml_stream_parser.c:1137 has it.   *)
WantedInterval(e, file) ==
  LET Or(iv, other) == IF IsTime(Value(iv, file)) THEN Value(iv, file) ELSE other
  IN  CASE e.fint = Absent /\ e.type = {"input", "output"} -> Or(e.input, Or(e.output, No))
        [] e.fint = Absent /\ e.type = {"input"}  -> Or(e.input, No)
        [] e.fint = Absent /\ e.type = {"output"} -> Or(e.output, No)
        [] e.fint = Absent /\ e.type = {}         -> No
        [] Mentions(e.fint, "input_interval")     -> Or(e.input, No)
        [] Mentions(e.fint, "output_interval")    -> Or(e.output, No)
        [] OTHER -> e.fint

(* What a stream borrows from another one, where it is not a time: this is *)
(* not noticed, and "initial_only", say, becomes the file interval.        *)
BorrowedNoTime(e, file) ==
  {v \in {Value(iv, file) : iv \in {j \in {e.input, e.output} : Len(j) = 3}} : ~IsTime(v)}

(* A stream file that is accepted means what it says: each of its streams  *)
(* is in the list with the template, the mode, the alarms and the file     *)
(* interval it declares, no two streams that write have the same template, *)
(* and the directory of the files can be written to.  Three things escape: *)
(* a <stream> with the name of an immutable stream is ignored in part, if  *)
(* it sets one more property; a borrowed initial_only (see above); and a   *)
(* locked directory to start from: nothing looks at it, be it for the      *)
(* files or for the first directory that is to be made.                    *)
AcceptedAsDeclared ==
  phase = "accepted" =>
    \A e \in ToSet(config.streams) :
      IF Shadows(e) THEN SetsMore(e, FileInterval(e, config.streams))
      ELSE LET s == mgr[e.name]
               file == config.streams
           IN  /\ s.template = e.template /\ s.clobber = e.clobber
               /\ s.active = (e.type # {})
               /\ "input" \in e.type => s.alarms.input = Value(e.input, file)
               /\ "output" \in e.type => s.alarms.output = Value(e.output, file)
               /\ s.fint \in BorrowedNoTime(e, file) \cup {WantedInterval(e, file)}
               /\ "output" \in e.type =>
                    \/ dirs[Len(dirs)] = "open"
                    \/ /\ config.dirs[1] = "locked"
                       /\ Len(dirs) = 1 \/ config.dirs[2] = "absent"
               /\ \A f \in ToSet(file) \ {e} :
                    ~Shadows(f) /\ "output" \in e.type => mgr[f.name].template # s.template

(* In an accepted file, a stream has its own fields and those of the       *)
(* streams it includes that are immutable or come later in the file, and   *)
(* it has no fields but its own and those of the streams it includes.      *)
IncludesLand ==
  phase = "accepted" =>
    \A k \in DOMAIN Order :
      LET e == Order[k]
          From(n, places) ==
            IF n \in DOMAIN Registry THEN FromRegistry[n].fields
            ELSE UNION {Order[j].vars : j \in {i \in places : Order[i].name = n}}
          Brought(places) == e.vars \cup FileFields(e) \cup UNION {From(n, places) : n \in e.subs}
      IN  ~e.immutable /\ ~Shadows(e) =>
            /\ Brought((k+1)..Len(Order)) \subseteq mgr[e.name].fields
            /\ mgr[e.name].fields \subseteq Brought(DOMAIN Order)

(* Of a mutable stream that is included the fields are there, wherever it  *)
(* stands in the file: "If that call was successful, we DID add an         *)
(* immutable_stream, so do not attempt to add a mutable stream below.      *)
(* Otherwise do attempt to add a mutable stream" (xml_stream_parser.c:     *)
(* 1810).  The call is successful for a mutable stream, too, once it is in *)
(* the list, and adds nothing.                                             *)
MutableIncluded ==
  phase = "accepted" =>
    \A e, f \in ToSet(config.streams) :
      /\ ~e.immutable /\ ~Shadows(e)
      /\ ~f.immutable /\ ~Shadows(f) /\ f.name \in e.subs
      => f.vars \subseteq mgr[e.name].fields
=============================================================================
