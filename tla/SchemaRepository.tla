-------------------------- MODULE SchemaRepository --------------------------
(***************************************************************************)
(* The repository of FlatBuffers schemas (autobahn/xbr/_schema.py): binary *)
(* schema files are loaded into it, and the payloads of WAMP messages are  *)
(* validated against its types.  A file is what the reflection of it says: *)
(* enums, objects (tables and structs), services; a type is referred to by *)
(* its index in the file, and looked up in the repository by name.         *)
(***************************************************************************)
EXTENDS Naturals, FiniteSets, Sequences, SequencesExt

CONSTANTS
    Options,    \* the repositories considered: records of files, paths, payloads
    MaxChecks,  \* bound: outcomes remembered
    None

VARIABLES
    opt,        \* files: by name; paths: what load() is given; payloads
    repo,
    checked     \* payloads that were validated, with what came of it

vars == <<opt, repo, checked>>

-----------------------------------------------------------------------------
(* What is in a file.                                                      *)

\* The Python types of scalar values.
FBS2PY_TYPE ==
    [UType |-> "int", Bool |-> "bool", Byte |-> "int", UByte |-> "int", Short |-> "int",
     UShort |-> "int", Int |-> "int", UInt |-> "int", Long |-> "int", ULong |-> "int",
     Float |-> "float", Double |-> "float", String |-> "str", Vector |-> "list", Obj |-> "dict"]

\* A type, and a field of it.  Attributes say if the field is positional ("arg")
\* or a keyword ("kwarg").
FbsType(basetype, element, index) == [basetype |-> basetype, element |-> element, index |-> index]
FbsField(name, id, type, attrs) ==
    [name |-> name, id |-> id, type |-> type, required |-> "required" \in attrs, attrs |-> attrs]
FbsObject(name, is_struct, fields) == [name |-> name, is_struct |-> is_struct, fields |-> fields]
FbsRPCCall(name, request, response) == [name |-> name, request |-> request, response |-> response]
FbsService(name, calls) == [name |-> name, calls |-> calls]
FbsEnum(name, values) == [name |-> name, values |-> values]
FbsSchema(enums, objs, services) ==
    [root_table |-> FALSE, enums |-> enums, objs |-> objs, services |-> services]

names(things) == {things[i].name : i \in DOMAIN things}
distinct(things) == \A i, j \in DOMAIN things : things[i].name = things[j].name => i = j

\* The file has the fields sorted by name; their ids are their positions.
\* Mutant: they stay in the order of the file.
parse_fields_sorted(fields) == fields

parse_fields(fields) == [i \in DOMAIN fields |-> fields[CHOOSE j \in DOMAIN fields : fields[j].id = i - 1]]

parses(fields) == distinct(fields) /\ {fields[i].id + 1 : i \in DOMAIN fields} = DOMAIN fields

parse_calls(calls) ==
    /\ distinct(calls)
    /\ \A i \in DOMAIN calls : parses(calls[i].request.fields) /\ parses(calls[i].response.fields)

\* load() of a schema raises for a name that comes twice, and for a root table,
\* which FbsObject.parse() is given too few arguments for.
loads(file) ==
    /\ ~file.root_table
    /\ distinct(file.enums) /\ \A i \in DOMAIN file.enums : IsInjective(file.enums[i].values)
    /\ distinct(file.objs) /\ \A i \in DOMAIN file.objs : parses(file.objs[i].fields)
    /\ distinct(file.services) /\ \A i \in DOMAIN file.services : parse_calls(file.services[i].calls)

-----------------------------------------------------------------------------
(* The repository: types by name, each with the file it is from.           *)

repo0 == [schemata |-> {}, objs |-> <<>>, enums |-> <<>>, services |-> <<>>]

byName(things, fn) ==
    [n \in names(things) |->
        [file |-> fn, of |-> things[CHOOSE i \in DOMAIN things : things[i].name = n]]]

\* Duplicate types are skipped.
added(r, fn) ==
    LET file == opt.files[fn] IN
    [schemata |-> r.schemata \cup {fn}, objs |-> r.objs @@ byName(file.objs, fn),
     enums |-> r.enums @@ byName(file.enums, fn),
     services |-> r.services @@ byName(file.services, fn)]

\* What a path stands for: kind "file", a file or a name that is none; "list", names
\* with commas between them; "directory", the names of the *.bfbs files below it in
\* some order, each joined to the directory itself: what lies deeper is not found.
found(fn) == fn \in DOMAIN opt.files
allThere(path) == path.kind # "directory" => \A i \in DOMAIN path.names : found(path.names[i])

\* The files that are loaded are skipped, the others loaded one by one; what was
\* added before one that does not load, or is not found, stays.
loadAll(r, fns) ==
    LET todo == SelectSeq(fns, LAMBDA fn : fn \notin r.schemata)
        bad == {i \in DOMAIN todo : ~found(todo[i]) \/ ~loads(opt.files[todo[i]])}
        good == IF bad = {} THEN todo
                ELSE SubSeq(todo, 1, (CHOOSE i \in bad : \A j \in bad : i <= j) - 1) IN
    FoldLeft(added, r, good)

\* A file, or a name of a list, that is not there raises before anything is loaded.
load(r, path) == IF allThere(path) THEN loadAll(r, path.names) ELSE r

-----------------------------------------------------------------------------
(* Validation.  A value has its Python type t, and keys and items when it   *)
(* is a dict, a list or a tuple.  What comes of it is "ok" or the exception. *)

first(outcomes) ==
    LET bad == {i \in DOMAIN outcomes : outcomes[i] # "ok"} IN
    IF bad = {} THEN "ok" ELSE outcomes[CHOOSE i \in bad : \A j \in bad : i <= j]

\* The name of the type that an index refers to, in the file of the field.
objtype(fn, type) == opt.files[fn].objs[type.index + 1].name

\* A basetype without a Python type (FIXME in the code) raises AssertionError.
validate_scalar(type, value) ==
    IF type.basetype \notin DOMAIN FBS2PY_TYPE THEN "AssertionError"
    ELSE IF value.t = FBS2PY_TYPE[type.basetype] THEN "ok" ELSE "InvalidPayload"

sequence(value) == value.t \in {"list", "tuple"}

RECURSIVE validate_obj(_, _, _)

\* A value for a field, in a dict or by position.  Any text passes for a vector
\* ("FIXME"); a vector of anything but objects raises AssertionError.
validate_field(fn, field, value, inDict) ==
    LET type == field.type IN
    CASE type.basetype = "Obj" -> validate_obj(repo.objs, objtype(fn, type), value)
      [] type.basetype = "Union" -> "ok"
      [] type.basetype = "Vector" /\ sequence(value) ->
            first([i \in DOMAIN value.items |->
                     IF type.element = "Obj"
                     THEN validate_obj(repo.objs, objtype(fn, type), value.items[i])
                     ELSE "AssertionError"])
      [] type.basetype = "Vector" /\ ~sequence(value) ->
            IF inDict /\ value.t \notin {"str", "bytes"} THEN "InvalidPayload" ELSE "ok"
      [] OTHER -> validate_scalar(type, value)

validate_dict(vt, fields, value) ==
    first([i \in DOMAIN value.keys |->
              IF value.keys[i] \notin names(fields) THEN "InvalidPayload"
              ELSE validate_field(vt.file, fields[CHOOSE j \in DOMAIN fields :
                                                    fields[j].name = value.keys[i]],
                                  value.items[i], TRUE)]
          \o <<IF vt.of.is_struct /\ names(fields) # ToSet(value.keys) THEN "InvalidPayload" ELSE "ok">>)

validate_positions(vt, fields, values) ==
    first([i \in DOMAIN fields |->
              IF i > Len(values) THEN "InvalidPayload"
              ELSE validate_field(vt.file, fields[i], values[i], FALSE)]
          \o <<IF Len(values) > Len(fields) THEN "InvalidPayload" ELSE "ok">>)

validate_obj(objs, type, value) ==
    IF type \notin DOMAIN objs THEN "RuntimeError"
    ELSE LET vt == objs[type]  fields == parse_fields(vt.of.fields) IN
         CASE value.t = "dict" -> validate_dict(vt, fields, value)
           [] sequence(value) /\ vt.of.is_struct -> validate_positions(vt, fields, value.items)
           [] OTHER -> "InvalidPayload"

\* Positional fields take the arguments in the order of their ids, the names of
\* the others may be among the keywords, whose values are not looked at.  With None
\* for the arguments the first positional field is missing; without one, the number
\* of None is asked for.  Keywords that are None are none.
positional(field) == field.required \/ "arg" \in field.attrs \/ "kwarg" \notin field.attrs

validate(type, args, kwargs) ==
    IF type = None THEN "ok"
    ELSE IF type \notin DOMAIN repo.objs THEN "RuntimeError"
    ELSE LET vt == repo.objs[type]
             fields == SelectSeq(parse_fields(vt.of.fields), positional)
             keywords == names(vt.of.fields) \ names(fields) IN
         IF args = None THEN IF fields = <<>> THEN "TypeError" ELSE "InvalidPayload"
         ELSE first(<<validate_positions(vt, fields, args),
                      IF kwargs \subseteq keywords THEN "ok" ELSE "InvalidPayload">>)

outcome(p) == validate(p.type, p.args, p.kwargs)

-----------------------------------------------------------------------------
Init ==
    /\ opt \in Options
    /\ repo = repo0
    /\ checked = {}

Load ==
    /\ \E path \in opt.paths : repo' = load(repo, path)
    /\ UNCHANGED <<opt, checked>>

Validate ==
    /\ Cardinality(checked) < MaxChecks
    /\ \E p \in opt.payloads : checked' = checked \cup {[payload |-> p, outcome |-> outcome(p)]}
    /\ UNCHANGED <<opt, repo>>

Next == Load \/ Validate

-----------------------------------------------------------------------------
(* Properties.                                                             *)

\* What a value has to be, by the types of one file alone: the reference for
\* validation.  Text for vectors and vectors of scalars are left out.
RECURSIVE fits(_, _, _)
fitsObject(fn, object, value) ==
    LET type(name) == (CHOOSE f \in ToSet(object.fields) : f.name = name).type
        at(id) == (CHOOSE f \in ToSet(object.fields) : f.id = id).type IN
    \/ /\ value.t = "dict"
       /\ ToSet(value.keys) \subseteq names(object.fields)
       /\ object.is_struct => ToSet(value.keys) = names(object.fields)
       /\ \A i \in DOMAIN value.keys : fits(fn, type(value.keys[i]), value.items[i])
    \/ /\ sequence(value) /\ object.is_struct
       /\ Len(value.items) = Len(object.fields)
       /\ \A i \in DOMAIN value.items : fits(fn, at(i - 1), value.items[i])
fits(fn, type, value) ==
    CASE type.basetype = "Obj" -> fitsObject(fn, opt.files[fn].objs[type.index + 1], value)
      [] type.basetype = "Vector" ->
            /\ sequence(value)
            /\ \A i \in DOMAIN value.items :
                  fitsObject(fn, opt.files[fn].objs[type.index + 1], value.items[i])
      [] OTHER -> value.t = FBS2PY_TYPE[type.basetype]

\* Arguments are as many as the fields that are not keywords, and go to these in
\* the order of their ids.
fitsPayload(fn, object, p) ==
    /\ p.args # None
    /\ LET given == {f \in ToSet(object.fields) : "kwarg" \notin f.attrs \/ f.required} IN
       /\ Len(p.args) = Cardinality(given)
       /\ \A f \in given :
             fits(fn, f.type, p.args[Cardinality({g \in given : g.id <= f.id})])
       /\ p.kwargs \subseteq names(object.fields) \ {f.name : f \in given}

\* A payload passes exactly when it is one of its type, as the file of the type
\* defines it, in a file none of whose types was skipped as a duplicate
\* (_schema.py:1933-2113, and the order of the fields, 509-512).
ValidatesExactly ==
    \A p \in opt.payloads :
        p.type \in DOMAIN repo.objs =>
            LET fn == repo.objs[p.type].file IN
            (\A n \in names(opt.files[fn].objs) : repo.objs[n].file = fn)
                => (outcome(p) = "ok" <=> fitsPayload(fn, repo.objs[p.type].of, p))

\* What was once decided about a payload stays so, whatever is loaded later, and
\* whatever of it does not load (_schema.py:1530-1569).
LoadingIsStable ==
    \A c \in checked : c.outcome # "RuntimeError" => outcome(c.payload) = c.outcome
=============================================================================
