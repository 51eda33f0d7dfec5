------------------------------- MODULE ProtoText ------------------------------
(***************************************************************************)
(* muan/utils/proto_utils: a protobuf as a row of a CSV file, the header   *)
(* over it, and as JSON.                                                   *)
(*                                                                         *)
(* A message type is a sequence of fields [name, kind, type], where `type` *)
(* is that of a submessage.  A message is a function from the names of the *)
(* fields that are set to their values, which are cells or messages.  The  *)
(* numeric kinds are one kind, and a name is a path from the outside in.   *)
(* Repeated fields, which end the program, types without fields, and text  *)
(* with a comma in it, which is not quoted, are left out: no queue of the  *)
(* robots has them.                                                        *)
(***************************************************************************)
EXTENDS SequencesExt

Number(name) == [name |-> name, kind |-> "number", type |-> <<>>]
Text(name) == [name |-> name, kind |-> "text", type |-> <<>>]
Submessage(name, type) == [name |-> name, kind |-> "message", type |-> type]

RECURSIVE Default(_)
Default(f) ==
  CASE f.kind = "text" -> <<"">>
    [] f.kind = "number" -> <<"0">>
    [] f.kind = "message" -> FlattenSeq([i \in DOMAIN f.type |-> Default(f.type[i])])

RECURSIVE ProtoToCsv(_, _)
ProtoToCsv(type, message) ==
  FlattenSeq([i \in DOMAIN type |->
    LET f == type[i] IN
    IF f.name \notin DOMAIN message THEN Default(f)
    ELSE IF f.kind = "message" THEN ProtoToCsv(f.type, message[f.name])
    ELSE <<message[f.name]>>])

RECURSIVE ColumnsUnder(_, _)
ColumnsUnder(prefix, type) ==
  FlattenSeq([i \in DOMAIN type |->
    LET path == Append(prefix, type[i].name) IN
    IF type[i].kind = "message" THEN ColumnsUnder(path, type[i].type) ELSE <<path>>])

ProtoToCsvHeader(type) == ColumnsUnder(<<>>, type)

\* An object is the sequence of its pairs of a name and a value.
RECURSIVE DefaultJson(_)
DefaultJson(f) ==
  <<f.name, IF f.kind = "message" THEN [i \in DOMAIN f.type |-> DefaultJson(f.type[i])]
            ELSE Default(f)[1]>>

RECURSIVE ProtoToJson(_, _)
ProtoToJson(type, message) ==
  [i \in DOMAIN type |->
    LET f == type[i] IN
    IF f.name \notin DOMAIN message THEN DefaultJson(f)
    ELSE <<f.name, IF f.kind = "message" THEN ProtoToJson(f.type, message[f.name])
                   ELSE message[f.name]>>]

-----------------------------------------------------------------------------
(* What the texts should say: under each column, the value of the field     *)
(* that the column names, or the default of its kind.                       *)

FieldNamed(type, name) == CHOOSE f \in {type[i] : i \in DOMAIN type} : f.name = name

RECURSIVE ValueAt(_, _, _)
ValueAt(type, message, path) ==
  LET f == FieldNamed(type, path[1])
      isSet == path[1] \in DOMAIN message
  IN  IF f.kind = "message"
      THEN ValueAt(f.type, IF isSet THEN message[path[1]] ELSE [n \in {} |-> ""], Tail(path))
      ELSE IF isSet THEN message[path[1]] ELSE IF f.kind = "text" THEN "" ELSE "0"

Table(type, message) ==
  LET columns == ProtoToCsvHeader(type)
  IN  [i \in DOMAIN columns |-> ValueAt(type, message, columns[i])]

\* Leaf values of a JSON object, in their order.
RECURSIVE Leaves(_, _)
Leaves(type, object) ==
  FlattenSeq([i \in DOMAIN type |->
    IF type[i].kind = "message" THEN Leaves(type[i].type, object[i][2]) ELSE <<object[i][2]>>])
=============================================================================
