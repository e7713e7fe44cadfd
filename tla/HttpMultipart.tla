--------------------------- MODULE HttpMultipart ---------------------------
(***************************************************************************)
(* parser::multipart_parse stores the parts of a multipart/form-data body  *)
(* in temporary files.  It sees one symbol at a time, keeps its state from *)
(* one buffer to the next, and has one action per case of its switch here. *)
(* connection::store hands it the buffers as the network delivers them.    *)
(***************************************************************************)
EXTENDS Integers, Sequences, SequencesExt, FiniteSets

CONSTANTS
    MaxResources,  \* max_uploadable_resources of the router
    HeaderCuts,    \* TRUE: a buffer may end inside of a header
    OpenFails      \* TRUE: a temporary file may not open

MultipartAssumption == MaxResources \in Nat /\ {HeaderCuts, OpenFails} \subseteq BOOLEAN

VARIABLES
    wire,       \* the number of symbols of the message not delivered yet
    buf, i,     \* the buffer and the index of multipart_parse
    mark,       \* the local that begins the text being collected
    state, index, look_behind,  \* multipart.state, .index, .look_behind
    header,     \* message.header
    data,       \* multipart.data: headers, and what fwrite has put in the file
    stream,     \* multipart.stream: "null" or "open"
    finish,     \* multipart.finish
    resources   \* message.content->resources

vars == <<wire, buf, i, mark, state, index, look_behind, header, data, stream, finish, resources>>
text == <<look_behind, index, mark>>
file == <<header, data, stream, finish, resources>>

CR == 1
LF == 2
Hyphen == 3
Colon == 4
Space == 5
a == 6
b == 7
Letters == {a, b}
boundary == <<Hyphen, Hyphen, a>>
Break == <<CR, LF>>

(* Two parts.  Their data has line ends and false beginnings of a boundary.*)
Parts ==
    << [headers |-> << <<<<a, b>>, <<b>>>> >>, data |-> <<CR, CR, LF, Hyphen, Hyphen, b, LF, CR>>],
       [headers |-> << >>, data |-> <<CR, LF, Hyphen, CR, LF, b>>],
       [headers |-> << <<<<b>>, <<a, a>>>> >>, data |-> <<>>] >>

Encoded(p) ==
    Break \o (IF p.headers = <<>> THEN <<>>
              ELSE p.headers[1][1] \o <<Colon, Space>> \o p.headers[1][2] \o Break)
          \o Break \o p.data \o Break \o boundary

Message == boundary \o Encoded(Parts[1]) \o Encoded(Parts[2]) \o Encoded(Parts[3])
           \o <<Hyphen, Hyphen>> \o Break

NoData == [headers |-> <<>>, data |-> <<>>]

Init ==
    /\ wire = Len(Message) /\ buf = <<>> /\ i = 0 /\ mark = 0
    /\ state = "start_boundary" /\ index = 0 /\ look_behind = <<>>
    /\ header = <<>> /\ data = NoData /\ stream = "null" /\ finish = FALSE /\ resources = <<>>

(* The states in which the end of a buffer cuts a header; with HeaderCuts  *)
(* FALSE such a behaviour is not followed any further.                     *)
InHeader == state \in {"header_field", "header_value_start", "header_value"}

(* connection::store: the next buffer, unless the limit was reached.       *)
deliver ==
    /\ i = Len(buf) /\ ~finish /\ wire > 0
    /\ \E k \in 1..wire :
        /\ buf' = SubSeq(Message, Len(Message) - wire + 1, Len(Message) - wire + k)
        /\ HeaderCuts \/ ~InHeader
        /\ wire' = wire - k
    /\ i' = 0 /\ mark' = 0
    /\ UNCHANGED <<state, index, look_behind, header, data, stream, finish, resources>>

Now == buf[i + 1]
last == i + 1 = Len(buf)
In(states) == state \in states /\ i < Len(buf)
Span(from, to) == SubSeq(buf, from + 1, to)

Advance == i' = i + 1 /\ UNCHANGED <<wire, buf>>
Again == mark' = i /\ UNCHANGED <<wire, buf, i>>

(* An early return: the rest of the buffer is not looked at.               *)
Stop == i' = Len(buf) /\ UNCHANGED <<wire, buf>>
Failed == Stop /\ UNCHANGED <<state, text, file>>

(* parsing::parse_multipart_content_data fails without a file.             *)
Storable(s) == s = <<>> \/ stream = "open"
parse_multipart_content_data(s) ==
    /\ data' = [data EXCEPT !.data = @ \o s]
    /\ UNCHANGED <<header, stream, finish, resources>>

(* parsing::parse_multipart_resource_begin, with the state its caller is   *)
(* left in when it fails: no file, or one resource too many.               *)
parse_multipart_resource_begin(failed) ==
    /\ UNCHANGED <<mark, look_behind, resources>>
    /\ IF Len(resources) >= MaxResources
       THEN finish' = TRUE /\ state' = failed /\ Stop /\ UNCHANGED <<header, data, stream>>
       ELSE /\ header' = <<>> /\ data' = NoData /\ UNCHANGED finish
            /\ \/ stream' = "open" /\ state' = "header_field_start" /\ Advance
               \/ OpenFails /\ state' = failed /\ Stop /\ UNCHANGED stream

(* parsing::parse_multipart_resource_end                                   *)
parse_multipart_resource_end ==
    IF stream = "null" THEN UNCHANGED file
    ELSE /\ stream' = "null" /\ resources' = Append(resources, data)
         /\ UNCHANGED <<header, data, finish>>

(* case start_boundary                                                     *)
start_boundary ==
    /\ In({"start_boundary"})
    /\ \/ /\ index <= Len(boundary)
          /\ IF Now = (boundary \o <<CR>>)[index + 1]
             THEN index' = index + 1 /\ Advance /\ UNCHANGED <<state, look_behind, mark, file>>
             ELSE Failed
       \/ /\ index = Len(boundary) + 1
          /\ IF Now = LF THEN index' = 0 /\ parse_multipart_resource_begin("start_boundary") ELSE Failed

(* cases header_field_start and header_field                               *)
header_field ==
    LET from == IF state = "header_field_start" THEN i ELSE mark IN
    /\ In({"header_field_start", "header_field"})
    /\ UNCHANGED <<look_behind, index, data, stream, finish, resources>>
    /\ mark' = from
    /\ \/ Now = CR /\ state' = "header_field_waiting" /\ Advance /\ UNCHANGED header
       \/ /\ Now = Colon /\ state' = "header_value_start" /\ Advance
          /\ header' = IF i > from THEN Span(from, i) ELSE header
       \/ /\ Now \in Letters \cup {Hyphen} /\ state' = "header_field" /\ Advance
          /\ header' = IF last THEN Span(from, i + 1) ELSE header
       \/ Now \notin Letters \cup {Hyphen, CR, Colon} /\ state' = "header_field" /\ Stop /\ UNCHANGED header

header_field_waiting ==
    /\ In({"header_field_waiting"})
    /\ IF Now = LF THEN state' = "resource_start" /\ Advance /\ UNCHANGED <<text, file>> ELSE Failed

(* parsing::parse_multipart_header_value: a value without a name is        *)
(* dropped, and a name is used once.                                       *)
parse_multipart_header_value(s) ==
    /\ IF s = <<>> \/ header = <<>> THEN UNCHANGED <<data, header>>
       ELSE data' = [data EXCEPT !.headers = Append(@, <<header, s>>)] /\ header' = <<>>
    /\ UNCHANGED <<stream, finish, resources>>

(* cases header_value_start and header_value                               *)
header_value ==
    LET from == IF state = "header_value_start" THEN i ELSE mark IN
    /\ In({"header_value_start", "header_value"})
    /\ Advance /\ UNCHANGED <<look_behind, index>>
    /\ \/ state = "header_value_start" /\ Now = Space /\ UNCHANGED <<state, mark, file>>
       \/ /\ ~(state = "header_value_start" /\ Now = Space) /\ mark' = from
          /\ state' = IF Now = CR THEN "header_value_waiting" ELSE "header_value"
          /\ IF Now = CR THEN parse_multipart_header_value(Span(from, i))
             ELSE IF last THEN parse_multipart_header_value(Span(from, i + 1)) ELSE UNCHANGED file

header_value_waiting ==
    /\ In({"header_value_waiting"})
    /\ IF Now = LF THEN state' = "header_field_start" /\ Advance /\ UNCHANGED <<text, file>> ELSE Failed

(* cases resource_start and resource: all up to a line end is data.        *)
resource ==
    LET from == IF state = "resource_start" THEN i ELSE mark
        done == IF Now = CR THEN Span(from, i) ELSE IF last THEN Span(from, i + 1) ELSE <<>>
    IN  /\ In({"resource_start", "resource"})
        /\ UNCHANGED index
        /\ IF ~Storable(done)
           THEN Stop /\ state' = "resource" /\ UNCHANGED <<mark, look_behind, file>>
           ELSE /\ parse_multipart_content_data(done) /\ Advance
                /\ mark' = IF Now = CR THEN i ELSE from
                /\ state' = IF Now = CR THEN "resource_boundary_waiting" ELSE "resource"
                /\ look_behind' = IF Now = CR THEN <<CR>> ELSE look_behind

(* A line end that was none is data, and the symbol is looked at again.    *)
resource_boundary_waiting ==
    /\ In({"resource_boundary_waiting"})
    /\ IF Now = LF
       THEN /\ state' = "resource_boundary" /\ look_behind' = <<CR, LF>> /\ index' = 0
            /\ Advance /\ UNCHANGED <<mark, file>>
       ELSE IF ~Storable(<<CR>>) THEN Failed
       ELSE /\ parse_multipart_content_data(<<CR>>)
            /\ state' = "resource" /\ Again /\ UNCHANGED <<look_behind, index>>

(* What looked like a boundary is data, all that was matched of it.        *)
resource_boundary ==
    /\ In({"resource_boundary"})
    /\ IF Now # boundary[index + 1]
       THEN IF ~Storable(look_behind) THEN Failed ELSE
            /\ parse_multipart_content_data(look_behind)
            /\ state' = "resource" /\ Again /\ UNCHANGED <<look_behind, index>>
       ELSE /\ look_behind' = Append(look_behind, Now) /\ index' = index + 1
            /\ IF index' = Len(boundary)
               THEN parse_multipart_resource_end /\ state' = "resource_waiting"
               ELSE UNCHANGED <<file, state>>
            /\ Advance /\ UNCHANGED mark

resource_waiting ==
    /\ In({"resource_waiting"})
    /\ IF Now \in {Hyphen, CR}
       THEN /\ state' = IF Now = CR THEN "resource_end" ELSE "resource_hyphen"
            /\ Advance /\ UNCHANGED <<text, file>>
       ELSE Failed

resource_hyphen ==
    /\ In({"resource_hyphen"})
    /\ IF Now = Hyphen THEN state' = "end" /\ Advance /\ UNCHANGED <<text, file>> ELSE Failed

(* The state is set before the file is opened: a failure does not undo it. *)
resource_end ==
    /\ In({"resource_end"})
    /\ IF Now # LF THEN Failed
       ELSE parse_multipart_resource_begin("header_field_start") /\ UNCHANGED index

end == In({"end"}) /\ Advance /\ UNCHANGED <<state, text, file>>

Rests == i = Len(buf) /\ (wire = 0 \/ finish \/ (~HeaderCuts /\ InHeader)) /\ UNCHANGED vars

multipart_parse ==
    \/ start_boundary \/ header_field \/ header_field_waiting \/ header_value \/ header_value_waiting
    \/ resource \/ resource_boundary_waiting \/ resource_boundary
    \/ resource_waiting \/ resource_hyphen \/ resource_end \/ end

Next == deliver \/ multipart_parse \/ Rests

Spec == Init /\ [][Next]_vars /\ WF_vars(Next)

(***************************************************************************)
(* Properties                                                              *)
(***************************************************************************)

(* Every file that connection::store reports holds exactly the data of one *)
(* part, in the order of the parts and without a gap unless a file did not *)
(* open, however the network cuts the message.                             *)
ContentExact ==
    \E picked \in SUBSET (1..Len(Parts)) :
        LET part == SetToSortSeq(picked, <) IN
        /\ Len(part) = Len(resources)
        /\ \A k \in 1..Len(part) : resources[k].data = Parts[part[k]].data
        /\ OpenFails \/ picked = 1..Len(resources)

(* The headers of a part that no buffer cuts arrive with it.               *)
HeadersExact == \A k \in 1..Len(resources) : resources[k].headers = Parts[k].headers

(* max_uploadable_resources holds, also for a file that is still written,  *)
(* and no file is open once the last boundary was seen.                    *)
Bounded == /\ Len(resources) + (IF stream = "open" THEN 1 ELSE 0) <= MaxResources
           /\ state = "end" => stream = "null"

(* A message that is delivered whole is stored whole, up to the limit.     *)
Delivered == wire = 0 \/ finish
Stored == Len(resources) = IF MaxResources < Len(Parts) THEN MaxResources ELSE Len(Parts)
=============================================================================
