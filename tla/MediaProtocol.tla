------------------------------ MODULE MediaProtocol ------------------------------
(***************************************************************************)
(* The answers of the media protocol (src-tauri/src/media_resource.rs):     *)
(* a Range header against the length of a file, and what is sent of it.     *)
(*                                                                         *)
(* The value of a header is NoHeader (there is none, or one that to_str     *)
(* does not take because it is not visible ASCII), BadHeader (another unit, *)
(* a list, no dash, digits that are no u64, all in visible ASCII), or a     *)
(* ByteRange: the two sides of the dash, each None or a number.             *)
(* Bytes are named by their positions in the file.                          *)
(***************************************************************************)
EXTENDS Containers, Integers, Sequences, FiniteSets

NoHeader  == [form |-> "absent"]
BadHeader == [form |-> "malformed"]
ByteRange(start, end) == [form |-> "range", start |-> start, end |-> end]

\* Is that a header?
IsSide(v) == v \in Seq(Nat) /\ Len(v) <= 1
IsRangeValue(h) ==
    h \in {NoHeader, BadHeader} \/ (h = ByteRange(h.start, h.end) /\ IsSide(h.start) /\ IsSide(h.end))

Status == [ok |-> 200, partial |-> 206, notFound |-> 404, unsatisfiable |-> 416, failed |-> 500]

\* Another unit, a list and an empty file are refused, and so is a range that
\* begins behind the file, ends before it begins or has no side.
Refused(value, total) ==
    \/ value = BadHeader \/ total = 0
    \/ value.start = None /\ value.end \in {None, Some(0)}
    \/ value.start # None /\ value.start[1] >= total
    \/ value.start # None /\ value.end # None /\ value.end[1] < value.start[1]

\* Without a start the end is the length of a suffix.
RangeStart(value, total) ==
    IF value.start # None THEN value.start[1]
    ELSE IF value.end[1] < total THEN total - value.end[1] ELSE 0

\* Faulty: the end asked for is not cut to the file.
BugEndNotClamped(value, total) ==
    IF value.start = None \/ value.end = None THEN total - 1 ELSE value.end[1]

RangeEnd(value, total) ==
    IF value.start = None \/ value.end = None \/ value.end[1] >= total THEN total - 1
    ELSE value.end[1]

parse_range(value, total) ==
    IF value = NoHeader THEN None
    ELSE IF Refused(value, total) THEN Error
    ELSE Some([start |-> RangeStart(value, total), end |-> RangeEnd(value, total)])

Empty(status) == [status |-> status, content_length |-> 0, content_range |-> None, body |-> {}]

Unsatisfiable(total) ==
    [Empty(Status.unsatisfiable) EXCEPT !.content_range = Some([range |-> None, total |-> total])]

\* The rest of read_response, when metadata() said total and the read finds now:
\* all there is, or exactly the range and an error when the file ends before.
Body(range, total, now, head_only) ==
    IF range = None
    THEN [status |-> Status.ok, content_length |-> total, content_range |-> None,
          body |-> IF head_only THEN {} ELSE 0 .. now - 1]
    ELSE LET start == range[1].start
             end   == range[1].end
         IN  IF ~head_only /\ end >= now THEN Empty(Status.failed)
             ELSE [status |-> Status.partial, content_length |-> end - start + 1,
                   content_range |-> Some([range |-> range[1], total |-> total]),
                   body |-> IF head_only THEN {} ELSE start .. end]

\* The bytes a header names of a file, as HTTP has it.
Asked(value, total) ==
    IF value.start = None
    THEN {p \in 0 .. total - 1 : Found(value.end) /\ p >= total - value.end[1]}
    ELSE {p \in 0 .. total - 1 : p >= value.start[1] /\ (Found(value.end) => p <= value.end[1])}

\* A partial answer is the bytes asked for and says which they are, also when
\* the file is written while it is read; the range is refused exactly when it
\* names no byte of the file.
AnswersRange(value, total, head_only, response) ==
    /\ (response.status = Status.partial) =>
         LET asked == Asked(value, total)
             said  == response.content_range[1].range
         IN  /\ asked # {} /\ said.start .. said.end = asked
             /\ response.content_range[1].total = total
             /\ response.content_length = Cardinality(asked)
             /\ response.body = IF head_only THEN {} ELSE asked
    /\ (response.status = Status.ok) => value = NoHeader
    /\ (response.status = Status.unsatisfiable) =>
         value = BadHeader \/ Asked(value, total) = {}

==================================================================================
