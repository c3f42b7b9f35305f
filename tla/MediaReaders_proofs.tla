-------------------------- MODULE MediaReaders_proofs --------------------------
(***************************************************************************)
(* Proofs about MediaReaders: the media protocol serves what a Range header  *)
(* asks for, and the scan takes nothing that its limit cuts for a whole,    *)
(* for files of every length and every limit.                              *)
(***************************************************************************)
EXTENDS MediaReaders, SequenceTheorems, FiniteSetTheorems, WellFoundedInduction, TLAPS

\* A side of the dash is absent or one number.
LEMMA SideCases ==
  ASSUME NEW v, IsSide(v)
  PROVE  \/ v = None /\ ~Found(v)
         \/ Found(v) /\ v = Some(v[1]) /\ v[1] \in Nat
BY DEF IsSide, Found, None, Some

LEMMA HeaderCases ==
  ASSUME NEW h, IsRangeValue(h)
  PROVE  \/ h = NoHeader /\ h # BadHeader
         \/ h = BadHeader /\ h # NoHeader
         \/ /\ h # NoHeader /\ h # BadHeader
            /\ IsSide(h.start) /\ IsSide(h.end)
BY DEF IsRangeValue, NoHeader, BadHeader, ByteRange

LEMMA AnswerKinds ==
  ASSUME NEW v
  PROVE  None # Error /\ Some(v) # Error /\ Some(v) # None /\ Some(v)[1] = v
BY DEF None, Error, Some

\* The range that is served, when there is one.
LEMMA RangeIsAsked ==
  ASSUME NEW total \in Nat, NEW h, IsRangeValue(h)
  PROVE  \/ h = NoHeader /\ parse_range(h, total) = None
         \/ /\ h = BadHeader \/ Asked(h, total) = {}
            /\ parse_range(h, total) = Error
         \/ \E s, e \in Nat :
              /\ s <= e /\ e < total
              /\ Asked(h, total) = s .. e
              /\ parse_range(h, total) = Some([start |-> s, end |-> e])
<1>1. CASE h = NoHeader
  BY <1>1 DEF parse_range
<1>2. CASE h = BadHeader
  BY <1>2, HeaderCases DEF parse_range, Refused
<1>3. CASE h # NoHeader /\ h # BadHeader /\ Refused(h, total)
  <2>1. IsSide(h.start) /\ IsSide(h.end)
    BY <1>3, HeaderCases
  <2>2. ASSUME h.start = None  PROVE Asked(h, total) = {}
    <3>1. ~Found(h.start) /\ (h.end = None \/ h.end = Some(0) \/ total = 0)
      BY <1>3, <2>2 DEF Refused, Found, None
    <3>2. (Found(h.end) /\ h.end # Some(0)) => total = 0
      BY <3>1 DEF Found, None
    <3>3. ASSUME NEW p \in 0 .. total - 1, Found(h.end), p >= total - h.end[1]  PROVE FALSE
      <4>1. h.end = Some(0)
        BY <3>1, <3>3 DEF Found, None
      <4> QED
        BY <3>3, <4>1 DEF Some
    <3> QED
      BY <2>2, <3>3 DEF Asked
  <2>3. ASSUME h.start # None  PROVE Asked(h, total) = {}
    <3>1. h.start[1] \in Nat
      BY <2>1, <2>3, SideCases
    <3>2. ASSUME NEW p \in 0 .. total - 1, p >= h.start[1], Found(h.end) => p <= h.end[1]
          PROVE FALSE
      <4>1. h.end # None /\ h.end[1] < h.start[1]
        BY <1>3, <2>3, <3>1, <3>2 DEF Refused
      <4>2. Found(h.end) /\ h.end[1] \in Nat
        BY <2>1, <4>1, SideCases
      <4> QED
        BY <3>1, <3>2, <4>1, <4>2
    <3> QED
      BY <2>3, <3>2 DEF Asked
  <2>4. Asked(h, total) = {}
    BY <2>2, <2>3
  <2> QED
    BY <1>3, <2>4 DEF parse_range
<1>4. CASE h # NoHeader /\ h # BadHeader /\ ~Refused(h, total)
  <2> DEFINE s == RangeStart(h, total)
             e == RangeEnd(h, total)
  <2>1. IsSide(h.start) /\ IsSide(h.end)
    BY <1>4, HeaderCases
  <2>2. s \in Nat /\ e \in Nat /\ s <= e /\ e < total
    BY <1>4, <2>1, SideCases DEF Refused, RangeStart, RangeEnd
  <2>3. ASSUME h.start = None  PROVE Asked(h, total) = s .. e
    <3>1. ~Found(h.start) /\ Found(h.end) /\ h.end[1] \in Nat /\ e = total - 1
      BY <1>4, <2>1, <2>3, SideCases DEF Refused, RangeEnd, Found, None
    <3>2. s = IF h.end[1] < total THEN total - h.end[1] ELSE 0
      BY <2>3 DEF RangeStart
    <3>3. Asked(h, total) = {p \in 0 .. total - 1 : p >= total - h.end[1]}
      BY <2>3, <3>1 DEF Asked
    <3> QED
      BY <2>2, <3>1, <3>2, <3>3
  <2>4. ASSUME h.start # None /\ h.end = None  PROVE Asked(h, total) = s .. e
    <3>1. s = h.start[1] /\ e = total - 1 /\ ~Found(h.end)
      BY <2>4 DEF RangeStart, RangeEnd, Found, None
    <3>2. Asked(h, total) = {p \in 0 .. total - 1 : p >= s}
      BY <2>4, <3>1 DEF Asked
    <3> QED
      BY <2>2, <3>1, <3>2
  <2>5. ASSUME h.start # None /\ h.end # None  PROVE Asked(h, total) = s .. e
    <3>1. s = h.start[1] /\ Found(h.end) /\ h.end[1] \in Nat
      BY <2>1, <2>5, SideCases DEF RangeStart
    <3>2. e = IF h.end[1] >= total THEN total - 1 ELSE h.end[1]
      BY <2>5 DEF RangeEnd
    <3>3. Asked(h, total) = {p \in 0 .. total - 1 : p >= s /\ p <= h.end[1]}
      BY <2>5, <3>1 DEF Asked
    <3> QED
      BY <2>2, <3>1, <3>2, <3>3
  <2>6. Asked(h, total) = s .. e
    BY <2>3, <2>4, <2>5
  <2> QED
    BY <1>4, <2>2, <2>6 DEF parse_range
<1> QED
  BY <1>1, <1>2, <1>3, <1>4

\* What is sent for a range that is served, whatever the read finds of the file.
LEMMA BodyAnswers ==
  ASSUME NEW total \in Nat, NEW h, IsRangeValue(h), NEW head_only \in BOOLEAN, NEW now,
         parse_range(h, total) # Error
  PROVE  AnswersRange(h, total, head_only, Body(parse_range(h, total), total, now, head_only))
<1> DEFINE response == Body(parse_range(h, total), total, now, head_only)
<1>1. CASE h = NoHeader
  <2>1. parse_range(h, total) = None
    BY <1>1 DEF parse_range
  <2>2. response.status = Status.ok
    BY <2>1 DEF Body
  <2> QED
    BY <1>1, <2>2 DEF AnswersRange, Status
<1>2. ASSUME NEW s \in Nat, NEW e \in Nat, s <= e, e < total, Asked(h, total) = s .. e,
             parse_range(h, total) = Some([start |-> s, end |-> e])
      PROVE  AnswersRange(h, total, head_only, response)
  <2>1. parse_range(h, total) # None /\ parse_range(h, total)[1] = [start |-> s, end |-> e]
    BY <1>2, AnswerKinds
  <2>2. CASE ~head_only /\ e >= now
    <3>1. response.status = Status.failed
      BY <2>1, <2>2 DEF Body, Empty
    <3> QED
      BY <3>1 DEF AnswersRange, Status
  <2>3. CASE ~(~head_only /\ e >= now)
    <3>1. response = [status |-> Status.partial, content_length |-> e - s + 1,
                      content_range |-> Some([range |-> [start |-> s, end |-> e], total |-> total]),
                      body |-> IF head_only THEN {} ELSE s .. e]
      BY <2>1, <2>3 DEF Body
    <3>2. response.content_range[1] = [range |-> [start |-> s, end |-> e], total |-> total]
      BY <3>1, AnswerKinds
    <3>3. Cardinality(s .. e) = e - s + 1
      BY <1>2, FS_Interval
    <3>4. s .. e # {}
      <4>1. s \in s .. e
        BY s \in Nat, e \in Nat, s <= e, <1>2
      <4> QED
        BY <4>1
    <3>5. response.status # Status.ok /\ response.status # Status.unsatisfiable
      BY <3>1 DEF Status
    <3>6. /\ response.content_length = e - s + 1
          /\ response.body = IF head_only THEN {} ELSE s .. e
          /\ response.content_range[1].range.start = s
          /\ response.content_range[1].range.end = e
          /\ response.content_range[1].total = total
      BY <3>1, <3>2
    <3> HIDE DEF response
    <3> QED
      BY <1>2, <3>3, <3>4, <3>5, <3>6 DEF AnswersRange
  <2> QED
    BY <2>2, <2>3
<1> QED
  BY <1>1, <1>2, RangeIsAsked, HeaderCases

LEMMA RefusalAnswers ==
  ASSUME NEW total \in Nat, NEW h, IsRangeValue(h), NEW head_only \in BOOLEAN,
         parse_range(h, total) = Error
  PROVE  AnswersRange(h, total, head_only, Unsatisfiable(total))
<1>1. h = BadHeader \/ Asked(h, total) = {}
  <2>1. \A v : Some(v) # Error
    BY DEF Some, Error
  <2>2. None # Error
    BY DEF None, Error
  <2> QED
    BY <2>1, <2>2, RangeIsAsked
<1>2. Unsatisfiable(total).status = Status.unsatisfiable
  BY DEF Unsatisfiable, Empty
<1> QED
  BY <1>1, <1>2 DEF AnswersRange, Status

LEMMA FailureAnswers ==
  ASSUME NEW total, NEW h, NEW head_only, NEW status \in {Status.notFound, Status.failed}
  PROVE  AnswersRange(h, total, head_only, Empty(status))
BY DEF AnswersRange, Empty, Status

-----------------------------------------------------------------------------
\* A request that is open has the range that belongs to its header and to the
\* length its file was found with, and the file is still the same.
Opened(header, head_only) ==
  [stage |-> "open", header |-> header, head_only |-> head_only,
   range |-> parse_range(header, file.len), response |-> Unread]

RequestInv ==
  \/ request.stage = "none"
  \/ \E header \in RangeHeader, head_only \in BOOLEAN :
       parse_range(header, file.len) # Error /\ request = Opened(header, head_only)
  \/ request.stage = "answered" /\ RangeServed

IInv == input \in 1 .. Len(Inputs) /\ RequestInv

LEMMA FileHasLength ==
  ASSUME input \in 1 .. Len(Inputs)
  PROVE  file.len \in Nat
BY RequestsAssumption DEF file

LEMMA OpenServedKeeps ==
  ASSUME IInv, OpenServed
  PROVE  IInv'
<1> USE DEF IInv
<1>1. input' = input /\ file' = file /\ file.len \in Nat
  BY FileHasLength DEF OpenServed, file
<1>2. PICK header \in RangeHeader, head_only \in BOOLEAN :
        LET range == parse_range(header, file.len)
            opened(stage, answer) ==
              request' = [stage |-> stage, header |-> header, head_only |-> head_only,
                          range |-> range, response |-> answer]
        IN  \/ \E status \in {Status.notFound, Status.failed} :
                 opened("answered", Empty(status))
            \/ IF range = Error THEN opened("answered", Unsatisfiable(file.len))
                                ELSE opened("open", Unread)
  BY DEF OpenServed
<1> DEFINE range == parse_range(header, file.len)
           Recorded(stage, answer) ==
             request' = [stage |-> stage, header |-> header, head_only |-> head_only,
                         range |-> range, response |-> answer]
<1>3. IsRangeValue(header)
  BY RequestsAssumption
<1>4. ASSUME NEW answer, Recorded("answered", answer),
             AnswersRange(header, file.len, head_only, answer)
      PROVE  RequestInv'
  BY <1>1, <1>4 DEF RequestInv, RangeServed
<1>5. ASSUME NEW status \in {Status.notFound, Status.failed}, Recorded("answered", Empty(status))
      PROVE  RequestInv'
  BY <1>4, <1>5, FailureAnswers
<1>6. ASSUME range = Error, Recorded("answered", Unsatisfiable(file.len))
      PROVE  RequestInv'
  BY <1>1, <1>3, <1>4, <1>6, RefusalAnswers
<1>7. ASSUME range # Error, Recorded("open", Unread)
      PROVE  RequestInv'
  BY <1>1, <1>7 DEF RequestInv, Opened
<1>8. RequestInv'
  BY <1>2, <1>5, <1>6, <1>7
<1> QED
  BY <1>1, <1>8

LEMMA ReadServedKeeps ==
  ASSUME IInv, ReadServed
  PROVE  IInv'
<1> USE DEF IInv
<1>1. input' = input /\ file' = file /\ file.len \in Nat /\ request.stage = "open"
  BY FileHasLength DEF ReadServed, file
<1>2. PICK header \in RangeHeader, head_only \in BOOLEAN :
        parse_range(header, file.len) # Error /\ request = Opened(header, head_only)
  BY <1>1 DEF RequestInv
<1>3. /\ request.range = parse_range(header, file.len)
      /\ request.header = header /\ request.head_only = head_only
  BY <1>2 DEF Opened
<1>4. PICK now \in 0 .. MaxServed + 1 :
        \E answer \in {Body(request.range, file.len, now, request.head_only), Empty(Status.failed)} :
          request' = [request EXCEPT !.stage = "answered", !.response = answer]
  BY DEF ReadServed
<1>5. PICK answer \in {Body(request.range, file.len, now, request.head_only), Empty(Status.failed)} :
        request' = [request EXCEPT !.stage = "answered", !.response = answer]
  BY <1>4
<1>6. /\ request'.stage = "answered" /\ request'.response = answer
      /\ request'.header = header /\ request'.head_only = head_only
  BY <1>2, <1>5 DEF Opened
<1>7. AnswersRange(header, file.len, head_only, answer)
  <2>1. IsRangeValue(header)
    BY RequestsAssumption
  <2>2. CASE answer = Empty(Status.failed)
    BY <2>2, FailureAnswers
  <2>3. CASE answer = Body(request.range, file.len, now, request.head_only)
    BY <1>1, <1>2, <1>3, <2>1, <2>3, BodyAnswers
  <2> QED
    BY <2>2, <2>3
<1>8. RequestInv'
  BY <1>1, <1>6, <1>7 DEF RequestInv, RangeServed
<1> QED
  BY <1>1, <1>8

\* The media protocol serves the bytes a Range header asks for, for files of
\* every length, every header and whatever is written to the file between the
\* reading of its length and of its bytes (media_resource.rs:305-444).
THEOREM RangeServedAlways == Spec => []RangeServed
<1>1. Init => IInv
  BY DEF Init, IInv, RequestInv, NoRequest
<1>2. ASSUME IInv, [Next]_vars  PROVE IInv'
  <2>1. CASE OpenServed
    BY <1>2, <2>1, OpenServedKeeps
  <2>2. CASE ReadServed
    BY <1>2, <2>2, ReadServedKeeps
  <2>3. CASE UNCHANGED <<input, request>>
    BY <1>2, <2>3 DEF IInv, RequestInv, Opened, RangeServed, file
  <2>4. CASE ReadVisual \/ GetDetail
    BY <2>3, <2>4 DEF ReadVisual, GetDetail
  <2>5. CASE FlacReader \/ IsoAudioReader \/ OggReader \/ TagReader \/ VideoReader
    BY <2>3, <2>5 DEF FlacReader, IsoAudioReader, OggReader, TagReader, VideoReader, Try
  <2>6. CASE UNCHANGED vars
    BY <2>3, <2>6 DEF vars
  <2> QED
    BY <1>2, <2>1, <2>2, <2>4, <2>5, <2>6 DEF Next
<1>3. IInv => RangeServed
  BY DEF IInv, RequestInv, RangeServed, Opened
<1> QED
  BY <1>1, <1>2, <1>3, PTL DEF Spec

-----------------------------------------------------------------------------
(* The least and the greatest number of a set, and induction over an        *)
(* interval from its end.                                                  *)

(* The least-number principle, from the well-foundedness of inclusion      *)
(* among finite sets.                                                      *)
LEMMA LeastNatural ==
  ASSUME NEW T \in SUBSET Nat, T # {}
  PROVE  \E n \in T : \A m \in T : n <= m
<1> DEFINE U == {0 .. n : n \in T}
           R == StrictSubsetOrdering(Nat)
<1>1. \A n \in T : IsFiniteSet(0 .. n) /\ 0 .. n \in SUBSET Nat
  BY FS_Interval
<1>2. U \subseteq FiniteSubsetsOf(Nat) /\ U # {}
  BY <1>1 DEF FiniteSubsetsOf
<1>3. PICK A \in U : \A B \in U : <<B, A>> \notin R
  <2> HIDE DEF U, R
  <2>1. IsWellFoundedOn(R, FiniteSubsetsOf(Nat))
    BY FS_StrictSubsetOrderingWellFounded DEF R
  <2> QED
    BY <1>2, <2>1, WFMin
<1>4. PICK n \in T : A = 0 .. n
  OBVIOUS
<1>5. ASSUME NEW m \in T, m < n PROVE FALSE
  <2>1. 0 .. m \in U /\ 0 .. m \in SUBSET Nat /\ 0 .. n \in SUBSET Nat
    OBVIOUS
  <2>2. 0 .. m \subseteq 0 .. n /\ n \in 0 .. n /\ n \notin 0 .. m
    BY <1>5
  <2>3. 0 .. m # 0 .. n
    BY <2>2
  <2>4. <<0 .. m, 0 .. n>> \in R
    BY <2>1, <2>2, <2>3 DEF StrictSubsetOrdering
  <2> QED
    BY <1>3, <1>4, <2>1, <2>4
<1> QED
  BY <1>5

LEMMA MinIsLeast ==
  ASSUME NEW A \in SUBSET Nat, A # {}
  PROVE  Min(A) \in A /\ \A m \in A : Min(A) <= m
BY LeastNatural DEF Min

LEMMA MaxIsGreatest ==
  ASSUME NEW n \in Nat, NEW A \in SUBSET (1 .. n), A # {}
  PROVE  Max(A) \in A /\ \A m \in A : m <= Max(A)
<1> DEFINE B == {n - a : a \in A}
<1>1. B \in SUBSET Nat /\ B # {}
  <2>1. \A a \in A : a \in 1 .. n /\ n - a \in Nat
    OBVIOUS
  <2> QED
    BY <2>1
<1>2. PICK b \in B : \A c \in B : b <= c
  <2> HIDE DEF B
  <2> QED
    BY <1>1, LeastNatural
<1>3. PICK a \in A : b = n - a
  BY <1>2
<1>4. ASSUME NEW m \in A PROVE a >= m
  <2>1. n - m \in B /\ n - a <= n - m
    BY <1>2, <1>3
  <2> QED
    BY <2>1
<1>5. Max(A) \in A /\ \A m \in A : Max(A) >= m
  BY <1>4 DEF Max
<1> QED
  BY <1>5

\* A set has each place of an interval that it has the later places for.
Downward(start, end, T) ==
  \A at \in start .. end : (\A later \in at + 1 .. end : later \in T) => at \in T

LEMMA DownwardInduction ==
  ASSUME NEW start \in Int, NEW end \in Int, NEW T, Downward(start, end, T)
  PROVE  start .. end \subseteq T
<1> SUFFICES ASSUME NEW bad \in start .. end, bad \notin T PROVE FALSE
  OBVIOUS
<1> DEFINE B == {end - at : at \in {a \in start .. end : a \notin T}}
<1>1. B \in SUBSET Nat /\ end - bad \in B
  OBVIOUS
<1>2. PICK b \in B : \A c \in B : b <= c
  <2> HIDE DEF B
  <2> QED
    BY <1>1, LeastNatural
<1>3. PICK at \in start .. end : at \notin T /\ b = end - at
  BY <1>2
<1>4. ASSUME NEW later \in at + 1 .. end, later \notin T PROVE FALSE
  <2>1. later \in start .. end /\ later > at /\ end - later \in B
    BY <1>3, <1>4
  <2>2. end - at <= end - later
    BY <1>2, <1>3, <2>1
  <2> QED
    BY <1>3, <2>1, <2>2
<1> QED
  BY <1>3, <1>4 DEF Downward

\* Two sets that agree below k have the same first member, if k is not it in one alone.
LEMMA FirstAgrees ==
  ASSUME NEW k \in Nat, NEW A \in SUBSET (1 .. k), NEW B \in SUBSET (Nat \ {0}), A # {},
         \A n \in 1 .. k : n < k => (n \in A <=> n \in B),
         k \in A => k \in B \/ \E n \in A : n < k
  PROVE  Min(A) \in A /\ Min(A) \in B /\ Min(B) = Min(A) /\ \A n \in A : Min(A) <= n
<1>1. Min(A) \in A /\ \A n \in A : Min(A) <= n
  BY MinIsLeast
<1> DEFINE m == Min(A)
<1> HIDE DEF m
<1>2. m \in A /\ (\A n \in A : m <= n) /\ m \in B
  <2>1. m \in A /\ m \in 1 .. k /\ \A n \in A : m <= n
    BY <1>1 DEF m
  <2>2. CASE m < k
    BY <2>1, <2>2
  <2>3. CASE m = k
    <3>1. ASSUME NEW n \in A, n < k PROVE FALSE
      BY <2>1, <2>3, <3>1
    <3> QED
      BY <2>1, <2>3, <3>1
  <2> QED
    BY <2>1, <2>2, <2>3
<1>3. PICK b \in B : b = Min(B) /\ \A n \in B : b <= n
  BY <1>2, MinIsLeast
<1>4. b = m
  <2>1. b \in 1 .. m /\ m \in 1 .. k
    BY <1>2, <1>3
  <2>2. CASE b < m
    <3>1. b \in 1 .. k /\ b < k
      BY <2>1, <2>2
    <3> QED
      BY <1>2, <1>3, <2>2, <3>1
  <2> QED
    BY <2>1, <2>2
<1> QED
  BY <1>2, <1>3, <1>4 DEF m

-----------------------------------------------------------------------------
(* The scan of a JPEG for its start of frame.                              *)

Scanned(f, scan, at, length) ==
  LET m == f.marker[at]
  IN  IF at >= length THEN None
      ELSE IF at \notin DOMAIN f.marker THEN scan[at + 1]
      ELSE IF at + 1 >= length \/ m.kind = "end" THEN None
      ELSE IF m.kind = "standalone" THEN scan[at + 2]
      ELSE IF at + 4 > length \/ m.length < 2 THEN None
      ELSE IF m.kind = "sof"
           THEN IF m.length < 7 \/ at + 9 > length THEN None
                ELSE Dimensions(m.width, m.height)
      ELSE IF at + 2 + m.length > length THEN None
      ELSE scan[at + 2 + m.length]

\* A scan looks ahead only.
LEMMA ScannedAhead ==
  ASSUME NEW f, IsJpeg(f), NEW length \in Nat, NEW at \in 0 .. length, NEW g, NEW h,
         \A later \in at + 1 .. length : g[later] = h[later]
  PROVE  Scanned(f, g, at, length) = Scanned(f, h, at, length)
<1>1. CASE at >= length
  BY <1>1 DEF Scanned
<1>2. CASE at < length /\ at \notin DOMAIN f.marker
  <2>1. at + 1 \in at + 1 .. length
    BY <1>2
  <2> QED
    BY <1>2, <2>1 DEF Scanned
<1>3. CASE at < length /\ at \in DOMAIN f.marker
  <2>1. f.marker[at].length \in Nat
    BY <1>3 DEF IsJpeg
  <2>2. at + 1 < length => at + 2 \in at + 1 .. length
    OBVIOUS
  <2>3. f.marker[at].length >= 2 /\ at + 2 + f.marker[at].length <= length
          => at + 2 + f.marker[at].length \in at + 1 .. length
    BY <2>1
  <2> QED
    BY <1>3, <2>1, <2>2, <2>3 DEF Scanned
<1> QED
  BY <1>1, <1>2, <1>3

LEMMA ScanExists ==
  ASSUME NEW f, IsJpeg(f), NEW length \in Nat, length >= 2
  PROVE  \E scan : /\ parse_jpeg(f, length) = scan[2]
                   /\ \A at \in 0 .. length : scan[at] = Scanned(f, scan, at, length)
<1> DEFINE Scans(g, at) == g = [x \in at .. length |-> Scanned(f, g, x, length)]
           T == {at \in 0 .. length : \E g : Scans(g, at)}
<1>1. ASSUME NEW at \in 0 .. length, \A later \in at + 1 .. length : later \in T
      PROVE  at \in T
  <2>1. \E g : \A x \in at + 1 .. length : g[x] = Scanned(f, g, x, length)
    <3>1. CASE at = length
      BY <3>1
    <3>2. CASE at < length
      <4>1. at + 1 \in T
        BY <1>1, <3>2
      <4>2. PICK g : Scans(g, at + 1)
        BY <4>1
      <4>3. g = [x \in at + 1 .. length |-> Scanned(f, g, x, length)]
        BY <4>2
      <4> HIDE DEF Scans, T
      <4>4. \A x \in at + 1 .. length : g[x] = Scanned(f, g, x, length)
        BY <4>3
      <4> QED
        BY <4>4
    <3> QED
      BY <3>1, <3>2
  <2>2. PICK g : \A x \in at + 1 .. length : g[x] = Scanned(f, g, x, length)
    BY <2>1
  <2> DEFINE h == [x \in at .. length |-> Scanned(f, g, x, length)]
  <2>3. \A x \in at + 1 .. length : h[x] = g[x]
    BY <2>2
  <2>4. ASSUME NEW x \in at .. length PROVE h[x] = Scanned(f, h, x, length)
    <3>1. x \in 0 .. length /\ \A later \in x + 1 .. length : h[later] = g[later]
      BY <2>3
    <3>2. h[x] = Scanned(f, g, x, length)
      OBVIOUS
    <3> HIDE DEF h
    <3> QED
      BY <3>1, <3>2, ScannedAhead
  <2>5. h = [x \in at .. length |-> h[x]]
    OBVIOUS
  <2> HIDE DEF h
  <2>6. Scans(h, at)
    BY <2>4, <2>5
  <2> QED
    BY <2>6
<1>2. 0 .. length \subseteq T
  <2>1. Downward(0, length, T)
    BY <1>1 DEF Downward
  <2> HIDE DEF T
  <2> QED
    BY <2>1, DownwardInduction
<1>3. \E g : Scans(g, 0)
  BY <1>2
<1> DEFINE scan == CHOOSE g : Scans(g, 0)
<1>4. Scans(scan, 0)
  BY <1>3
<1>5. parse_jpeg(f, length) = scan[2]
  BY DEF parse_jpeg, Scanned
<1>6. \A at \in 0 .. length : scan[at] = Scanned(f, scan, at, length)
  <2> HIDE DEF scan
  <2> QED
    BY <1>4
<1> QED
  BY <1>5, <1>6

\* What is found in the beginning of a JPEG is found in all of it.
LEMMA ClippedJpeg ==
  ASSUME NEW f, IsJpeg(f), NEW length \in Nat, length <= f.len
  PROVE  parse_jpeg(f, length) \in {None, parse_jpeg(f, f.len)}
<1>1. CASE length < 2
  BY <1>1 DEF parse_jpeg
<1>2. CASE length >= 2
  <2>0. f.len \in Nat /\ f.len >= 2
    BY <1>2 DEF IsJpeg
  <2>1. PICK part : /\ parse_jpeg(f, length) = part[2]
                    /\ \A at \in 0 .. length : part[at] = Scanned(f, part, at, length)
    BY <1>2, ScanExists
  <2>2. PICK whole : /\ parse_jpeg(f, f.len) = whole[2]
                     /\ \A at \in 0 .. f.len : whole[at] = Scanned(f, whole, at, f.len)
    BY <2>0, ScanExists
  <2> DEFINE T == {at \in 0 .. length : part[at] \in {None, whole[at]}}
  <2>3. ASSUME NEW at \in 0 .. length, \A later \in at + 1 .. length : later \in T
        PROVE  at \in T
    <3>1. /\ part[at] = Scanned(f, part, at, length)
          /\ whole[at] = Scanned(f, whole, at, f.len)
      BY <2>0, <2>1, <2>2
    <3>2. \A later \in at + 1 .. length : part[later] \in {None, whole[later]}
      BY <2>3
    <3>3. CASE at >= length
      BY <3>1, <3>3 DEF Scanned
    <3>4. CASE at < length /\ at \notin DOMAIN f.marker
      <4>1. part[at] = part[at + 1] /\ whole[at] = whole[at + 1] /\ at + 1 \in at + 1 .. length
        BY <2>0, <3>1, <3>4 DEF Scanned
      <4> QED
        BY <3>2, <4>1
    <3>5. CASE at < length /\ at \in DOMAIN f.marker
      <4> DEFINE m == f.marker[at]
      <4>1. m.length \in Nat
        BY <3>5 DEF IsJpeg
      <4> HIDE DEF m
      <4>2. CASE at + 1 >= length \/ m.kind = "end"
        BY <3>1, <3>5, <4>2 DEF Scanned, m
      <4>3. CASE at + 1 < length /\ m.kind = "standalone"
        <5>1. part[at] = part[at + 2] /\ whole[at] = whole[at + 2] /\ at + 2 \in at + 1 .. length
          BY <2>0, <3>1, <3>5, <4>3 DEF Scanned, m
        <5> QED
          BY <3>2, <5>1
      <4>4. CASE /\ at + 1 < length /\ m.kind \notin {"end", "standalone"}
                 /\ at + 4 > length \/ m.length < 2
        BY <3>1, <3>5, <4>4 DEF Scanned, m
      <4>5. CASE /\ at + 4 <= length /\ m.kind = "sof" /\ m.length >= 2
        BY <2>0, <3>1, <3>5, <4>1, <4>5 DEF Scanned, m
      <4>6. CASE /\ at + 4 <= length /\ m.kind \notin {"end", "standalone", "sof"} /\ m.length >= 2
        <5>1. CASE at + 2 + m.length > length
          BY <3>1, <3>5, <4>1, <4>6, <5>1 DEF Scanned, m
        <5>2. CASE at + 2 + m.length <= length
          <6>1. /\ part[at] = part[at + 2 + m.length]
                /\ whole[at] = whole[at + 2 + m.length]
                /\ at + 2 + m.length \in at + 1 .. length
            BY <2>0, <3>1, <3>5, <4>1, <4>6, <5>2 DEF Scanned, m
          <6> QED
            BY <3>2, <6>1
        <5> QED
          BY <4>1, <5>1, <5>2
      <4> QED
        BY <3>5, <4>1, <4>2, <4>3, <4>4, <4>5, <4>6
    <3> QED
      BY <3>3, <3>4, <3>5
  <2>4. 0 .. length \subseteq T
    <3>1. Downward(0, length, T)
      BY <2>3 DEF Downward
    <3> HIDE DEF T
    <3> QED
      BY <3>1, DownwardInduction
  <2>5. 2 \in T
    BY <1>2, <2>4
  <2> QED
    BY <2>1, <2>2, <2>5
<1> QED
  BY <1>1, <1>2

-----------------------------------------------------------------------------
(* The walk over the elements of a WebM file.                              *)

\* The walk ends with this element.
LastElement(e, at) == e.kind = "malformed" \/ e.unknown_size \/ e.payload_end <= at

Walked(f, walk, at, end) ==
  LET e == read_ebml_element(f, at, end)
  IN  IF at >= end THEN <<>>
      ELSE IF e.kind = "malformed" \/ e.unknown_size \/ e.payload_end <= at THEN <<e>>
      ELSE <<e>> \o walk[e.payload_end]

\* Where the payload of an element would end, were it not clipped.
DeclaredEnd(f, at, end) ==
  IF f.element[at].size = Unknown THEN end
  ELSE at + f.element[at].header + f.element[at].size

ElementAt(f, at, end) ==
  LET start == at + f.element[at].header
      stop  == DeclaredEnd(f, at, end)
  IN  [kind          |-> f.element[at].id,
       payload_start |-> start,
       payload_end   |-> IF stop < end THEN stop ELSE end,
       complete      |-> f.element[at].size # Unknown /\ stop <= end,
       unknown_size  |-> f.element[at].size = Unknown]

LEMMA ReadCases ==
  ASSUME NEW f, IsEbml(f), NEW end \in Nat, NEW at \in 0 .. end
  PROVE  \/ /\ at \notin DOMAIN f.element \/ at + f.element[at].header > end
            /\ read_ebml_element(f, at, end) = [kind |-> "malformed"]
         \/ /\ at \in DOMAIN f.element
            /\ f.element[at].header \in Nat /\ f.element[at].size \in Int
            /\ at + f.element[at].header <= end
            /\ DeclaredEnd(f, at, end) \in Nat /\ at + f.element[at].header <= DeclaredEnd(f, at, end)
            /\ read_ebml_element(f, at, end) = ElementAt(f, at, end)
<1>1. CASE at \notin DOMAIN f.element
  BY <1>1 DEF read_ebml_element
<1>2. CASE at \in DOMAIN f.element
  <2> DEFINE header == f.element[at].header
             size   == f.element[at].size
  <2>1. header \in Nat \ {0} /\ size \in Nat \cup {-1}
    BY <1>2 DEF IsEbml, Unknown
  <2>2. CASE at + header > end
    BY <1>2, <2>2 DEF read_ebml_element
  <2>3. CASE at + header <= end
    <3>1. ~(at + header > end)
      BY <2>1, <2>3
    <3>2. read_ebml_element(f, at, end) = ElementAt(f, at, end)
      BY <1>2, <3>1 DEF read_ebml_element, ElementAt, DeclaredEnd
    <3>3. DeclaredEnd(f, at, end) \in Nat /\ at + header <= DeclaredEnd(f, at, end)
      <4> HIDE DEF header, size
      <4>1. CASE size = -1
        <5>1. DeclaredEnd(f, at, end) = end
          BY <4>1 DEF DeclaredEnd, Unknown, size
        <5> QED
          BY <2>1, <2>3, <5>1
      <4>2. CASE size # -1
        <5>1. DeclaredEnd(f, at, end) = at + header + size
          BY <4>2 DEF DeclaredEnd, Unknown, size, header
        <5> QED
          BY <2>1, <4>2, <5>1
      <4> QED
        BY <4>1, <4>2
    <3> QED
      BY <1>2, <2>1, <2>3, <3>2, <3>3
  <2> QED
    BY <2>1, <2>2, <2>3
<1> QED
  BY <1>1, <1>2

\* An element that is not the last of a walk ends ahead.
LEMMA ElementAhead ==
  ASSUME NEW f, IsEbml(f), NEW end \in Nat, NEW at \in 0 .. end,
         ~LastElement(read_ebml_element(f, at, end), at)
  PROVE  read_ebml_element(f, at, end).payload_end \in at + 1 .. end
<1> DEFINE e == read_ebml_element(f, at, end)
<1>1. e.kind # "malformed" /\ ~(e.payload_end <= at)
  BY DEF LastElement
<1>2. /\ DeclaredEnd(f, at, end) \in Nat /\ e = ElementAt(f, at, end)
  BY <1>1, ReadCases
<1>3. e.payload_end = IF DeclaredEnd(f, at, end) < end THEN DeclaredEnd(f, at, end) ELSE end
  BY <1>2 DEF ElementAt
<1> HIDE DEF e
<1>4. e.payload_end \in at + 1 .. end
  BY <1>1, <1>2, <1>3
<1> QED
  BY <1>4 DEF e

LEMMA WalkedAhead ==
  ASSUME NEW f, IsEbml(f), NEW end \in Nat, NEW at \in 0 .. end, NEW g, NEW h,
         \A later \in at + 1 .. end : g[later] = h[later]
  PROVE  Walked(f, g, at, end) = Walked(f, h, at, end)
<1>1. CASE LastElement(read_ebml_element(f, at, end), at)
  BY <1>1 DEF Walked, LastElement
<1>2. CASE ~LastElement(read_ebml_element(f, at, end), at)
  <2>1. read_ebml_element(f, at, end).payload_end \in at + 1 .. end
    BY <1>2, ElementAhead
  <2>2. g[read_ebml_element(f, at, end).payload_end] = h[read_ebml_element(f, at, end).payload_end]
    BY <2>1
  <2> QED
    BY <1>2, <2>2 DEF Walked, LastElement
<1> QED
  BY <1>1, <1>2

LEMMA WalkExists ==
  ASSUME NEW f, IsEbml(f), NEW end \in Nat, NEW start \in 0 .. end
  PROVE  \E walk : /\ Elements(f, start, end) = walk[start]
                   /\ \A at \in start .. end : walk[at] = Walked(f, walk, at, end)
<1> DEFINE Walks(g, at) == g = [x \in at .. end |-> Walked(f, g, x, end)]
           T == {at \in start .. end : \E g : Walks(g, at)}
<1>1. ASSUME NEW at \in start .. end, \A later \in at + 1 .. end : later \in T
      PROVE  at \in T
  <2>1. \E g : \A x \in at + 1 .. end : g[x] = Walked(f, g, x, end)
    <3>1. CASE at = end
      BY <3>1
    <3>2. CASE at < end
      <4>1. at + 1 \in T
        BY <1>1, <3>2
      <4>2. PICK g : Walks(g, at + 1)
        BY <4>1
      <4>3. g = [x \in at + 1 .. end |-> Walked(f, g, x, end)]
        BY <4>2
      <4> HIDE DEF Walks, T
      <4>4. \A x \in at + 1 .. end : g[x] = Walked(f, g, x, end)
        BY <4>3
      <4> QED
        BY <4>4
    <3> QED
      BY <3>1, <3>2
  <2>2. PICK g : \A x \in at + 1 .. end : g[x] = Walked(f, g, x, end)
    BY <2>1
  <2> DEFINE h == [x \in at .. end |-> Walked(f, g, x, end)]
  <2>3. \A x \in at + 1 .. end : h[x] = g[x]
    BY <2>2
  <2>4. ASSUME NEW x \in at .. end PROVE h[x] = Walked(f, h, x, end)
    <3>1. x \in 0 .. end /\ \A later \in x + 1 .. end : later \in at + 1 .. end
      OBVIOUS
    <3>2. h[x] = Walked(f, g, x, end)
      OBVIOUS
    <3> HIDE DEF h
    <3> QED
      BY <2>3, <3>1, <3>2, WalkedAhead
  <2>5. h = [x \in at .. end |-> h[x]]
    OBVIOUS
  <2> HIDE DEF h
  <2>6. Walks(h, at)
    BY <2>4, <2>5
  <2> QED
    BY <2>6
<1>2. start .. end \subseteq T
  <2>1. Downward(start, end, T)
    BY <1>1 DEF Downward
  <2> HIDE DEF T
  <2> QED
    BY <2>1, DownwardInduction
<1>3. \E g : Walks(g, start)
  BY <1>2
<1> DEFINE walk == CHOOSE g : Walks(g, start)
<1>4. Walks(walk, start)
  BY <1>3
<1>5. Elements(f, start, end) = walk[start]
  <2>1. ~(start > end)
    OBVIOUS
  <2> QED
    BY <2>1 DEF Elements, Walked
<1>6. \A at \in start .. end : walk[at] = Walked(f, walk, at, end)
  <2> HIDE DEF walk
  <2> QED
    BY <1>4
<1> QED
  BY <1>5, <1>6

Parts(f, end) == {read_ebml_element(f, at, end) : at \in 0 .. end}

\* An element at the end of what is read, and the same one in the whole file.
Cut(p, q) ==
  /\ p.kind = q.kind /\ p.payload_start = q.payload_start /\ ~p.complete
  /\ p.payload_start \in Nat /\ q.payload_end \in Nat
  /\ p.payload_end \in p.payload_start .. q.payload_end

IsWalk(u) == \E S : u \in Seq(S)

\* u is a beginning of the walk w, but for its last part.
Begins(u, w) ==
  /\ IsWalk(u) /\ IsWalk(w)
  /\ \A i \in 1 .. Len(u) :
       \/ i <= Len(w) /\ u[i] = w[i]
       \/ i = Len(u) /\ u[i].kind = "malformed"
       \/ i = Len(u) /\ i <= Len(w) /\ Cut(u[i], w[i])

LEMMA NothingBegins ==
  ASSUME NEW w, IsWalk(w)
  PROVE  Begins(<<>>, w)
BY DEF Begins, IsWalk

\* A part and a walk.
LEMMA Prepended ==
  ASSUME NEW S, NEW e \in S, NEW w \in Seq(S)
  PROVE  /\ <<e>> \o w \in Seq(S) /\ Len(<<e>> \o w) = Len(w) + 1
         /\ (<<e>> \o w)[1] = e
         /\ \A i \in 1 .. Len(w) + 1 : i # 1 => (<<e>> \o w)[i] = w[i - 1]
OBVIOUS

LEMMA LastBegins ==
  ASSUME NEW S, NEW p, NEW w \in Seq(S), Len(w) >= 1,
         p.kind = "malformed" \/ p = w[1] \/ Cut(p, w[1])
  PROVE  Begins(<<p>>, w)
<1>1. <<p>> \in Seq({p}) /\ Len(<<p>>) = 1 /\ <<p>>[1] = p
  OBVIOUS
<1>2. IsWalk(<<p>>) /\ IsWalk(w)
  BY <1>1 DEF IsWalk
<1>3. ASSUME NEW i \in 1 .. Len(<<p>>)
      PROVE  \/ i <= Len(w) /\ <<p>>[i] = w[i]
             \/ i = Len(<<p>>) /\ <<p>>[i].kind = "malformed"
             \/ i = Len(<<p>>) /\ i <= Len(w) /\ Cut(<<p>>[i], w[i])
  <2>1. i = 1
    BY <1>1
  <2> QED
    BY <1>1, <2>1
<1> QED
  BY <1>2, <1>3 DEF Begins

LEMMA PrependedBegins ==
  ASSUME NEW S, NEW R, NEW e \in S \cap R, NEW u \in Seq(S), NEW w \in Seq(R), Begins(u, w)
  PROVE  Begins(<<e>> \o u, <<e>> \o w)
<1> DEFINE x == <<e>> \o u
           y == <<e>> \o w
<1>1. /\ x \in Seq(S) /\ Len(x) = Len(u) + 1 /\ x[1] = e
      /\ \A i \in 1 .. Len(u) + 1 : i # 1 => x[i] = u[i - 1]
  BY Prepended
<1>2. /\ y \in Seq(R) /\ Len(y) = Len(w) + 1 /\ y[1] = e
      /\ \A i \in 1 .. Len(w) + 1 : i # 1 => y[i] = w[i - 1]
  BY Prepended
<1>3. Len(u) \in Nat /\ Len(w) \in Nat
  OBVIOUS
<1> HIDE DEF x, y
<1>4. ASSUME NEW i \in 1 .. Len(x)
      PROVE  \/ i <= Len(y) /\ x[i] = y[i]
             \/ i = Len(x) /\ x[i].kind = "malformed"
             \/ i = Len(x) /\ i <= Len(y) /\ Cut(x[i], y[i])
  <2>1. CASE i = 1
    BY <1>1, <1>2, <1>3, <2>1
  <2>2. CASE i # 1
    <3>1. i - 1 \in 1 .. Len(u) /\ x[i] = u[i - 1] /\ (i = Len(x) <=> i - 1 = Len(u))
      BY <1>1, <1>3, <2>2
    <3>2. i <= Len(y) <=> i - 1 <= Len(w)
      BY <1>2, <1>3
    <3>3. i - 1 <= Len(w) => y[i] = w[i - 1]
      BY <1>2, <1>3, <2>2
    <3> QED
      BY <3>1, <3>2, <3>3 DEF Begins
  <2> QED
    BY <2>1, <2>2
<1>5. IsWalk(x) /\ IsWalk(y)
  BY <1>1, <1>2 DEF IsWalk
<1>6. Begins(x, y)
  BY <1>4, <1>5 DEF Begins
<1> QED
  BY <1>6 DEF x, y

LEMMA WalkIsSequence ==
  ASSUME NEW f, IsEbml(f), NEW end \in Nat, NEW start \in 0 .. end, NEW walk,
         \A at \in start .. end : walk[at] = Walked(f, walk, at, end)
  PROVE  \A at \in start .. end : walk[at] \in Seq(Parts(f, end))
<1> DEFINE T == {at \in start .. end : walk[at] \in Seq(Parts(f, end))}
<1>1. ASSUME NEW at \in start .. end, \A later \in at + 1 .. end : later \in T
      PROVE  at \in T
  <2> DEFINE e == read_ebml_element(f, at, end)
             S == Parts(f, end)
  <2>1. at \in 0 .. end /\ e \in S
    BY DEF Parts
  <2>0. walk[at] = IF at >= end THEN <<>>
                   ELSE IF LastElement(e, at) THEN <<e>> ELSE <<e>> \o walk[e.payload_end]
    <3>1. walk[at] = Walked(f, walk, at, end)
      OBVIOUS
    <3> QED
      BY ONLY <3>1 DEF Walked, LastElement
  <2>5. ASSUME walk[at] \in Seq(S) PROVE at \in T
    BY <2>5
  <2>2. CASE at >= end
    BY <2>0, <2>2, <2>5
  <2>3. CASE at < end /\ LastElement(e, at)
    <3>1. walk[at] = <<e>>
      BY <2>0, <2>3
    <3> HIDE DEF e, S, T
    <3> QED
      BY <2>1, <2>5, <3>1
  <2>4. CASE at < end /\ ~LastElement(e, at)
    <3>1. walk[at] = <<e>> \o walk[e.payload_end]
      BY <2>0, <2>4
    <3>2. e.payload_end \in at + 1 .. end
      BY <2>1, <2>4, ElementAhead
    <3>3. walk[e.payload_end] \in Seq(S)
      <4>1. e.payload_end \in T
        <5> HIDE DEF e, T
        <5> QED
          BY <1>1, <3>2
      <4> QED
        BY <4>1
    <3> HIDE DEF e, S, T
    <3> QED
      BY <2>1, <2>5, <3>1, <3>3
  <2> QED
    BY <2>1, <2>2, <2>3, <2>4
<1>2. start .. end \subseteq T
  <2>1. Downward(start, end, T)
    BY <1>1 DEF Downward
  <2> HIDE DEF T
  <2> QED
    BY <2>1, DownwardInduction
<1> QED
  BY <1>2

LEMMA ElementFields ==
  ASSUME NEW f, NEW at, NEW end, NEW e, e = ElementAt(f, at, end)
  PROVE  /\ e.kind = f.element[at].id
         /\ e.payload_start = at + f.element[at].header
         /\ e.payload_end = IF DeclaredEnd(f, at, end) < end THEN DeclaredEnd(f, at, end) ELSE end
         /\ e.complete <=> f.element[at].size # Unknown /\ DeclaredEnd(f, at, end) <= end
         /\ e.unknown_size <=> f.element[at].size = Unknown
BY DEF ElementAt

\* What a limit does to an element.
LEMMA ReadClipped ==
  ASSUME NEW f, IsEbml(f), NEW whole \in Nat, NEW end \in 0 .. whole, NEW at \in 0 .. end,
         NEW p, p = read_ebml_element(f, at, end), NEW q, q = read_ebml_element(f, at, whole)
  PROVE  \/ p.kind = "malformed"
         \/ p = q
         \/ Cut(p, q) /\ (p.unknown_size \/ p.payload_end = end)
<1> SUFFICES ASSUME p.kind # "malformed"
             PROVE  p = q \/ (Cut(p, q) /\ (p.unknown_size \/ p.payload_end = end))
  OBVIOUS
<1> DEFINE header == f.element[at].header
           size   == f.element[at].size
           start  == at + header
<1>1. /\ at \in DOMAIN f.element /\ header \in Nat /\ size \in Int /\ start <= end
      /\ DeclaredEnd(f, at, end) \in Nat /\ start <= DeclaredEnd(f, at, end)
      /\ p = ElementAt(f, at, end)
  BY ReadCases
<1>2. /\ DeclaredEnd(f, at, whole) \in Nat /\ start <= DeclaredEnd(f, at, whole)
      /\ q = ElementAt(f, at, whole)
  <2>1. at \in 0 .. whole /\ ~(start > whole)
    BY <1>1
  <2> QED
    BY <1>1, <2>1, ReadCases
<1>3. CASE size = Unknown
  <2>1. DeclaredEnd(f, at, end) = end /\ DeclaredEnd(f, at, whole) = whole
    BY <1>3 DEF DeclaredEnd
  <2>2. /\ p.kind = q.kind /\ p.payload_start = start /\ q.payload_start = start
        /\ p.payload_end = end /\ q.payload_end = whole /\ ~p.complete /\ p.unknown_size
    BY <1>1, <1>2, <1>3, <2>1, ElementFields
  <2> QED
    BY <1>1, <2>2 DEF Cut
<1>4. CASE size # Unknown /\ DeclaredEnd(f, at, end) <= end
  <2>1. DeclaredEnd(f, at, whole) = DeclaredEnd(f, at, end)
    BY <1>4 DEF DeclaredEnd
  <2>2. p = q
    <3> DEFINE stop == DeclaredEnd(f, at, end)
    <3>1. stop <= end /\ stop <= whole /\ stop \in Nat
      BY <1>1, <1>4
    <3>2. (IF stop < end THEN stop ELSE end) = stop /\ (IF stop < whole THEN stop ELSE whole) = stop
      BY <3>1
    <3>3. (size # Unknown /\ stop <= end) = (size # Unknown /\ stop <= whole)
      BY <1>4, <3>1
    <3> QED
      BY <1>1, <1>2, <2>1, <3>2, <3>3 DEF ElementAt
  <2> QED
    BY <2>2
<1>5. CASE size # Unknown /\ DeclaredEnd(f, at, end) > end
  <2>1. DeclaredEnd(f, at, whole) = DeclaredEnd(f, at, end)
    BY <1>5 DEF DeclaredEnd
  <2>2. /\ p.kind = q.kind /\ p.payload_start = start /\ q.payload_start = start
        /\ p.payload_end = end /\ q.payload_end \in end .. whole /\ ~p.complete
    BY <1>1, <1>2, <1>5, <2>1, ElementFields
  <2> QED
    BY <1>1, <2>2 DEF Cut
<1> QED
  BY <1>1, <1>3, <1>4, <1>5

\* The walk over the beginning of a file begins the walk over all of it.
LEMMA ElementsBegin ==
  ASSUME NEW f, IsEbml(f), NEW length \in Nat, NEW end \in 0 .. length, NEW start \in 0 .. end
  PROVE  Begins(Elements(f, start, end), Elements(f, start, length))
<1>1. PICK part : /\ Elements(f, start, end) = part[start]
                  /\ \A at \in start .. end : part[at] = Walked(f, part, at, end)
  BY WalkExists
<1>2. start \in 0 .. length
  OBVIOUS
<1>3. PICK whole : /\ Elements(f, start, length) = whole[start]
                   /\ \A at \in start .. length : whole[at] = Walked(f, whole, at, length)
  BY <1>2, WalkExists
<1> DEFINE S == Parts(f, end)
           R == Parts(f, length)
<1>4. \A at \in start .. end : part[at] \in Seq(S)
  BY <1>1, WalkIsSequence
<1>5. \A at \in start .. length : whole[at] \in Seq(R)
  BY <1>2, <1>3, WalkIsSequence
<1> DEFINE T == {at \in start .. end : Begins(part[at], whole[at])}
<1>6. ASSUME NEW at \in start .. end, \A later \in at + 1 .. end : later \in T
      PROVE  at \in T
  <2> DEFINE p == read_ebml_element(f, at, end)
             q == read_ebml_element(f, at, length)
             u == part[at]
             w == whole[at]
  <2>0. SUFFICES Begins(u, w)
    OBVIOUS
  <2>1. /\ at \in start .. length /\ at \in 0 .. end /\ at \in 0 .. length
        /\ p \in S /\ q \in R /\ u \in Seq(S) /\ w \in Seq(R)
    BY <1>4, <1>5 DEF Parts
  <2>2. u = IF at >= end THEN <<>>
            ELSE IF LastElement(p, at) THEN <<p>> ELSE <<p>> \o part[p.payload_end]
    <3>1. part[at] = Walked(f, part, at, end)
      BY <1>1
    <3> QED
      BY ONLY <3>1 DEF Walked, LastElement
  <2>3. w = IF at >= length THEN <<>>
            ELSE IF LastElement(q, at) THEN <<q>> ELSE <<q>> \o whole[q.payload_end]
    <3>1. whole[at] = Walked(f, whole, at, length)
      BY <1>3, <2>1
    <3> QED
      BY ONLY <3>1 DEF Walked, LastElement
  <2>4. CASE at >= end
    <3>1. u = <<>> /\ IsWalk(w)
      BY <2>1, <2>2, <2>4 DEF IsWalk
    <3> QED
      BY <3>1, NothingBegins
  <2>5. CASE at < end
    <3>1. Len(w) >= 1 /\ w[1] = q
      <4>1. CASE LastElement(q, at)
        BY <2>3, <2>5, <4>1
      <4>2. CASE ~LastElement(q, at)
        <5>1. q.payload_end \in at + 1 .. length
          BY <2>1, <4>2, ElementAhead
        <5>2. w = <<q>> \o whole[q.payload_end] /\ whole[q.payload_end] \in Seq(R)
          <6> HIDE DEF q, w, R
          <6> QED
            BY <1>5, <2>3, <2>5, <4>2, <5>1
        <5> HIDE DEF q, w, R
        <5> QED
          BY <2>1, <5>2, Prepended
      <4> QED
        BY <4>1, <4>2
    <3>2. \/ p.kind = "malformed"
          \/ p = q
          \/ Cut(p, q) /\ (p.unknown_size \/ p.payload_end = end)
      BY <2>1, ReadClipped
    <3>3. ~LastElement(p, at) => p.payload_end \in at + 1 .. end
      BY <2>1, ElementAhead
    <3>4. part[end] = <<>>
      <4>1. end \in start .. end /\ end >= end
        OBVIOUS
      <4> QED
        BY <1>1, <4>1 DEF Walked
    <3> HIDE DEF p, q, u, w, R, S, T
    <3>5. CASE u = <<p>>
      <4>1. p.kind = "malformed" \/ p = w[1] \/ Cut(p, w[1])
        BY <3>1, <3>2
      <4> QED
        BY <2>1, <3>1, <3>5, <4>1, LastBegins
    <3>6. CASE u # <<p>>
      <4>1. ~LastElement(p, at) /\ u = <<p>> \o part[p.payload_end]
        BY <2>2, <2>5, <3>6
      <4>2. p = q
        <5>1. CASE p.payload_end = end
          <6>1. <<p>> \o <<>> = <<p>>
            OBVIOUS
          <6> QED
            BY <3>4, <3>6, <4>1, <5>1, <6>1
        <5>2. CASE p.payload_end # end
          BY <3>2, <4>1, <5>2 DEF LastElement
        <5> QED
          BY <5>1, <5>2
      <4>3. w = <<p>> \o whole[p.payload_end]
        <5>1. ~(at >= length)
          BY <2>1, <2>5
        <5> QED
          BY <2>3, <4>1, <4>2, <5>1
      <4>4. /\ p.payload_end \in start .. end /\ p.payload_end \in start .. length
            /\ p.payload_end \in T
        BY <1>6, <3>3, <4>1
      <4>5. /\ part[p.payload_end] \in Seq(S) /\ whole[p.payload_end] \in Seq(R)
            /\ Begins(part[p.payload_end], whole[p.payload_end])
        BY <1>4, <1>5, <4>4 DEF T
      <4> QED
        BY <2>1, <4>1, <4>2, <4>3, <4>5, PrependedBegins
    <3> QED
      BY <3>5, <3>6
  <2> QED
    BY <2>4, <2>5
<1>7. start .. end \subseteq T
  <2>1. Downward(start, end, T)
    BY <1>6 DEF Downward
  <2> HIDE DEF T
  <2> QED
    BY <2>1, DownwardInduction
<1> QED
  BY <1>1, <1>3, <1>7

-----------------------------------------------------------------------------
(* What a reader takes from a walk, when it is told what each part says.    *)

\* What the last part of a kind says, of the first n parts.
LastOf(u, n, kinds, x) ==
  LET seen == {i \in At(u, kinds) : i <= n}
  IN  IF seen = {} THEN None ELSE x[Max(seen)]

\* What the first member of a set says.
Chosen(A, x) == IF A = {} THEN None ELSE x[Min(A)]

Same(u, w, n) == n <= Len(u) /\ n <= Len(w) /\ \A i \in 1 .. n : u[i] = w[i]

Clips(u, w, n) ==
  n <= Len(u) /\ n <= Len(w) /\ \A i \in 1 .. n : u[i] = w[i] \/ Cut(u[i], w[i])

LEMMA BeginsTo ==
  ASSUME NEW u, NEW w, Begins(u, w), NEW n \in 1 .. Len(u)
  PROVE  /\ Len(u) \in Nat /\ Len(w) \in Nat
         /\ n < Len(u) => Same(u, w, n)
         /\ u[n].kind = "malformed" \/ Clips(u, w, n)
<1>1. Len(u) \in Nat /\ Len(w) \in Nat
  BY DEF Begins, IsWalk
<1>2. ASSUME n < Len(u) PROVE Same(u, w, n)
  <2>1. \A i \in 1 .. n : i \in 1 .. Len(u) /\ i # Len(u)
    BY <1>1, <1>2
  <2>2. \A i \in 1 .. n : i <= Len(w) /\ u[i] = w[i]
    BY <2>1 DEF Begins
  <2>3. n \in 1 .. n
    BY <1>1
  <2> QED
    BY <1>2, <2>2, <2>3 DEF Same
<1>3. CASE n < Len(u)
  BY <1>2, <1>3 DEF Same, Clips
<1>4. CASE n = Len(u) /\ u[n].kind # "malformed"
  <2>1. n <= Len(w) /\ (u[n] = w[n] \/ Cut(u[n], w[n]))
    BY <1>4 DEF Begins
  <2>2. ASSUME NEW i \in 1 .. n PROVE u[i] = w[i] \/ Cut(u[i], w[i])
    <3>1. CASE i = n
      BY <2>1, <3>1
    <3>2. CASE i # n
      <4>1. i \in 1 .. Len(u) /\ i # Len(u)
        BY <1>1, <1>4, <3>2
      <4> QED
        BY <4>1 DEF Begins
    <3> QED
      BY <3>1, <3>2
  <2> QED
    BY <1>1, <1>2, <1>4, <2>1, <2>2 DEF Clips
<1> QED
  BY <1>1, <1>2, <1>3, <1>4

LEMMA LastClipped ==
  ASSUME NEW u, NEW w, NEW n \in Nat, NEW kinds, NEW x, NEW y, Len(u) \in Nat, Len(w) \in Nat,
         Clips(u, w, n), \A i \in 1 .. n : x[i] \in {None, y[i]}
  PROVE  LastOf(u, n, kinds, x) \in {None, LastOf(w, n, kinds, y)}
<1> DEFINE A == {i \in At(u, kinds) : i <= n}
           B == {i \in At(w, kinds) : i <= n}
<1>1. \A i \in 1 .. n : u[i].kind = w[i].kind /\ i \in 1 .. Len(u) /\ i \in 1 .. Len(w)
  BY DEF Clips, Cut
<1>2. A = B /\ A \in SUBSET (1 .. n)
  <2>1. A = {i \in 1 .. n : u[i].kind = kinds}
    BY <1>1 DEF At
  <2>2. B = {i \in 1 .. n : w[i].kind = kinds}
    BY <1>1 DEF At
  <2> HIDE DEF A, B
  <2> QED
    BY <1>1, <2>1, <2>2
<1>3. /\ LastOf(u, n, kinds, x) = IF A = {} THEN None ELSE x[Max(A)]
      /\ LastOf(w, n, kinds, y) = IF B = {} THEN None ELSE y[Max(B)]
  BY DEF LastOf
<1> HIDE DEF A, B
<1>4. A # {} => Max(A) \in 1 .. n
  BY <1>2, MaxIsGreatest
<1> QED
  BY <1>2, <1>3, <1>4

LEMMA LastSame ==
  ASSUME NEW u, NEW w, NEW n \in Nat, NEW kinds, NEW x, NEW y, Len(u) \in Nat, Len(w) \in Nat,
         Same(u, w, n), \A i \in 1 .. n : x[i] = y[i]
  PROVE  LastOf(u, n, kinds, x) = LastOf(w, n, kinds, y)
<1>1. Clips(u, w, n) /\ Clips(w, u, n)
  BY DEF Same, Clips
<1>2. \A i \in 1 .. n : x[i] \in {None, y[i]} /\ y[i] \in {None, x[i]}
  OBVIOUS
<1>3. LastOf(u, n, kinds, x) \in {None, LastOf(w, n, kinds, y)}
  BY <1>1, <1>2, LastClipped
<1>4. LastOf(w, n, kinds, y) \in {None, LastOf(u, n, kinds, x)}
  BY <1>1, <1>2, LastClipped
<1> QED
  BY <1>3, <1>4

LEMMA LastSkips ==
  ASSUME NEW u, Len(u) \in Nat, NEW n \in 1 .. Len(u), NEW kinds, NEW x,
         u[n].kind # kinds, LastOf(u, n, kinds, x) # None
  PROVE  n - 1 \in 1 .. Len(u) /\ LastOf(u, n - 1, kinds, x) = LastOf(u, n, kinds, x)
<1> DEFINE A == {i \in At(u, kinds) : i <= n}
           B == {i \in At(u, kinds) : i <= n - 1}
<1>1. A = B
  <2>1. \A i \in At(u, kinds) : i \in Nat /\ i # n
    BY DEF At
  <2> QED
    BY <2>1
<1>2. /\ LastOf(u, n, kinds, x) = IF A = {} THEN None ELSE x[Max(A)]
      /\ LastOf(u, n - 1, kinds, x) = IF B = {} THEN None ELSE x[Max(B)]
  BY DEF LastOf
<1>3. A # {}
  BY <1>2
<1>4. PICK i \in B : i \in 1 .. Len(u) /\ i <= n - 1
  BY <1>1, <1>3 DEF At
<1>5. n - 1 \in 1 .. Len(u)
  BY <1>4
<1> HIDE DEF A, B
<1> QED
  BY <1>1, <1>2, <1>5

LEMMA ChosenClipped ==
  ASSUME NEW k \in Nat, NEW A \in SUBSET (1 .. k), NEW B \in SUBSET (Nat \ {0}), NEW x, NEW y,
         \A n \in 1 .. k : n < k => (n \in A <=> n \in B),
         \A n \in A : (n \in B /\ x[n] = y[n]) \/ \E m \in A : m < n
  PROVE  Chosen(A, x) \in {None, Chosen(B, y)}
<1>1. CASE A = {}
  BY <1>1 DEF Chosen
<1>2. CASE A # {}
  <2>1. k \in A => k \in B \/ \E n \in A : n < k
    OBVIOUS
  <2>2. Min(A) \in A /\ Min(A) \in B /\ Min(B) = Min(A) /\ \A n \in A : Min(A) <= n
    BY <1>2, <2>1, FirstAgrees
  <2> DEFINE m == Min(A)
  <2>3. m \in A /\ m \in B /\ Min(B) = m /\ \A n \in A : m <= n
    BY <2>2
  <2>4. Chosen(A, x) = x[m] /\ Chosen(B, y) = y[m]
    BY <1>2, <2>3 DEF Chosen
  <2> HIDE DEF m
  <2>5. ASSUME NEW n \in A, n < m PROVE FALSE
    <3>1. n \in 1 .. k /\ m \in 1 .. k /\ m <= n
      BY <2>3
    <3> QED
      BY <2>5, <3>1
  <2>6. x[m] = y[m]
    BY <2>3, <2>5
  <2> QED
    BY <2>4, <2>6
<1> QED
  BY <1>1, <1>2

-----------------------------------------------------------------------------
(* The readers of WebM elements.                                           *)

Uint(f, u) == [i \in 1 .. Len(u) |-> read_ebml_uint(f, u[i])]
U32(f, u)  == [i \in 1 .. Len(u) |-> ReadU32(f, u[i])]

Width(f, u, n)  == LastOf(u, n, "PixelWidth", U32(f, u))
Height(f, u, n) == LastOf(u, n, "PixelHeight", U32(f, u))

VideoEnds(f, u)  == {n \in 1 .. Len(u) : Found(Width(f, u, n)) /\ Found(Height(f, u, n))}
VideoSizes(f, u) == [n \in 1 .. Len(u) |-> Dimensions(Width(f, u, n)[1], Height(f, u, n)[1])]

Videos(f, u) == [i \in 1 .. Len(u) |-> parse_video_element(f, u[i])]

Type(f, u, n) == LastOf(u, n, "TrackType", Uint(f, u))
Video(f, u, n) == LastOf(u, n, "Video", Videos(f, u))

EntryEnds(f, u)  == {n \in 1 .. Len(u) : Type(f, u, n) = Some(1) /\ Video(f, u, n) # None}
EntrySizes(f, u) == [n \in 1 .. Len(u) |-> Video(f, u, n)]

LEMMA LatestNumber ==
  ASSUME NEW f, NEW u, Len(u) \in Nat, NEW n, NEW kinds
  PROVE  /\ Latest(u, n, kinds, LAMBDA e : ReadU32(f, e), None) = LastOf(u, n, kinds, U32(f, u))
         /\ Latest(u, n, kinds, LAMBDA e : read_ebml_uint(f, e), None) = LastOf(u, n, kinds, Uint(f, u))
         /\ Latest(u, n, kinds, LAMBDA e : parse_video_element(f, e), None)
              = LastOf(u, n, kinds, Videos(f, u))
<1> DEFINE seen == {i \in At(u, kinds) : i <= n}
<1>1. seen # {} => Max(seen) \in 1 .. Len(u)
  <2>1. seen \in SUBSET (1 .. Len(u))
    BY DEF At
  <2> HIDE DEF seen
  <2> QED
    BY <2>1, MaxIsGreatest
<1>2. seen # {} => /\ U32(f, u)[Max(seen)] = ReadU32(f, u[Max(seen)])
                   /\ Uint(f, u)[Max(seen)] = read_ebml_uint(f, u[Max(seen)])
                   /\ Videos(f, u)[Max(seen)] = parse_video_element(f, u[Max(seen)])
  <2> HIDE DEF seen
  <2> QED
    BY <1>1 DEF U32, Uint, Videos
<1>3. Latest(u, n, kinds, LAMBDA e : ReadU32(f, e), None) = LastOf(u, n, kinds, U32(f, u))
  BY <1>2 DEF Latest, LastOf
<1>4. Latest(u, n, kinds, LAMBDA e : read_ebml_uint(f, e), None) = LastOf(u, n, kinds, Uint(f, u))
  BY <1>2 DEF Latest, LastOf
<1>5. Latest(u, n, kinds, LAMBDA e : parse_video_element(f, e), None) = LastOf(u, n, kinds, Videos(f, u))
  BY <1>2 DEF Latest, LastOf
<1> QED
  BY <1>3, <1>4, <1>5

LEMMA VideoIsChosen ==
  ASSUME NEW f, NEW p, NEW u, u = Within(f, p), Len(u) \in Nat
  PROVE  parse_video_element(f, p) = Chosen(VideoEnds(f, u), VideoSizes(f, u))
<1> DEFINE width(n)  == Latest(u, n, "PixelWidth",  LAMBDA e : ReadU32(f, e), None)
           height(n) == Latest(u, n, "PixelHeight", LAMBDA e : ReadU32(f, e), None)
           ends == {n \in 1 .. Len(u) : Found(width(n)) /\ Found(height(n))}
<1>1. parse_video_element(f, p) =
        IF ends = {} THEN None ELSE Dimensions(width(Min(ends))[1], height(Min(ends))[1])
  BY DEF parse_video_element, Until
<1>2. \A n : width(n) = Width(f, u, n) /\ height(n) = Height(f, u, n)
  BY LatestNumber DEF Width, Height
<1> HIDE DEF width, height
<1>3. ends = VideoEnds(f, u)
  BY <1>2 DEF VideoEnds
<1>4. ends # {} => Min(ends) \in 1 .. Len(u)
  <2>1. ends \in SUBSET (1 .. Len(u)) /\ ends \in SUBSET Nat
    OBVIOUS
  <2> HIDE DEF ends
  <2> QED
    BY <2>1, MinIsLeast
<1> HIDE DEF ends
<1>5. ends # {} => VideoSizes(f, u)[Min(ends)] = Dimensions(width(Min(ends))[1], height(Min(ends))[1])
  BY <1>2, <1>4 DEF VideoSizes
<1> QED
  BY <1>1, <1>3, <1>5 DEF Chosen

LEMMA EntryIsChosen ==
  ASSUME NEW f, NEW p, NEW u, u = Within(f, p), Len(u) \in Nat
  PROVE  parse_track_entry(f, p) = Chosen(EntryEnds(f, u), EntrySizes(f, u))
<1> DEFINE type(n) == Latest(u, n, "TrackType", LAMBDA e : read_ebml_uint(f, e), None)
           size(n) == Latest(u, n, "Video", LAMBDA e : parse_video_element(f, e), None)
           ends == {n \in 1 .. Len(u) : type(n) = Some(1) /\ size(n) # None}
<1>1. parse_track_entry(f, p) = IF ends = {} THEN None ELSE size(Min(ends))
  BY DEF parse_track_entry, Until
<1>2. \A n : type(n) = Type(f, u, n) /\ size(n) = Video(f, u, n)
  BY LatestNumber DEF Type, Video
<1> HIDE DEF type, size
<1>3. ends = EntryEnds(f, u)
  BY <1>2 DEF EntryEnds
<1>4. ends # {} => Min(ends) \in 1 .. Len(u)
  <2>1. ends \in SUBSET (1 .. Len(u)) /\ ends \in SUBSET Nat
    OBVIOUS
  <2> HIDE DEF ends
  <2> QED
    BY <2>1, MinIsLeast
<1> HIDE DEF ends
<1>5. ends # {} => EntrySizes(f, u)[Min(ends)] = size(Min(ends))
  BY <1>2, <1>4 DEF EntrySizes
<1> QED
  BY <1>1, <1>3, <1>5 DEF Chosen

LEMMA NumberClipped ==
  ASSUME NEW f, NEW p, NEW q, p = q \/ Cut(p, q)
  PROVE  /\ read_ebml_uint(f, p) \in {None, read_ebml_uint(f, q)}
         /\ ReadU32(f, p) \in {None, ReadU32(f, q)}
<1>1. CASE p = q
  BY <1>1
<1>2. CASE Cut(p, q)
  <2>1. read_ebml_uint(f, p) = None
    BY <1>2 DEF read_ebml_uint, Cut
  <2>2. ReadU32(f, p) = None
    <3>1. ~Found(None)
      BY DEF Found, None
    <3> QED
      BY <2>1, <3>1 DEF ReadU32
  <2> QED
    BY <2>1, <2>2
<1> QED
  BY <1>1, <1>2

LEMMA WithinBegins ==
  ASSUME NEW f, IsEbml(f), NEW p, NEW q, Cut(p, q)
  PROVE  Begins(Within(f, p), Within(f, q))
<1>1. /\ q.payload_end \in Nat /\ p.payload_end \in 0 .. q.payload_end
      /\ p.payload_start \in 0 .. p.payload_end /\ q.payload_start = p.payload_start
  BY DEF Cut
<1> QED
  BY <1>1, ElementsBegin DEF Within

LEMMA NothingFound ==
  ~Found(None)
BY DEF Found, None

LEMMA VideoClipped ==
  ASSUME NEW f, IsEbml(f), NEW p, NEW q, p = q \/ Cut(p, q)
  PROVE  parse_video_element(f, p) \in {None, parse_video_element(f, q)}
<1> SUFFICES ASSUME Cut(p, q)
             PROVE  parse_video_element(f, p) \in {None, parse_video_element(f, q)}
  OBVIOUS
<1> DEFINE u == Within(f, p)
           w == Within(f, q)
           k == Len(u)
           A == VideoEnds(f, u)
           B == VideoEnds(f, w)
           x == VideoSizes(f, u)
           y == VideoSizes(f, w)
<1>1. Begins(u, w)
  BY WithinBegins
<1>2. k \in Nat /\ Len(w) \in Nat
  BY <1>1 DEF Begins, IsWalk
<1>3. parse_video_element(f, p) = Chosen(A, x) /\ parse_video_element(f, q) = Chosen(B, y)
  BY <1>2, VideoIsChosen
<1> HIDE DEF u, w
<1>4. A \in SUBSET (1 .. k) /\ B \in SUBSET (Nat \ {0})
  BY <1>2 DEF VideoEnds
<1>5. ASSUME NEW n \in 1 .. k, Same(u, w, n)
      PROVE  Width(f, u, n) = Width(f, w, n) /\ Height(f, u, n) = Height(f, w, n)
  <2>1. \A i \in 1 .. n : i \in 1 .. Len(u) /\ i \in 1 .. Len(w) /\ u[i] = w[i]
    BY <1>2, <1>5 DEF Same
  <2>2. \A i \in 1 .. n : U32(f, u)[i] = U32(f, w)[i]
    BY <2>1 DEF U32
  <2> QED
    BY <1>2, <1>5, <2>2, LastSame DEF Width, Height
<1>6. ASSUME NEW n \in 1 .. k, n < k PROVE n \in A <=> n \in B
  <2>1. Same(u, w, n) /\ n \in 1 .. Len(w)
    BY <1>1, <1>2, <1>6, BeginsTo DEF Same
  <2> QED
    BY <1>5, <2>1 DEF VideoEnds
<1>7. ASSUME NEW n \in A PROVE (n \in B /\ x[n] = y[n]) \/ \E m \in A : m < n
  <2>0. n \in 1 .. k /\ Found(Width(f, u, n)) /\ Found(Height(f, u, n))
    BY DEF VideoEnds
  <2>00. Width(f, u, n) # None /\ Height(f, u, n) # None
    BY <2>0, NothingFound
  <2>1. CASE u[n].kind = "malformed"
    <3>1. /\ n - 1 \in 1 .. k
          /\ Width(f, u, n - 1) = Width(f, u, n) /\ Height(f, u, n - 1) = Height(f, u, n)
      BY <1>2, <2>0, <2>00, <2>1, LastSkips DEF Width, Height
    <3>2. n - 1 \in A
      BY <2>0, <3>1 DEF VideoEnds
    <3> QED
      BY <2>0, <3>2
  <2>2. CASE Clips(u, w, n)
    <3>1. \A i \in 1 .. n : /\ i \in 1 .. Len(u) /\ i \in 1 .. Len(w)
                            /\ u[i] = w[i] \/ Cut(u[i], w[i])
      BY <1>2, <2>0, <2>2 DEF Clips
    <3>2. \A i \in 1 .. n : U32(f, u)[i] \in {None, U32(f, w)[i]}
      BY <3>1, NumberClipped DEF U32
    <3>3. Width(f, u, n) = Width(f, w, n) /\ Height(f, u, n) = Height(f, w, n)
      BY <1>2, <2>0, <2>00, <2>2, <3>2, LastClipped DEF Width, Height
    <3>4. n \in 1 .. Len(w)
      BY <2>0, <3>1
    <3> QED
      BY <2>0, <3>3, <3>4 DEF VideoEnds, VideoSizes
  <2> QED
    BY <1>1, <2>0, <2>1, <2>2, BeginsTo
<1> HIDE DEF A, B, x, y, k
<1> QED
  BY <1>2, <1>3, <1>4, <1>6, <1>7, ChosenClipped

LEMMA EntryClipped ==
  ASSUME NEW f, IsEbml(f), NEW p, NEW q, p = q \/ Cut(p, q)
  PROVE  parse_track_entry(f, p) \in {None, parse_track_entry(f, q)}
<1> SUFFICES ASSUME Cut(p, q)
             PROVE  parse_track_entry(f, p) \in {None, parse_track_entry(f, q)}
  OBVIOUS
<1> DEFINE u == Within(f, p)
           w == Within(f, q)
           k == Len(u)
           A == EntryEnds(f, u)
           B == EntryEnds(f, w)
           x == EntrySizes(f, u)
           y == EntrySizes(f, w)
<1>1. Begins(u, w)
  BY WithinBegins
<1>2. k \in Nat /\ Len(w) \in Nat
  BY <1>1 DEF Begins, IsWalk
<1>3. parse_track_entry(f, p) = Chosen(A, x) /\ parse_track_entry(f, q) = Chosen(B, y)
  BY <1>2, EntryIsChosen
<1> HIDE DEF u, w
<1>4. A \in SUBSET (1 .. k) /\ B \in SUBSET (Nat \ {0})
  BY <1>2 DEF EntryEnds
<1>5. ASSUME NEW n \in 1 .. k, Same(u, w, n)
      PROVE  Type(f, u, n) = Type(f, w, n) /\ Video(f, u, n) = Video(f, w, n)
  <2>1. \A i \in 1 .. n : i \in 1 .. Len(u) /\ i \in 1 .. Len(w) /\ u[i] = w[i]
    BY <1>2, <1>5 DEF Same
  <2>2. \A i \in 1 .. n : Uint(f, u)[i] = Uint(f, w)[i] /\ Videos(f, u)[i] = Videos(f, w)[i]
    BY <2>1 DEF Uint, Videos
  <2> QED
    BY <1>2, <1>5, <2>2, LastSame DEF Type, Video
<1>6. ASSUME NEW n \in 1 .. k, n < k PROVE n \in A <=> n \in B
  <2>1. Same(u, w, n) /\ n \in 1 .. Len(w)
    BY <1>1, <1>2, <1>6, BeginsTo DEF Same
  <2> QED
    BY <1>5, <2>1 DEF EntryEnds
<1>7. ASSUME NEW n \in A PROVE (n \in B /\ x[n] = y[n]) \/ \E m \in A : m < n
  <2>0. n \in 1 .. k /\ Type(f, u, n) = Some(1) /\ Video(f, u, n) # None
    BY DEF EntryEnds
  <2>00. Type(f, u, n) # None
    BY <2>0, AnswerKinds
  <2>1. CASE u[n].kind = "malformed"
    <3>1. /\ n - 1 \in 1 .. k
          /\ Type(f, u, n - 1) = Type(f, u, n) /\ Video(f, u, n - 1) = Video(f, u, n)
      BY <1>2, <2>0, <2>00, <2>1, LastSkips DEF Type, Video
    <3>2. n - 1 \in A
      BY <2>0, <3>1 DEF EntryEnds
    <3> QED
      BY <2>0, <3>2
  <2>2. CASE Clips(u, w, n)
    <3>1. \A i \in 1 .. n : /\ i \in 1 .. Len(u) /\ i \in 1 .. Len(w)
                            /\ u[i] = w[i] \/ Cut(u[i], w[i])
      BY <1>2, <2>0, <2>2 DEF Clips
    <3>2. \A i \in 1 .. n : /\ Uint(f, u)[i] \in {None, Uint(f, w)[i]}
                            /\ Videos(f, u)[i] \in {None, Videos(f, w)[i]}
      BY <3>1, NumberClipped, VideoClipped DEF Uint, Videos
    <3>3. Type(f, u, n) = Type(f, w, n) /\ Video(f, u, n) = Video(f, w, n)
      BY <1>2, <2>0, <2>00, <2>2, <3>2, LastClipped DEF Type, Video
    <3>4. n \in 1 .. Len(w)
      BY <2>0, <3>1
    <3> QED
      BY <2>0, <3>3, <3>4 DEF EntryEnds, EntrySizes
  <2> QED
    BY <1>1, <2>0, <2>1, <2>2, BeginsTo
<1> HIDE DEF A, B, x, y, k
<1> QED
  BY <1>2, <1>3, <1>4, <1>6, <1>7, ChosenClipped

Answering(u, kinds, x) == {i \in At(u, kinds) : x[i] # None}

LEMMA FoundClipped ==
  ASSUME NEW u, NEW w, Begins(u, w), NEW kinds, kinds # "malformed", NEW x, NEW y,
         \A i \in 1 .. Len(u) : i <= Len(w) =>
           /\ u[i] = w[i] => x[i] = y[i]
           /\ Cut(u[i], w[i]) => x[i] \in {None, y[i]}
  PROVE  Chosen(Answering(u, kinds, x), x) \in {None, Chosen(Answering(w, kinds, y), y)}
<1> DEFINE k == Len(u)
           A == Answering(u, kinds, x)
           B == Answering(w, kinds, y)
<1>1. k \in Nat /\ Len(w) \in Nat
  BY DEF Begins, IsWalk
<1>2. A \in SUBSET (1 .. k) /\ B \in SUBSET (Nat \ {0})
  BY <1>1 DEF Answering, At
<1>3. ASSUME NEW n \in 1 .. k, n < k PROVE n \in A <=> n \in B
  <2>1. n \in 1 .. Len(w) /\ u[n] = w[n]
    BY <1>1, <1>3, BeginsTo DEF Same
  <2> QED
    BY <2>1 DEF Answering, At
<1>4. ASSUME NEW n \in A PROVE (n \in B /\ x[n] = y[n]) \/ \E m \in A : m < n
  <2>1. n \in 1 .. k /\ u[n].kind = kinds /\ x[n] # None
    BY DEF Answering, At
  <2>2. Clips(u, w, n)
    BY <2>1, BeginsTo
  <2>3. n \in 1 .. Len(w) /\ (u[n] = w[n] \/ Cut(u[n], w[n]))
    BY <1>1, <2>1, <2>2 DEF Clips
  <2>4. w[n].kind = kinds /\ x[n] = y[n]
    BY <2>1, <2>3 DEF Cut
  <2> QED
    BY <2>1, <2>3, <2>4 DEF Answering, At
<1> HIDE DEF A, B, k
<1>5. Chosen(A, x) \in {None, Chosen(B, y)}
  BY <1>1, <1>2, <1>3, <1>4, ChosenClipped
<1> QED
  BY <1>5 DEF A, B

Entries(f, u)  == [i \in 1 .. Len(u) |-> parse_track_entry(f, u[i])]
TrackSets(f, u) == [i \in 1 .. Len(u) |-> parse_tracks(f, u[i])]

LEMMA TracksAreChosen ==
  ASSUME NEW f, NEW p, NEW u, u = Within(f, p), Len(u) \in Nat
  PROVE  parse_tracks(f, p) = Chosen(Answering(u, "TrackEntry", Entries(f, u)), Entries(f, u))
<1> DEFINE answering == {i \in At(u, "TrackEntry") : parse_track_entry(f, u[i]) # None}
           x == Entries(f, u)
<1>1. parse_tracks(f, p) =
        IF answering = {} THEN None ELSE parse_track_entry(f, u[Min(answering)])
  BY DEF parse_tracks, FirstFound
<1>2. \A i \in 1 .. Len(u) : x[i] = parse_track_entry(f, u[i])
  BY DEF Entries
<1> HIDE DEF x
<1>3. answering = Answering(u, "TrackEntry", x) /\ answering \in SUBSET (1 .. Len(u))
  BY <1>2 DEF Answering, At
<1> HIDE DEF answering
<1>4. answering # {} => Min(answering) \in 1 .. Len(u)
  <2>1. answering \in SUBSET Nat
    BY <1>3
  <2> QED
    BY <1>3, <2>1, MinIsLeast
<1> QED
  BY <1>1, <1>2, <1>3, <1>4 DEF Chosen, x

LEMMA SegmentIsChosen ==
  ASSUME NEW f, NEW p, NEW u, u = Within(f, p), Len(u) \in Nat
  PROVE  parse_segment(f, p) = Chosen(Answering(u, "Tracks", TrackSets(f, u)), TrackSets(f, u))
<1> DEFINE answering == {i \in At(u, "Tracks") : parse_tracks(f, u[i]) # None}
           x == TrackSets(f, u)
<1>1. parse_segment(f, p) =
        IF answering = {} THEN None ELSE parse_tracks(f, u[Min(answering)])
  BY DEF parse_segment, FirstFound
<1>2. \A i \in 1 .. Len(u) : x[i] = parse_tracks(f, u[i])
  BY DEF TrackSets
<1> HIDE DEF x
<1>3. answering = Answering(u, "Tracks", x) /\ answering \in SUBSET (1 .. Len(u))
  BY <1>2 DEF Answering, At
<1> HIDE DEF answering
<1>4. answering # {} => Min(answering) \in 1 .. Len(u)
  <2>1. answering \in SUBSET Nat
    BY <1>3
  <2> QED
    BY <1>3, <2>1, MinIsLeast
<1> QED
  BY <1>1, <1>2, <1>3, <1>4 DEF Chosen, x

LEMMA TracksClipped ==
  ASSUME NEW f, IsEbml(f), NEW p, NEW q, p = q \/ Cut(p, q)
  PROVE  parse_tracks(f, p) \in {None, parse_tracks(f, q)}
<1> SUFFICES ASSUME Cut(p, q) PROVE parse_tracks(f, p) \in {None, parse_tracks(f, q)}
  OBVIOUS
<1> DEFINE u == Within(f, p)
           w == Within(f, q)
           x == Entries(f, u)
           y == Entries(f, w)
<1>1. Begins(u, w)
  BY WithinBegins
<1>2. Len(u) \in Nat /\ Len(w) \in Nat
  BY <1>1 DEF Begins, IsWalk
<1>3. /\ parse_tracks(f, p) = Chosen(Answering(u, "TrackEntry", x), x)
      /\ parse_tracks(f, q) = Chosen(Answering(w, "TrackEntry", y), y)
  BY <1>2, TracksAreChosen
<1> HIDE DEF u, w
<1>4. ASSUME NEW i \in 1 .. Len(u), i <= Len(w)
      PROVE  /\ u[i] = w[i] => x[i] = y[i]
             /\ Cut(u[i], w[i]) => x[i] \in {None, y[i]}
  <2>1. x[i] = parse_track_entry(f, u[i]) /\ y[i] = parse_track_entry(f, w[i])
    BY <1>2, <1>4 DEF Entries
  <2> HIDE DEF x, y
  <2> QED
    BY <2>1, EntryClipped
<1> HIDE DEF x, y
<1> QED
  BY <1>1, <1>3, <1>4, FoundClipped

LEMMA SegmentClipped ==
  ASSUME NEW f, IsEbml(f), NEW p, NEW q, p = q \/ Cut(p, q)
  PROVE  parse_segment(f, p) \in {None, parse_segment(f, q)}
<1> SUFFICES ASSUME Cut(p, q) PROVE parse_segment(f, p) \in {None, parse_segment(f, q)}
  OBVIOUS
<1> DEFINE u == Within(f, p)
           w == Within(f, q)
           x == TrackSets(f, u)
           y == TrackSets(f, w)
<1>1. Begins(u, w)
  BY WithinBegins
<1>2. Len(u) \in Nat /\ Len(w) \in Nat
  BY <1>1 DEF Begins, IsWalk
<1>3. /\ parse_segment(f, p) = Chosen(Answering(u, "Tracks", x), x)
      /\ parse_segment(f, q) = Chosen(Answering(w, "Tracks", y), y)
  BY <1>2, SegmentIsChosen
<1> HIDE DEF u, w
<1>4. ASSUME NEW i \in 1 .. Len(u), i <= Len(w)
      PROVE  /\ u[i] = w[i] => x[i] = y[i]
             /\ Cut(u[i], w[i]) => x[i] \in {None, y[i]}
  <2>1. x[i] = parse_tracks(f, u[i]) /\ y[i] = parse_tracks(f, w[i])
    BY <1>2, <1>4 DEF TrackSets
  <2> HIDE DEF x, y
  <2> QED
    BY <2>1, TracksClipped
<1> HIDE DEF x, y
<1> QED
  BY <1>1, <1>3, <1>4, FoundClipped

LEMMA TailBegins ==
  ASSUME NEW u, NEW w, Begins(u, w), Len(u) >= 1, Len(w) >= 1
  PROVE  Begins(Tail(u), Tail(w))
<1>1. PICK S : u \in Seq(S)
  BY DEF Begins, IsWalk
<1>2. PICK R : w \in Seq(R)
  BY DEF Begins, IsWalk
<1> DEFINE t == Tail(u)
           s == Tail(w)
<1>3. /\ t \in Seq(S) /\ Len(t) = Len(u) - 1 /\ \A i \in 1 .. Len(u) - 1 : t[i] = u[i + 1]
      /\ s \in Seq(R) /\ Len(s) = Len(w) - 1 /\ \A i \in 1 .. Len(w) - 1 : s[i] = w[i + 1]
      /\ Len(u) \in Nat /\ Len(w) \in Nat
  BY <1>1, <1>2
<1> HIDE DEF t, s
<1>4. ASSUME NEW i \in 1 .. Len(t)
      PROVE  \/ i <= Len(s) /\ t[i] = s[i]
             \/ i = Len(t) /\ t[i].kind = "malformed"
             \/ i = Len(t) /\ i <= Len(s) /\ Cut(t[i], s[i])
  <2>1. i + 1 \in 1 .. Len(u) /\ t[i] = u[i + 1] /\ (i = Len(t) <=> i + 1 = Len(u))
    BY <1>3
  <2>2. i + 1 <= Len(w) => i <= Len(s) /\ s[i] = w[i + 1]
    BY <1>3
  <2> QED
    BY <2>1, <2>2 DEF Begins
<1>5. IsWalk(t) /\ IsWalk(s)
  BY <1>3 DEF IsWalk
<1> QED
  BY <1>4, <1>5 DEF Begins, t, s

\* What is found in the beginning of a WebM file is found in all of it.
LEMMA ClippedWebm ==
  ASSUME NEW f, IsEbml(f), NEW length \in Nat, length <= f.len
  PROVE  parse_ebml_video_dimensions(f, length)
           \in {None, Error, parse_ebml_video_dimensions(f, f.len)}
<1> DEFINE u == Elements(f, 0, length)
           w == Elements(f, 0, f.len)
           Starts(v) == v # <<>> /\ v[1].kind = "EBML" /\ v[1].complete
<1>1. f.len \in Nat /\ length \in 0 .. f.len /\ 0 \in 0 .. length
  BY DEF IsEbml
<1>2. Begins(u, w)
  BY <1>1, ElementsBegin
<1>3. /\ parse_ebml_video_dimensions(f, length) =
           IF Starts(u) THEN First(Tail(u), "Segment", LAMBDA segment : parse_segment(f, segment)) ELSE None
      /\ parse_ebml_video_dimensions(f, f.len) =
           IF Starts(w) THEN First(Tail(w), "Segment", LAMBDA segment : parse_segment(f, segment)) ELSE None
  BY DEF parse_ebml_video_dimensions
<1> HIDE DEF u, w
<1>4. CASE ~Starts(u)
  BY <1>3, <1>4
<1>5. CASE Starts(u)
  <2>1. PICK S : u \in Seq(S)
    BY <1>2 DEF Begins, IsWalk
  <2>2. 1 \in 1 .. Len(u) /\ Len(u) \in Nat
    BY <1>5, <2>1
  <2>3. Clips(u, w, 1) /\ Len(w) \in Nat
    BY <1>2, <1>5, <2>2, BeginsTo
  <2>4. Len(w) >= 1 /\ u[1] = w[1]
    <3>1. Len(w) >= 1 /\ (u[1] = w[1] \/ Cut(u[1], w[1]))
      BY <2>3 DEF Clips
    <3> QED
      BY <1>5, <3>1 DEF Cut
  <2>5. Starts(w)
    <3>1. w # <<>>
      BY <2>4
    <3> QED
      BY <1>5, <2>4, <3>1
  <2> DEFINE t == Tail(u)
             s == Tail(w)
             A == At(t, "Segment")
             B == At(s, "Segment")
             k == Len(t)
  <2>6. Begins(t, s)
    BY <1>2, <2>2, <2>4, TailBegins
  <2>7. k \in Nat /\ Len(s) \in Nat
    BY <2>6 DEF Begins, IsWalk
  <2>8. /\ A = {} => parse_ebml_video_dimensions(f, length) \in {None, Error}
        /\ A # {} => parse_ebml_video_dimensions(f, length) = parse_segment(f, t[Min(A)])
        /\ B # {} => parse_ebml_video_dimensions(f, f.len) = parse_segment(f, s[Min(B)])
    BY <1>3, <1>5, <2>5 DEF First
  <2> HIDE DEF t, s
  <2>9. CASE A # {}
    <3>1. A \in SUBSET (1 .. k) /\ B \in SUBSET (Nat \ {0})
      BY <2>7 DEF At
    <3>2. ASSUME NEW n \in 1 .. k, n < k PROVE n \in A <=> n \in B
      <4>1. n \in 1 .. Len(s) /\ t[n] = s[n]
        BY <2>6, <2>7, <3>2, BeginsTo DEF Same
      <4> QED
        BY <4>1 DEF At
    <3>3. ASSUME NEW n \in A
          PROVE  n \in B /\ (t[n] = s[n] \/ Cut(t[n], s[n]))
      <4>1. n \in 1 .. k /\ t[n].kind = "Segment"
        BY DEF At
      <4>2. Clips(t, s, n)
        BY <2>6, <4>1, BeginsTo
      <4>3. n \in 1 .. Len(s) /\ (t[n] = s[n] \/ Cut(t[n], s[n]))
        BY <2>7, <4>1, <4>2 DEF Clips
      <4> QED
        BY <4>1, <4>3 DEF At, Cut
    <3> HIDE DEF A, B, k
    <3>4. Min(A) \in A /\ Min(A) \in B /\ Min(B) = Min(A)
      BY <2>7, <2>9, <3>1, <3>2, <3>3, FirstAgrees
    <3>5. parse_segment(f, t[Min(A)]) \in {None, parse_segment(f, s[Min(A)])}
      BY <3>3, <3>4, SegmentClipped
    <3>6. /\ parse_ebml_video_dimensions(f, length) = parse_segment(f, t[Min(A)])
          /\ parse_ebml_video_dimensions(f, f.len) = parse_segment(f, s[Min(A)])
      BY <2>8, <2>9, <3>4
    <3> QED
      BY <3>5, <3>6
  <2> QED
    BY <2>8, <2>9
<1> QED
  BY <1>4, <1>5

-----------------------------------------------------------------------------
(* The scan's answer.                                                      *)

\* What ClippedIsSound says of an answer.
ClippedAnswer ==
  /\ file.format = "ebml" => visual \in {None, parse_ebml_video_dimensions(file, file.len)}
  /\ file.format = "jpeg" => visual \in {None, parse_jpeg(file, file.len)}
  /\ (kind = "image" /\ file.format # "jpeg") => visual = parse_dimensions(file, file.len)

ScanInv == input \in 1 .. Len(Inputs) /\ (visual \in {Unread, Error} \/ ClippedAnswer)

LEMMA InputFile ==
  ASSUME input \in 1 .. Len(Inputs)
  PROVE  /\ kind \in {"audio", "video", "image"} /\ file.len \in Nat
         /\ file.format = "ebml" => IsEbml(file)
         /\ file.format = "jpeg" => IsJpeg(file)
BY RequestsAssumption DEF kind, file

\* The numbers of the other images are in their first bytes.
LEMMA ClippedImage ==
  ASSUME NEW f, f.len \in Nat
  PROVE  parse_dimensions(f, Shorter(f.len, FastHeaderBytes)) = parse_dimensions(f, f.len)
<1>1. CASE f.format \in DOMAIN HeaderBytes
  <2>1. HeaderBytes[f.format] \in Nat /\ HeaderBytes[f.format] <= FastHeaderBytes
    <3>1. \A format \in DOMAIN HeaderBytes : HeaderBytes[format] \in Nat
      BY DEF HeaderBytes
    <3> QED
      BY <1>1, <3>1, FastHeaderAssumption
  <2>2. FastHeaderBytes \in Nat
    BY HeaderLimitsAssumption
  <2>3. Shorter(f.len, FastHeaderBytes) < HeaderBytes[f.format] <=> f.len < HeaderBytes[f.format]
    BY <2>1, <2>2 DEF Shorter
  <2> QED
    BY <2>3 DEF parse_dimensions
<1>2. CASE f.format \notin DOMAIN HeaderBytes
  BY <1>2 DEF parse_dimensions
<1> QED
  BY <1>1, <1>2

LEMMA ReadVisualScans ==
  ASSUME ScanInv, ReadVisual
  PROVE  ScanInv'
<1>1. /\ kind \in {"audio", "video", "image"} /\ file.len \in Nat
      /\ file.format = "ebml" => IsEbml(file)
      /\ file.format = "jpeg" => IsJpeg(file)
  BY InputFile DEF ScanInv
<1>2. input' = input /\ kind' = kind /\ file' = file
  BY DEF ReadVisual, kind, file
<1>3. \/ visual' = Error
      \/ kind = "audio" /\ visual' = None
      \/ kind = "video" /\ visual' = read_video_dimensions
      \/ kind = "image" /\ visual' = ReadImage(file)
  BY <1>1 DEF ReadVisual
<1>4. SUFFICES visual' = Error \/ ClippedAnswer'
  BY <1>2 DEF ScanInv
<1>5. CASE kind = "audio" /\ visual' = None
  BY <1>2, <1>5 DEF ClippedAnswer
<1>6. CASE kind = "video" /\ visual' = read_video_dimensions
  <2>1. CASE file.format = "ebml"
    <3>1. \/ visual' = None
          \/ \E length \in Nat : /\ length <= file.len
                                 /\ visual' = parse_ebml_video_dimensions(file, length)
      <4>1. file.len < 8 \/ read_video_dimensions = ReadWebm(file)
        BY <2>1 DEF read_video_dimensions, OfFormat
      <4>2. \E length \in Nat : /\ length <= file.len
                                /\ ReadWebm(file) = parse_ebml_video_dimensions(file, length)
        BY <1>1, WebmHeaderReadLimitAssumption DEF ReadWebm
      <4>3. file.len < 8 => read_video_dimensions = None
        BY DEF read_video_dimensions
      <4> QED
        BY <1>6, <4>1, <4>2, <4>3
    <3>2. visual' \in {None, Error, parse_ebml_video_dimensions(file, file.len)}
      BY <1>1, <2>1, <3>1, ClippedWebm
    <3> QED
      BY <1>2, <1>6, <2>1, <3>2 DEF ClippedAnswer
  <2>2. CASE file.format = "jpeg"
    <3>1. visual' = None
      BY <1>6, <2>2 DEF read_video_dimensions, OfFormat
    <3> QED
      BY <1>2, <1>6, <2>2, <3>1 DEF ClippedAnswer
  <2>3. CASE file.format \notin {"ebml", "jpeg"}
    BY <1>2, <1>6, <2>3 DEF ClippedAnswer
  <2> QED
    BY <2>1, <2>2, <2>3
<1>7. CASE kind = "image" /\ visual' = ReadImage(file)
  <2>1. CASE file.format = "jpeg"
    <3>1. /\ Shorter(file.len, JpegHeaderReadLimit) \in Nat
          /\ Shorter(file.len, JpegHeaderReadLimit) <= file.len
      BY <1>1, HeaderLimitsAssumption DEF Shorter
    <3>2. visual' \in {None, parse_jpeg(file, file.len)}
      BY <1>1, <1>7, <2>1, <3>1, ClippedJpeg DEF ReadImage
    <3> QED
      BY <1>2, <2>1, <3>2 DEF ClippedAnswer
  <2>2. CASE file.format # "jpeg"
    <3>1. visual' = parse_dimensions(file, file.len)
      BY <1>1, <1>7, <2>2, ClippedImage DEF ReadImage
    <3>2. file.format = "ebml" => visual' = None
      BY <3>1 DEF parse_dimensions, HeaderBytes
    <3> QED
      BY <1>2, <2>2, <3>1, <3>2 DEF ClippedAnswer
  <2> QED
    BY <2>1, <2>2
<1> QED
  BY <1>3, <1>5, <1>6, <1>7

\* What the scan reads of a file's beginning is what the whole file says, or
\* nothing, for every file and every limit: no element, number or segment that the
\* limit cuts is taken for a whole one (metadata/video.rs:17-36, header.rs:49-75).
THEOREM ClippedIsSoundHolds == Spec => []ClippedIsSound
<1>1. Init => ScanInv
  BY DEF Init, ScanInv
<1>2. ASSUME ScanInv, [Next]_vars PROVE ScanInv'
  <2>1. CASE ReadVisual
    BY <1>2, <2>1, ReadVisualScans
  <2>2. CASE UNCHANGED <<input, visual>>
    BY <1>2, <2>2 DEF ScanInv, ClippedAnswer, file, kind
  <2>3. CASE GetDetail \/ OpenServed \/ ReadServed
    BY <2>2, <2>3 DEF GetDetail, OpenServed, ReadServed, readVars
  <2>4. CASE FlacReader \/ IsoAudioReader \/ OggReader \/ TagReader \/ VideoReader
    BY <2>2, <2>4 DEF FlacReader, IsoAudioReader, OggReader, TagReader, VideoReader, Try
  <2>5. CASE UNCHANGED vars
    BY <2>2, <2>5 DEF vars, readVars
  <2> QED
    BY <1>2, <2>1, <2>3, <2>4, <2>5 DEF Next
<1>3. ScanInv => ClippedIsSound
  <2>1. ~Found(Unread) /\ Unread # None /\ ~Found(Error) /\ Error # None
    BY DEF Unread, Error, Found, None
  <2> QED
    BY <2>1 DEF ScanInv, ClippedAnswer, ClippedIsSound
<1> QED
  BY <1>1, <1>2, <1>3, PTL DEF Spec

=================================================================================
