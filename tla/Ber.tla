--------------------------------- MODULE Ber ---------------------------------
(***************************************************************************)
(* The check of BER frames in front of the LDAP parser (ldap/server.rs).    *)
(* Bytes are 0..255; usize has UsizeOctets octets.                          *)
(***************************************************************************)
EXTENDS Integers, Sequences, SequencesExt

CONSTANTS
    UsizeOctets,  \* size_of::<usize>()
    MaxBerDepth,  \* MAX_BER_DEPTH
    MaxBerSize    \* ldap3_proto::DEFAULT_MAX_BER_SIZE

ASSUME BerAssumption ==
    /\ {UsizeOctets, MaxBerDepth} \subseteq Nat \ {0}
    /\ MaxBerSize \in 2..(256 ^ UsizeOctets - 1)

Usize == 256 ^ UsizeOctets

\* "more" is Ok(None), "bad" is Err.
More == [is |-> "more"]
Bad == [is |-> "bad"]

BigEndian(octets) == FoldLeft(LAMBDA n, b : n * 256 + b, 0, octets)

\* ber_header: the length of the header and of the body it declares.
BerHeader(buf) ==
    IF Len(buf) < 2 THEN More
    ELSE IF buf[2] < 128 THEN [is |-> "header", header |-> 2, body |-> buf[2]]
    ELSE LET octets == buf[2] % 128 IN
         IF octets \notin 1..UsizeOctets THEN Bad
         ELSE IF Len(buf) < 2 + octets THEN More
         ELSE [is |-> "header", header |-> 2 + octets,
               body |-> BigEndian(SubSeq(buf, 3, 2 + octets))]

Constructed(tag) == (tag \div 32) % 2 = 1

\* Mutant: the container on top is not counted.
TooDeepByOne(ends) == Len(ends) > MaxBerDepth

TooDeep(ends) == Len(ends) >= MaxBerDepth

\* One turn of validate_ber_structure; ends is the stack of the ends of the open
\* containers, the innermost last.
Turn(frame, w) ==
    LET end == Last(w.ends)
        remaining == SubSeq(frame, w.position + 1, end)
        h == BerHeader(remaining)
        start == w.position + h.header
    IN  IF w.is # "walking" \/ w.ends = <<>> THEN w
        ELSE IF w.position = end THEN [w EXCEPT !.ends = Front(@)]
        ELSE IF h.is # "header" \/ start + h.body > end THEN [w EXCEPT !.is = "bad"]
        ELSE IF ~Constructed(remaining[1]) THEN [w EXCEPT !.position = start + h.body]
        ELSE IF TooDeep(w.ends) THEN [w EXCEPT !.is = "bad"]
        ELSE [w EXCEPT !.ends = Append(@, start + h.body), !.position = start]

\* validate_ber_structure: a turn opens a value, of two bytes or more, or leaves
\* a container, so there are at most Len(frame) + 1 of them.
ValidBerStructure(frame) ==
    LET walk[n \in 0..(Len(frame) + 1)] ==
            IF n = 0 THEN [is |-> "walking", ends |-> <<Len(frame)>>, position |-> 0]
            ELSE Turn(frame, walk[n - 1])
    IN  walk[Len(frame) + 1].is = "walking"

\* BoundedLdapCodec::decode, up to the call of the parser.
Decode(buf) ==
    LET h == BerHeader(buf)
        length == h.header + h.body
    IN  IF h.is # "header" THEN h
        ELSE IF length >= Usize \/ length > MaxBerSize THEN Bad
        ELSE IF Len(buf) < length THEN More
        ELSE IF ValidBerStructure(SubSeq(buf, 1, length)) THEN [is |-> "frame", length |-> length]
        ELSE Bad

-----------------------------------------------------------------------------
(* The reference: what a frame is. *)

\* The octets of a length, as a number, and the ways to write a header.
HeaderAt(frame, i, header, body) ==
    \/ header = 2 /\ body < 128 /\ frame[i + 2] = body
    \/ \E n \in 1..UsizeOctets :
          /\ header = 2 + n /\ frame[i + 2] = 128 + n
          /\ body = BigEndian(SubSeq(frame, i + 3, i + 2 + n))

\* The bytes after i up to j can be cut into spans of the set.
Tiled(i, j, spans) ==
    \E cuts \in SUBSET (i..j) :
        /\ {i, j} \subseteq cuts
        /\ \A a, b \in cuts : (a < b /\ \A k \in cuts : k <= a \/ k >= b) => <<a, b>> \in spans

\* The spans of frame that are one value with at most d containers around its
\* innermost part, itself included; inner are those with one container less.
Values(frame, d, inner) ==
    {v \in (0..Len(frame)) \X (0..Len(frame)) :
        \E header \in 2..(v[2] - v[1]) :
            /\ HeaderAt(frame, v[1], header, v[2] - v[1] - header)
            /\ Constructed(frame[v[1] + 1]) => d > 0 /\ Tiled(v[1] + header, v[2], inner)}

\* The values a frame is made of: the frame itself is a container around them.
ValueSpans(frame) ==
    LET spans[d \in 0..(MaxBerDepth - 1)] ==
            Values(frame, d, IF d = 0 THEN {} ELSE spans[d - 1])
    IN  spans[MaxBerDepth - 1]

WellNested(frame) == Tiled(0, Len(frame), ValueSpans(frame))

\* buf begins with a whole frame that the parser may see.
IsFrame(buf) ==
    \E n \in 2..Len(buf) :
        /\ n <= MaxBerSize
        /\ \E header \in 2..n : HeaderAt(buf, 0, header, n - header)
        /\ WellNested(SubSeq(buf, 1, n))

\* Nothing that follows buf can make it a frame: its length is unwritable or
\* beyond MaxBerSize, or its bytes are all here and do not nest.
IsHopeless(buf) ==
    /\ Len(buf) >= 2
    /\ \/ buf[2] \in {128} \cup (129 + UsizeOctets)..255
       \/ /\ Len(buf) >= (IF buf[2] < 128 THEN 2 ELSE buf[2] - 126)
          /\ LET header == IF buf[2] < 128 THEN 2 ELSE buf[2] - 126
                 n == header + (IF header = 2 THEN buf[2] ELSE BigEndian(SubSeq(buf, 3, header)))
             IN  n > MaxBerSize \/ (Len(buf) >= n /\ ~WellNested(SubSeq(buf, 1, n)))

=============================================================================
