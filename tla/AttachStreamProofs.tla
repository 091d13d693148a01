-------------------------- MODULE AttachStreamProofs --------------------------
(***************************************************************************)
(* The reader of a container's output keeps in step with the frames, and   *)
(* writes out what the container wrote, for every output, every length of  *)
(* the header and all portions in which the bytes come, as long as the     *)
(* socket times out only between frames.                                   *)
(***************************************************************************)
EXTENDS AttachStream, SequenceTheorems, WellFoundedInduction, TLAPS

-----------------------------------------------------------------------------
(* Frames on the wire *)

\* Induction over the naturals, by the smallest that is missing.
LEMMA SetInduction ==
  ASSUME NEW T, 0 \in T, \A n \in Nat : n \in T => n + 1 \in T
  PROVE  Nat \subseteq T
<1> DEFINE R == {ss \in Nat \X Nat : ss[1] < ss[2]}
<1> SUFFICES ASSUME Nat \ T # {} PROVE FALSE
    OBVIOUS
<1>1. IsWellFoundedOn(R, Nat)
      BY NatLessThanWellFounded DEF OpToRel
<1>2. PICK x \in Nat \ T : \A y \in Nat \ T : ~(<<y, x>> \in R)
  <2> HIDE DEF R
  <2>. QED BY <1>1, WFMin
<1>3. x # 0 /\ x - 1 \in Nat /\ x - 1 \notin T
      BY <1>2
<1>4. <<x - 1, x>> \in R
      BY <1>3
<1>. QED BY <1>2, <1>3, <1>4

Frame == [type : Types, start : Nat, size : Nat]

\* A frame lies behind all earlier ones, and on the wire.
LEMMA FrameOrder ==
  ASSUME frames \in FrameSeqs
  PROVE  /\ frames \in Seq(Frame)
         /\ Len(frames) \in Nat /\ \A k : k \in DOMAIN frames <=> k \in 1..Len(frames)
         /\ \A k \in DOMAIN frames : frames[k] \in Frame /\ End(frames[k]) \in Nat
         /\ \A j, k \in DOMAIN frames : j < k => End(frames[j]) <= frames[k].start
         /\ \A k \in DOMAIN frames : End(frames[k]) <= WireLen
         /\ WireLen \in Nat
<1>1. /\ frames \in Seq(Frame) /\ Contiguous(frames) /\ HeaderLen \in Nat
      /\ Len(frames) \in Nat /\ \A k : k \in DOMAIN frames <=> k \in 1..Len(frames)
  <2>1. frames \in Seq(Frame) /\ Contiguous(frames) /\ HeaderLen \in Nat
        BY StreamAssumption DEF Frame
  <2>. QED BY <2>1
<1>2. \A k \in DOMAIN frames : frames[k] \in Frame
      BY <1>1
<1>3. \A k \in DOMAIN frames :
        /\ End(frames[k]) \in Nat /\ frames[k].start \in Nat /\ frames[k].start <= End(frames[k])
      BY <1>1, <1>2 DEF Frame, End
<1> DEFINE T == {n \in Nat : \A j, k \in DOMAIN frames :
                               k = j + n + 1 => End(frames[j]) <= frames[k].start}
<1>4. 0 \in T
  <2>1. ASSUME NEW j \in DOMAIN frames, NEW k \in DOMAIN frames, k = j + 1
        PROVE  End(frames[j]) <= frames[k].start
    <3>1. k # 1 /\ k - 1 = j
          BY <1>1, <2>1
    <3>2. frames[k].start = End(frames[j])
          BY <1>1, <3>1 DEF Contiguous
    <3>. QED BY <1>3, <3>2
  <2>. QED BY <1>1, <2>1
<1>5. ASSUME NEW n \in Nat, n \in T
      PROVE  n + 1 \in T
  <2>1. ASSUME NEW j \in DOMAIN frames, NEW k \in DOMAIN frames, k = j + n + 2
        PROVE  End(frames[j]) <= frames[k].start
    <3>1. k - 1 \in DOMAIN frames /\ k - 1 = j + n + 1 /\ k # 1
          BY <1>1, <2>1
    <3>2. End(frames[j]) <= frames[k - 1].start
          BY <1>5, <3>1
    <3>3. frames[k].start = End(frames[k - 1])
          BY <1>1, <3>1 DEF Contiguous
    <3>. QED BY <1>3, <3>1, <3>2, <3>3
  <2>. QED BY <1>1, <2>1
<1>6. Nat \subseteq T
      BY <1>4, <1>5, SetInduction
<1>7. ASSUME NEW j \in DOMAIN frames, NEW k \in DOMAIN frames, j < k
      PROVE  End(frames[j]) <= frames[k].start
  <2>1. k - j - 1 \in Nat /\ k = j + (k - j - 1) + 1
        BY <1>1, <1>7
  <2>. QED BY <1>6, <2>1
<1>8. ASSUME NEW k \in DOMAIN frames
      PROVE  End(frames[k]) <= WireLen
  <2>1. Len(frames) \in DOMAIN frames /\ frames # <<>>
        BY <1>1
  <2>2. CASE k = Len(frames)
        BY <1>3, <2>1, <2>2 DEF WireLen
  <2>3. CASE k < Len(frames)
        BY <1>3, <1>7, <2>1, <2>3 DEF WireLen
  <2>. QED BY <1>1, <2>2, <2>3
<1>9. WireLen \in Nat
      BY <1>1, <1>3 DEF WireLen
<1>. QED BY <1>1, <1>3, <1>7, <1>8, <1>9

\* Where the n-th frame ends, and the next one begins.
Before(n) == IF n = 0 THEN 0 ELSE End(frames[n])

LEMMA NextFrame ==
  ASSUME frames \in FrameSeqs, NEW n \in 0..Len(frames)
  PROVE  /\ Before(n) \in Nat /\ Before(n) <= WireLen
         /\ Before(n) < WireLen => n + 1 \in DOMAIN frames
         /\ n + 1 \in DOMAIN frames => frames[n + 1].start = Before(n)
<1>1. /\ frames \in Seq(Frame) /\ Contiguous(frames) /\ WireLen \in Nat
      /\ Len(frames) \in Nat /\ \A k : k \in DOMAIN frames <=> k \in 1..Len(frames)
      BY StreamAssumption, FrameOrder
<1>2. n \in Nat /\ n <= Len(frames)
      BY <1>1
<1>3. Before(n) \in Nat /\ Before(n) <= WireLen
      BY <1>1, <1>2, FrameOrder DEF Before
<1>4. ASSUME Before(n) < WireLen
      PROVE  n + 1 \in DOMAIN frames
  <2>1. frames = <<>> <=> Len(frames) = 0
        BY <1>1
  <2>2. n = Len(frames) => Before(n) = WireLen
        BY <1>1, <1>2, <2>1 DEF Before, WireLen
  <2>3. n # Len(frames)
        BY <1>3, <1>4, <2>2
  <2>. QED BY <1>1, <1>2, <2>3
<1>5. ASSUME n + 1 \in DOMAIN frames
      PROVE  frames[n + 1].start = Before(n)
      BY <1>1, <1>2, <1>5 DEF Contiguous, Before
<1>. QED BY <1>3, <1>4, <1>5

\* Bytes of a header are no payload.
LEMMA HeaderIsNoPayload ==
  ASSUME frames \in FrameSeqs, NEW k \in DOMAIN frames, NEW b \in Nat, NEW t,
         frames[k].start < b, b <= frames[k].start + HeaderLen
  PROVE  b \notin Payload(t)
<1> SUFFICES ASSUME NEW j \in DOMAIN frames,
                    frames[j].start + HeaderLen < b, b <= End(frames[j])
             PROVE  FALSE
    BY DEF Payload
<1>1. /\ j \in Nat /\ k \in Nat /\ HeaderLen \in Nat
      /\ frames[j] \in Frame /\ frames[k] \in Frame
  <2>1. \A i \in DOMAIN frames : i \in Nat
        BY FrameOrder
  <2>. QED BY <2>1, FrameOrder, StreamAssumption
<1>2. CASE j < k
      BY <1>1, <1>2, FrameOrder DEF Frame
<1>3. CASE j = k
      BY <1>1, <1>3 DEF Frame
<1>4. CASE j > k
  <2>1. End(frames[k]) <= frames[j].start
        BY <1>1, <1>4, FrameOrder
  <2>2. End(frames[k]) \in Nat /\ frames[k].start + HeaderLen <= End(frames[k])
    <3>1. frames[k].start \in Nat /\ frames[k].size \in Nat
          BY <1>1 DEF Frame
    <3>. QED BY <1>1, <3>1 DEF End
  <2>3. frames[k].start \in Nat /\ frames[j].start \in Nat
        BY <1>1 DEF Frame
  <2>. QED BY <1>1, <2>1, <2>2, <2>3
<1>. QED BY <1>1, <1>2, <1>3, <1>4

\* Bytes of a payload are that of the stream of their frame.
LEMMA PayloadIsOfItsFrame ==
  ASSUME frames \in FrameSeqs, NEW k \in DOMAIN frames, NEW b \in Nat, NEW t,
         frames[k].start + HeaderLen < b, b <= End(frames[k])
  PROVE  b \in Payload(t) <=> frames[k].type = t
<1>1. /\ k \in Nat /\ HeaderLen \in Nat /\ frames[k] \in Frame /\ WireLen \in Nat
      /\ End(frames[k]) <= WireLen /\ End(frames[k]) \in Nat
      BY FrameOrder, StreamAssumption
<1>2. b \in 1..WireLen
      BY <1>1 DEF Frame
<1>3. ASSUME NEW j \in DOMAIN frames, frames[j].start + HeaderLen < b, b <= End(frames[j])
      PROVE  j = k
  <2>1. j \in Nat /\ frames[j] \in Frame /\ End(frames[j]) \in Nat
        BY FrameOrder
  <2>2. CASE j < k
    <3>1. End(frames[j]) <= frames[k].start
          BY <1>1, <2>1, <2>2, FrameOrder
    <3>2. frames[k].start \in Nat
          BY <1>1 DEF Frame
    <3>. QED BY <1>1, <1>3, <2>1, <3>1, <3>2
  <2>3. CASE k < j
        BY <1>1, <1>3, <2>1, <2>3, FrameOrder DEF Frame
  <2>. QED BY <1>1, <2>1, <2>2, <2>3
<1>. QED BY <1>2, <1>3 DEF Payload

-----------------------------------------------------------------------------
(* The invariant *)

Typed ==
  /\ frames \in FrameSeqs
  /\ arrived \in 0..WireLen /\ pos \in 0..arrived
  /\ pc \in {"header", "payload", "done"}
  /\ remaining \in Nat
  /\ stdout \in Seq(Nat) /\ stderr \in Seq(Nat)

\* h bytes of the header behind the n-th frame are read.
InHeader(n, h) ==
  /\ pos = Before(n) + h
  /\ header = [i \in 1..h |-> Before(n) + i]

\* The payload of the k-th frame is read, but for the last `remaining` bytes.
InPayload(k) ==
  /\ type = frames[k].type
  /\ remaining <= frames[k].size /\ pos + remaining = End(frames[k])

Located ==
  /\ pc = "header" => AtEnd \/ \E n \in 0..Len(frames) : \E h \in 0..HeaderLen - 1 : InHeader(n, h)
  /\ pc = "payload" => header = <<>> /\ \E k \in DOMAIN frames : InPayload(k)

\* What the container wrote to stream t among the first n bytes.
UpTo(t, n) == {b \in Payload(t) : b <= n}

\* What is taken is written at once.
WrittenOut ==
  /\ Lists(stdout, UpTo(STDOUT, pos))
  /\ Lists(stderr, UpTo(STDERR, pos))

ReaderInv == Typed /\ Located /\ WrittenOut

\* The reader stops at the end only, unless `read` comes back without the bytes
\* of a header.
StopsAtEnd == pc = "done" => AtEnd

-----------------------------------------------------------------------------
(* Listing bytes *)

\* Bytes in a row, and what comes of them behind a sequence.
LEMMA BytesInARow ==
  ASSUME NEW s \in Seq(Nat), NEW p \in Nat, NEW k \in Nat
  PROVE  LET u == s \o [i \in 1..k |-> p + i] IN
         /\ u \in Seq(Nat) /\ Len(u) = Len(s) + k
         /\ \A i \in 1..Len(s) : u[i] = s[i]
         /\ \A i \in Len(s) + 1..Len(s) + k : u[i] = p + i - Len(s)
<1> DEFINE t == [i \in 1..k |-> p + i]
<1>1. t \in Seq(Nat) /\ Len(t) = k /\ \A i \in 1..k : t[i] = p + i
      OBVIOUS
<1> HIDE DEF t
<1>2. /\ s \o t \in Seq(Nat) /\ Len(s \o t) = Len(s) + k
      /\ \A i \in 1..Len(s) + k :
           (s \o t)[i] = IF i <= Len(s) THEN s[i] ELSE t[i - Len(s)]
      BY <1>1, ConcatProperties
<1>3. Len(s) \in Nat
      OBVIOUS
<1>4. ASSUME NEW i \in Len(s) + 1..Len(s) + k
      PROVE  (s \o t)[i] = p + i - Len(s)
  <2>1. i \in 1..Len(s) + k /\ ~(i <= Len(s)) /\ i - Len(s) \in 1..k
        BY <1>3
  <2>2. p + (i - Len(s)) = p + i - Len(s)
        BY <1>3
  <2>. QED BY <1>1, <1>2, <2>1, <2>2
<1>5. ASSUME NEW i \in 1..Len(s)
      PROVE  (s \o t)[i] = s[i]
  <2>1. i \in 1..Len(s) + k /\ i <= Len(s)
        BY <1>3
  <2>. QED BY <1>2, <2>1
<1>. QED BY <1>2, <1>4, <1>5 DEF t

\* The next bytes, all of which belong to the set, go on with a list.
LEMMA ListGoesOn ==
  ASSUME NEW s \in Seq(Nat), NEW P \in SUBSET Nat, NEW p \in Nat, NEW k \in Nat,
         Lists(s, {b \in P : b <= p}), \A b \in p + 1..p + k : b \in P
  PROVE  Lists(s \o [i \in 1..k |-> p + i], {b \in P : b <= p + k})
<1> DEFINE u == s \o [i \in 1..k |-> p + i]
<1>1. /\ u \in Seq(Nat) /\ Len(u) = Len(s) + k
      /\ \A i \in 1..Len(s) : u[i] = s[i]
      /\ \A i \in Len(s) + 1..Len(s) + k : u[i] = p + i - Len(s)
      BY BytesInARow
<1> HIDE DEF u
<1>2. Len(s) \in Nat /\ (\A i : i \in DOMAIN s <=> i \in 1..Len(s))
      OBVIOUS
<1>3. \A i : i \in DOMAIN u <=> i \in 1..Len(s) + k
      BY <1>1
<1>4. /\ \A b : b \in P /\ b <= p <=> \E i \in DOMAIN s : b = s[i]
      /\ \A i, j \in DOMAIN s : i < j => s[i] < s[j]
  <2>1. \A b : b \in {c \in P : c <= p} <=> b \in {s[i] : i \in DOMAIN s}
        BY DEF Lists, ToSet
  <2>. QED BY <2>1 DEF Lists
<1>5. \A i \in 1..Len(s) : u[i] \in P /\ u[i] \in Nat /\ u[i] <= p
      BY <1>1, <1>2, <1>4
<1>6. \A i \in Len(s) + 1..Len(s) + k : u[i] \in p + 1..p + k
      BY <1>1, <1>2
<1>7. \A i, j \in DOMAIN u : i < j => u[i] < u[j]
  <2> SUFFICES ASSUME NEW i \in 1..Len(s) + k, NEW j \in 1..Len(s) + k, i < j
               PROVE  u[i] < u[j]
      BY <1>3
  <2>1. CASE j <= Len(s)
    <3>1. i \in 1..Len(s) /\ j \in 1..Len(s)
          BY <1>2, <2>1
    <3>. QED BY <1>1, <1>2, <1>4, <3>1
  <2>2. CASE i <= Len(s) /\ Len(s) < j
    <3>1. i \in 1..Len(s) /\ j \in Len(s) + 1..Len(s) + k
          BY <1>2, <2>2
    <3>2. u[i] \in Nat /\ u[i] <= p /\ u[j] \in p + 1..p + k
          BY <1>5, <1>6, <3>1
    <3>. QED BY <3>2
  <2>3. CASE Len(s) < i
    <3>1. i \in Len(s) + 1..Len(s) + k /\ j \in Len(s) + 1..Len(s) + k
          BY <1>2, <2>3
    <3>. QED BY <1>1, <1>2, <3>1
  <2>. QED BY <1>2, <2>1, <2>2, <2>3
<1>8. ToSet(u) = {b \in P : b <= p + k}
  <2>1. ASSUME NEW i \in DOMAIN u
        PROVE  u[i] \in P /\ u[i] <= p + k
    <3>1. i \in 1..Len(s) \/ i \in Len(s) + 1..Len(s) + k
          BY <1>2, <1>3
    <3>2. CASE i \in 1..Len(s)
          BY <1>5, <3>2
    <3>3. CASE i \in Len(s) + 1..Len(s) + k
          BY <1>6, <3>3
    <3>. QED BY <3>1, <3>2, <3>3
  <2>2. ASSUME NEW b \in P, b <= p + k
        PROVE  \E i \in DOMAIN u : b = u[i]
    <3>1. CASE b <= p
      <4>1. PICK i \in DOMAIN s : b = s[i]
            BY <1>4, <3>1
      <4>2. i \in 1..Len(s) /\ i \in DOMAIN u
            BY <1>2, <1>3
      <4>. QED BY <1>1, <4>1, <4>2
    <3>2. CASE p < b
      <4> DEFINE e == Len(s) + (b - p)
      <4>0. b \in Nat /\ e \in Nat
            BY <1>2, <3>2
      <4>1. PICK i \in Nat : i = Len(s) + (b - p)
            BY <4>0
      <4>2. /\ i \in Len(s) + 1..Len(s) + k /\ i \in 1..Len(s) + k
            /\ p + i - Len(s) = b
            BY <1>2, <2>2, <3>2, <4>0, <4>1
      <4>. QED BY <1>1, <1>3, <4>2
    <3>. QED BY <2>2, <3>1, <3>2
  <2>. QED BY <2>1, <2>2 DEF ToSet
<1>. QED BY <1>7, <1>8 DEF Lists, u

\* Bytes that do not belong to the set leave the list as it is.
LEMMA ListStays ==
  ASSUME NEW s, NEW P \in SUBSET Nat, NEW p \in Nat, NEW k \in Nat,
         Lists(s, {b \in P : b <= p}), \A b \in p + 1..p + k : b \notin P
  PROVE  Lists(s, {b \in P : b <= p + k})
<1>1. ASSUME NEW b \in P
      PROVE  b <= p <=> b <= p + k
  <2>1. b \in Nat /\ b \notin p + 1..p + k
        OBVIOUS
  <2>. QED BY <2>1
<1>2. {b \in P : b <= p} = {b \in P : b <= p + k}
      BY <1>1
<1>. QED BY <1>2

-----------------------------------------------------------------------------
(* Steps *)

LEMMA ReaderInit == Init => ReaderInv
<1> SUFFICES ASSUME Init PROVE ReaderInv
    OBVIOUS
<1> USE DEF Init
<1>1. WireLen \in Nat /\ Len(frames) \in Nat /\ HeaderLen \in Nat \ {0}
      BY FrameOrder, StreamAssumption
<1>2. Typed
      BY <1>1 DEF Typed
<1>3. InHeader(0, 0)
  <2>1. header = [i \in 1..0 |-> Before(0) + i]
        OBVIOUS
  <2>. QED BY <2>1 DEF InHeader, Before
<1>4. 0 \in 0..Len(frames) /\ 0 \in 0..HeaderLen - 1
      BY <1>1
<1>5. Located
      BY <1>3, <1>4 DEF Located
<1>6. ASSUME NEW t
      PROVE  Lists(<<>>, UpTo(t, 0))
  <2>1. UpTo(t, 0) = {}
        BY <1>1 DEF UpTo, Payload
  <2>. QED BY <2>1 DEF Lists, ToSet
<1>. QED BY <1>2, <1>5, <1>6 DEF ReaderInv, WrittenOut

\* What the reader takes is no payload, or of one frame; it is written so.
LEMMA TakesNoPayload ==
  ASSUME Typed, NEW k \in Nat, NEW t, NEW s,
         \A b \in pos + 1..pos + k : b \notin Payload(t), Lists(s, UpTo(t, pos))
  PROVE  Lists(s, UpTo(t, pos + k))
<1>1. Payload(t) \in SUBSET Nat /\ pos \in Nat
      BY FrameOrder DEF Payload, Typed
<1>. QED BY <1>1, ListStays DEF UpTo

LEMMA TakesPayload ==
  ASSUME Typed, NEW k \in Nat, NEW t, NEW s \in Seq(Nat),
         \A b \in pos + 1..pos + k : b \in Payload(t), Lists(s, UpTo(t, pos))
  PROVE  Lists(s \o Taken(k), UpTo(t, pos + k)) /\ s \o Taken(k) \in Seq(Nat)
<1>1. Payload(t) \in SUBSET Nat /\ pos \in Nat
      BY FrameOrder DEF Payload, Typed
<1>2. Lists(s \o [i \in 1..k |-> pos + i], {b \in Payload(t) : b <= pos + k})
      BY <1>1, ListGoesOn DEF UpTo
<1>. QED BY <1>1, <1>2, BytesInARow DEF UpTo, Taken

\* The frames, and with them the wire, do not change.
LEMMA WireStays ==
  ASSUME frames' = frames
  PROVE  /\ WireLen' = WireLen
         /\ \A t : Payload(t)' = Payload(t)
         /\ \A n : Before(n)' = Before(n)
         /\ Ends' = Ends
BY DEF WireLen, Payload, Before, Ends

LEMMA ReadHeaderStep ==
  ASSUME ReaderInv, ReadHeader
  PROVE  ReaderInv'
<1> USE DEF ReaderInv
<1>1. PICK k \in Readable(HeaderLen - Len(header)) :
        /\ pos' = pos + k
        /\ LET bytes == header \o Taken(k) IN
           \/ /\ Len(bytes) < HeaderLen
              /\ header' = bytes
              /\ UNCHANGED <<pc, type, remaining>>
           \/ /\ Len(bytes) = HeaderLen
              /\ header' = <<>> /\ pc' = "payload" /\ Unpack(bytes)
      BY DEF ReadHeader
<1>2. /\ pc = "header" /\ UNCHANGED <<frames, arrived, closed, stdout, stderr>>
      BY DEF ReadHeader
<1>3. /\ k \in Nat \ {0} /\ pos \in Nat /\ arrived \in Nat /\ WireLen \in Nat
      /\ pos + k <= arrived /\ arrived <= WireLen /\ pos < arrived
  <2>1. WireLen \in Nat /\ arrived \in 0..WireLen /\ pos \in 0..arrived
        BY FrameOrder DEF Typed
  <2>. QED BY <1>1, <2>1 DEF Readable
<1>4. PICK n \in 0..Len(frames) : \E h \in 0..HeaderLen - 1 : InHeader(n, h)
      BY <1>2, <1>3 DEF Located, AtEnd
<1>5. PICK h \in 0..HeaderLen - 1 : InHeader(n, h)
      BY <1>4
<1>6. /\ HeaderLen \in Nat \ {0} /\ h \in Nat /\ Before(n) \in Nat /\ pos = Before(n) + h
      /\ header = [i \in 1..h |-> Before(n) + i]
      /\ n + 1 \in DOMAIN frames /\ frames[n + 1].start = Before(n)
  <2>1. HeaderLen \in Nat \ {0} /\ h \in Nat /\ Before(n) \in Nat
        BY NextFrame, StreamAssumption DEF Typed
  <2>2. pos = Before(n) + h /\ header = [i \in 1..h |-> Before(n) + i]
        BY <1>5 DEF InHeader
  <2>3. Before(n) < WireLen
        BY <1>3, <2>1, <2>2
  <2>. QED BY <2>1, <2>2, <2>3, NextFrame DEF Typed
<1>7. h + k <= HeaderLen /\ header \o Taken(k) = [i \in 1..h + k |-> Before(n) + i]
  <2>1. header \in Seq(Nat) /\ Len(header) = h
        BY <1>6
  <2>2. h + k <= HeaderLen
        BY <1>1, <1>3, <1>6, <2>1 DEF Readable
  <2> DEFINE u == header \o Taken(k)
             v == [i \in 1..h + k |-> Before(n) + i]
  <2>3. /\ u \in Seq(Nat) /\ Len(u) = h + k
        /\ \A i \in 1..h : u[i] = header[i]
        /\ \A i \in h + 1..h + k : u[i] = pos + i - h
    <3>1. /\ u \in Seq(Nat) /\ Len(u) = Len(header) + k
          /\ \A i \in 1..Len(header) : u[i] = header[i]
          /\ \A i \in Len(header) + 1..Len(header) + k : u[i] = pos + i - Len(header)
          BY <1>3, <2>1, BytesInARow DEF Taken
    <3>. QED BY <2>1, <3>1
  <2>4. v \in Seq(Nat) /\ Len(v) = h + k /\ \A i \in 1..h + k : v[i] = Before(n) + i
    <3>1. h + k \in Nat
          BY <1>3, <1>6
    <3>2. \A i \in 1..h + k : Before(n) + i \in Nat
          BY <1>3, <1>6
    <3>. QED BY <3>1, <3>2
  <2>5. ASSUME NEW i \in 1..h + k
        PROVE  u[i] = v[i]
    <3> HIDE DEF u, v
    <3>1. CASE i <= h
      <4>1. i \in 1..h
            BY <1>3, <1>6, <3>1
      <4>. QED BY <1>6, <2>3, <2>4, <4>1
    <3>2. CASE h < i
      <4>1. i \in h + 1..h + k
            BY <1>3, <1>6, <3>2
      <4>2. pos + i - h = Before(n) + i
            BY <1>3, <1>6
      <4>. QED BY <2>3, <2>4, <4>1, <4>2
    <3>. QED BY <1>3, <1>6, <3>1, <3>2
  <2>6. u = v
    <3> HIDE DEF u, v
    <3>. QED BY <2>3, <2>4, <2>5, SeqEqual
  <2>. QED BY <2>2, <2>6
<1>8. Len(header \o Taken(k)) = h + k
      BY <1>3, <1>6, <1>7
<1>9. Typed'
  <2>1. ASSUME Unpack(header \o Taken(k))
        PROVE  remaining' \in Nat
        BY <2>1, FrameOrder, StreamAssumption DEF Unpack, Typed, Frame
  <2>. QED BY <1>1, <1>2, <1>3, <2>1, WireStays DEF Typed
<1>10. WrittenOut'
  <2>1. ASSUME NEW b \in pos + 1..pos + k, NEW t
        PROVE  b \notin Payload(t)
    <3>1. b \in Nat /\ frames[n + 1].start < b /\ b <= frames[n + 1].start + HeaderLen
      <4>1. /\ h \in Nat /\ k \in Nat /\ Before(n) \in Nat /\ HeaderLen \in Nat
            /\ pos = Before(n) + h /\ h + k <= HeaderLen /\ b \in pos + 1..pos + k
            BY <1>3, <1>6, <1>7
      <4>2. b \in Nat /\ Before(n) < b /\ b <= Before(n) + HeaderLen
            BY <4>1
      <4>. QED BY <1>6, <4>2
    <3>. QED BY <1>6, <3>1, HeaderIsNoPayload DEF Typed
  <2>. QED BY <1>1, <1>2, <1>3, <2>1, TakesNoPayload, WireStays DEF WrittenOut, UpTo
<1>11. Located'
  <2>1. CASE h + k < HeaderLen
    <3>1. header' = [i \in 1..h + k |-> Before(n) + i] /\ pc' = "header"
      <4>1. Len(header \o Taken(k)) < HeaderLen /\ Len(header \o Taken(k)) # HeaderLen
            BY <1>3, <1>6, <1>8, <2>1
      <4>2. header' = header \o Taken(k) /\ pc' = pc
            BY <1>1, <4>1
      <4>. QED BY <1>2, <1>7, <4>2
    <3>2. pos' = Before(n) + (h + k) /\ h + k \in 0..HeaderLen - 1
      <4>1. h + k \in 0..HeaderLen - 1 /\ Before(n) + h + k = Before(n) + (h + k)
            BY <1>3, <1>6, <2>1
      <4>. QED BY <1>1, <1>6, <4>1
    <3>. QED BY <1>2, <3>1, <3>2, WireStays DEF Located, InHeader
  <2>2. CASE h + k = HeaderLen
    <3>1. header' = <<>> /\ pc' = "payload" /\ Unpack(header \o Taken(k))
      <4>1. Len(header \o Taken(k)) = HeaderLen /\ ~(Len(header \o Taken(k)) < HeaderLen)
        <5>1. Len(header \o Taken(k)) = HeaderLen
              BY <1>8, <2>2
        <5>2. HeaderLen \in Nat
              BY <1>6
        <5>. QED BY <5>1, <5>2
      <4>. QED BY <1>1, <4>1
    <3>2. header \o Taken(k) = HeaderOf(frames[n + 1])
          BY <1>6, <1>7, <2>2 DEF HeaderOf
    <3>3. ASSUME NEW j \in DOMAIN frames, header \o Taken(k) = HeaderOf(frames[j])
          PROVE  j = n + 1
      <4>1. /\ frames[j] \in Frame /\ frames[n + 1] \in Frame
            /\ j \in Nat /\ n \in Nat
            BY <1>6, FrameOrder DEF Typed
      <4>2. frames[j].start = frames[n + 1].start
        <5>1. frames[j].start + 1 = frames[n + 1].start + 1
          <6>1. \A f : HeaderOf(f)[1] = f.start + 1
                BY <1>6 DEF HeaderOf
          <6>. QED BY <3>2, <3>3, <6>1
        <5>. QED BY <4>1, <5>1 DEF Frame
      <4>3. ASSUME NEW x \in DOMAIN frames, NEW y \in DOMAIN frames, x < y
            PROVE  frames[x].start # frames[y].start
        <5>1. End(frames[x]) <= frames[y].start /\ frames[x] \in Frame /\ frames[y] \in Frame
              BY <4>3, FrameOrder DEF Typed
        <5>2. /\ frames[x].start \in Nat /\ frames[x].size \in Nat /\ frames[y].start \in Nat
              BY <5>1 DEF Frame
        <5>. QED BY <1>6, <5>1, <5>2 DEF End
      <4>. QED BY <1>6, <4>1, <4>2, <4>3
    <3>4. type' = frames[n + 1].type /\ remaining' = frames[n + 1].size
          BY <1>6, <3>1, <3>2, <3>3 DEF Unpack
    <3>5. pos' + remaining' = End(frames[n + 1])
      <4>1. pos' = frames[n + 1].start + HeaderLen
            BY <1>1, <1>3, <1>6, <2>2
      <4>. QED BY <3>4, <4>1 DEF End
    <3>6. remaining' <= frames[n + 1].size
          BY <1>6, <3>4, FrameOrder DEF Typed, Frame
    <3>. QED BY <1>2, <1>6, <3>1, <3>4, <3>5, <3>6 DEF Located, InPayload, End
  <2>3. h + k < HeaderLen \/ h + k = HeaderLen
    <3>1. h \in Nat /\ k \in Nat /\ HeaderLen \in Nat /\ h + k <= HeaderLen
          BY <1>3, <1>6, <1>7
    <3>. QED BY <3>1
  <2>. QED BY <2>1, <2>2, <2>3
<1>. QED BY <1>9, <1>10, <1>11

LEMMA ReadPayloadStep ==
  ASSUME ReaderInv, ReadPayload
  PROVE  ReaderInv'
<1> USE DEF ReaderInv
<1>1. PICK n \in Readable(remaining) :
        pos' = pos + n /\ remaining' = remaining - n /\ Write(Taken(n))
      BY DEF ReadPayload
<1>2. pc = "payload" /\ UNCHANGED <<frames, arrived, closed, pc, header, type>>
      BY DEF ReadPayload
<1>3. PICK k \in DOMAIN frames : InPayload(k)
      BY <1>2 DEF Located
<1>4. /\ n \in Nat \ {0} /\ pos \in Nat /\ arrived \in Nat /\ WireLen \in Nat
      /\ pos + n <= arrived /\ arrived <= WireLen /\ remaining \in Nat /\ n <= remaining
  <2>1. /\ WireLen \in Nat /\ arrived \in 0..WireLen /\ pos \in 0..arrived
        /\ remaining \in Nat
        BY FrameOrder DEF Typed
  <2>. QED BY <1>1, <2>1 DEF Readable
<1>5. /\ frames[k] \in Frame /\ frames[k].start \in Nat /\ frames[k].size \in Nat
      /\ HeaderLen \in Nat /\ End(frames[k]) = frames[k].start + HeaderLen + frames[k].size
      /\ type = frames[k].type /\ remaining <= frames[k].size /\ pos + remaining = End(frames[k])
  <2>1. frames[k] \in Frame
        BY FrameOrder DEF Typed
  <2>. QED BY <1>3, <2>1, StreamAssumption DEF InPayload, Frame, End
<1>6. ASSUME NEW b \in pos + 1..pos + n, NEW t
      PROVE  b \in Payload(t) <=> type = t
  <2>1. b \in Nat /\ frames[k].start + HeaderLen < b /\ b <= End(frames[k])
        BY <1>4, <1>5
  <2>. QED BY <1>5, <2>1, PayloadIsOfItsFrame DEF Typed
<1>7. ASSUME NEW t, NEW s \in Seq(Nat), Lists(s, UpTo(t, pos))
      PROVE  LET u == IF type = t THEN s \o Taken(n) ELSE s IN
             u \in Seq(Nat) /\ Lists(u, UpTo(t, pos + n))
  <2>1. CASE type = t
        BY <1>4, <1>6, <1>7, <2>1, TakesPayload
  <2>2. CASE type # t
        BY <1>4, <1>6, <1>7, <2>2, TakesNoPayload
  <2>. QED BY <2>1, <2>2
<1>8. /\ stdout' \in Seq(Nat) /\ Lists(stdout', UpTo(STDOUT, pos + n))
      /\ stderr' \in Seq(Nat) /\ Lists(stderr', UpTo(STDERR, pos + n))
  <2>1. /\ stdout' = IF type = STDOUT THEN stdout \o Taken(n) ELSE stdout
        /\ stderr' = IF type = STDERR THEN stderr \o Taken(n) ELSE stderr
        BY <1>1 DEF Write
  <2>2. /\ stdout \in Seq(Nat) /\ Lists(stdout, UpTo(STDOUT, pos))
        /\ stderr \in Seq(Nat) /\ Lists(stderr, UpTo(STDERR, pos))
        BY DEF Typed, WrittenOut
  <2>. QED BY <1>7, <2>1, <2>2
<1>9. Typed'
      BY <1>1, <1>2, <1>4, <1>8, WireStays DEF Typed
<1>10. WrittenOut'
      BY <1>1, <1>2, <1>8, WireStays DEF WrittenOut, UpTo
<1>11. Located'
  <2>1. remaining' <= frames[k].size /\ pos' + remaining' = End(frames[k])
        BY <1>1, <1>4, <1>5
  <2>2. header = <<>>
        BY <1>2 DEF Located
  <2>. QED BY <1>2, <1>5, <2>1, <2>2 DEF Located, InPayload, End
<1>. QED BY <1>9, <1>10, <1>11

LEMMA PayloadEndsStep ==
  ASSUME ReaderInv, PayloadEnds
  PROVE  ReaderInv'
<1> USE DEF ReaderInv
<1>1. /\ pc = "payload" /\ pc' = "header" /\ (remaining = 0 \/ AtEnd)
      /\ UNCHANGED <<frames, arrived, closed, pos, header, type, remaining, stdout, stderr>>
      BY DEF PayloadEnds
<1>2. Typed'
      BY <1>1, WireStays DEF Typed
<1>3. WrittenOut'
      BY <1>1, WireStays DEF WrittenOut, UpTo
<1>4. Located'
  <2>1. CASE AtEnd
        BY <1>1, <2>1 DEF Located, AtEnd
  <2>2. CASE remaining = 0
    <3>1. PICK k \in DOMAIN frames : InPayload(k)
          BY <1>1 DEF Located
    <3>2. k \in 0..Len(frames) /\ k # 0 /\ End(frames[k]) \in Nat /\ pos \in Nat
      <4>1. Len(frames) \in Nat /\ k \in 1..Len(frames) /\ End(frames[k]) \in Nat /\ WireLen \in Nat
            BY FrameOrder DEF Typed
      <4>. QED BY <4>1 DEF Typed
    <3>3. pos = Before(k) + 0
          BY <2>2, <3>1, <3>2 DEF InPayload, Before
    <3>4. header = [i \in 1..0 |-> Before(k) + i]
          BY <1>1 DEF Located
    <3>5. 0 \in 0..HeaderLen - 1
          BY StreamAssumption
    <3>6. \E j \in 0..Len(frames) : \E h \in 0..HeaderLen - 1 : InHeader(j, h)
          BY <3>2, <3>3, <3>4, <3>5 DEF InHeader
    <3>. QED BY <1>1, <3>6, WireStays DEF Located, InHeader
  <2>. QED BY <1>1, <2>1, <2>2
<1>. QED BY <1>2, <1>3, <1>4

\* What the daemon does, and what of the reader does not take any bytes.
LEMMA OtherSteps ==
  ASSUME ReaderInv, "inframe" \notin Timeouts,
         Arrive \/ Close \/ HeaderFails \/ SocketTimeout \/ UNCHANGED vars
  PROVE  ReaderInv'
<1> USE DEF ReaderInv
<1>1. /\ UNCHANGED <<frames, pos, remaining, type, stdout, stderr>>
      /\ pc' \in {"header", "payload", "done"}
      /\ arrived' \in arrived..WireLen \/ arrived' = arrived
      BY DEF Arrive, Close, HeaderFails, SocketTimeout, vars, Typed
<1>2. Typed'
  <2>1. arrived \in 0..WireLen /\ pos \in 0..arrived /\ WireLen \in Nat
        BY FrameOrder DEF Typed
  <2>. QED BY <1>1, <2>1, WireStays DEF Typed
<1>3. WrittenOut'
      BY <1>1, WireStays DEF WrittenOut, UpTo
<1>4. Located'
  <2>1. CASE Arrive
        BY <1>1, <2>1, WireStays DEF Located, Arrive, AtEnd, InHeader, InPayload, End
  <2>2. CASE Close
        BY <1>1, <2>2, WireStays DEF Located, Close, AtEnd, InHeader, InPayload, End
  <2>3. CASE HeaderFails
        BY <2>3 DEF Located, HeaderFails
  <2>4. CASE SocketTimeout
    <3>1. Idle /\ pc' = "header" /\ header' = <<>> /\ UNCHANGED <<arrived, closed>>
          BY <2>4 DEF SocketTimeout
    <3>. QED BY <1>1, <3>1, WireStays DEF Located, Idle, AtEnd, InHeader
  <2>5. CASE UNCHANGED vars
        BY <2>5, WireStays DEF Located, vars, AtEnd, InHeader, InPayload, End
  <2>. QED BY <2>1, <2>2, <2>3, <2>4, <2>5
<1>. QED BY <1>2, <1>3, <1>4

LEMMA ReaderStepKeeps ==
  ASSUME "inframe" \notin Timeouts, ReaderInv, [Next]_vars
  PROVE  ReaderInv'
<1>1. \/ ReadHeader \/ ReadPayload \/ PayloadEnds
      \/ Arrive \/ Close \/ HeaderFails \/ SocketTimeout \/ UNCHANGED vars
      BY DEF Next, ReaderStep, PayloadNone, Done
<1>. QED BY <1>1, ReadHeaderStep, ReadPayloadStep, PayloadEndsStep, OtherSteps

\* As long as the socket times out between frames only.
LEMMA ReaderInvariant ==
  ASSUME "inframe" \notin Timeouts
  PROVE  Spec => []ReaderInv
<1>1. ReaderInv /\ [Next]_vars => ReaderInv'
      BY ReaderStepKeeps
<1>. QED BY <1>1, ReaderInit, PTL DEF Spec

-----------------------------------------------------------------------------
(* What the callers rely on *)

\* As long as the socket times out between frames only, both streams get what
\* the container wrote to them up to some byte, in order, each byte once and
\* nothing else, however the bytes are portioned and wherever the daemon stops.
THEOREM OutputIsFaithful ==
  ASSUME "inframe" \notin Timeouts
  PROVE  Spec => []OutputFaithful
<1>1. ASSUME ReaderInv
      PROVE  OutputFaithful
  <2>1. pos \in 0..WireLen
    <3>1. WireLen \in Nat /\ arrived \in 0..WireLen /\ pos \in 0..arrived
          BY <1>1, FrameOrder DEF ReaderInv, Typed
    <3>. QED BY <3>1
  <2>. QED BY <1>1, <2>1 DEF ReaderInv, WrittenOut, UpTo, OutputFaithful
<1>. QED BY <1>1, ReaderInvariant, PTL

\* Under the same condition the reader stands at the end of a frame whenever it
\* is between frames, and in a payload wants what is left of its frame.
THEOREM ReaderIsInStep ==
  ASSUME "inframe" \notin Timeouts
  PROVE  Spec => []InStep
<1>1. ASSUME ReaderInv
      PROVE  InStep
  <2>1. ASSUME Idle, ~AtEnd
        PROVE  pos \in Ends
    <3>1. PICK n \in 0..Len(frames) : \E h \in 0..HeaderLen - 1 : InHeader(n, h)
          BY <1>1, <2>1 DEF ReaderInv, Located, Idle
    <3>2. PICK h \in 0..HeaderLen - 1 : InHeader(n, h)
          BY <3>1
    <3>3. h = 0
      <4>1. h \in Nat
            BY StreamAssumption
      <4>2. DOMAIN header = 1..h /\ DOMAIN header = {}
            BY <2>1, <3>2 DEF InHeader, Idle
      <4>3. h > 0 => 1 \in 1..h
            BY <4>1
      <4>. QED BY <4>1, <4>2, <4>3
    <3>4. pos = Before(n)
      <4>1. Before(n) \in Nat
            BY <1>1, NextFrame DEF ReaderInv, Typed
      <4>. QED BY <3>2, <3>3, <4>1 DEF InHeader
    <3>5. n # 0 => n \in DOMAIN frames
      <4>1. Len(frames) \in Nat /\ \A k : k \in DOMAIN frames <=> k \in 1..Len(frames)
            BY <1>1, FrameOrder DEF ReaderInv, Typed
      <4>. QED BY <4>1
    <3>. QED BY <3>4, <3>5 DEF Before, Ends
  <2>2. ASSUME pc = "payload"
        PROVE  pos + remaining \in Ends
        BY <1>1, <2>2 DEF ReaderInv, Located, InPayload, Ends
  <2>. QED BY <2>1, <2>2 DEF InStep
<1>. QED BY <1>1, ReaderInvariant, PTL

LEMMA StopsAtEndStep ==
  ASSUME "header" \notin Transients, StopsAtEnd, [Next]_vars
  PROVE  StopsAtEnd'
<1> SUFFICES ASSUME pc' = "done" PROVE AtEnd'
    BY DEF StopsAtEnd
<1>1. CASE Arrive \/ Close
      BY <1>1 DEF Arrive, Close, StopsAtEnd, AtEnd
<1>2. CASE HeaderFails
      BY <1>2 DEF HeaderFails, AtEnd
<1>3. CASE ReadHeader \/ ReadPayload \/ PayloadEnds \/ SocketTimeout
      BY <1>3 DEF ReadHeader, ReadPayload, PayloadEnds, SocketTimeout
<1>4. CASE UNCHANGED vars
      BY <1>4 DEF vars, StopsAtEnd, AtEnd
<1>. QED BY <1>1, <1>2, <1>3, <1>4 DEF Next, ReaderStep, PayloadNone, Done

\* If moreover `read` does not come back without the bytes of a header, all that
\* reached the socket is written out by the time the reader stops.
THEOREM OutputIsComplete ==
  ASSUME "inframe" \notin Timeouts, "header" \notin Transients
  PROVE  Spec => []OutputComplete
<1>1. Init => StopsAtEnd
      BY DEF Init, StopsAtEnd
<1>2. StopsAtEnd /\ [Next]_vars => StopsAtEnd'
      BY StopsAtEndStep
<1>3. ASSUME ReaderInv, StopsAtEnd
      PROVE  OutputComplete
  <2> SUFFICES ASSUME pc = "done", arrived = WireLen
               PROVE  Lists(stdout, Payload(STDOUT)) /\ Lists(stderr, Payload(STDERR))
      BY DEF OutputComplete
  <2>1. pos = WireLen
        BY <1>3 DEF StopsAtEnd, AtEnd
  <2>2. ASSUME NEW t
        PROVE  UpTo(t, WireLen) = Payload(t)
        BY <1>3, FrameOrder DEF ReaderInv, Typed, UpTo, Payload
  <2>. QED BY <1>3, <2>1, <2>2 DEF ReaderInv, WrittenOut
<1>. QED BY <1>1, <1>2, <1>3, ReaderInvariant, PTL DEF Spec
=============================================================================
