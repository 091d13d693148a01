----------------------------- MODULE AttachStream -----------------------------
(***************************************************************************)
(* Reading a container's output: the Docker daemon multiplexes stdout and  *)
(* stderr into frames on one socket, attach_api.py takes them apart, and   *)
(* Container._write_container_output writes each to its stream. A byte is  *)
(* known by its place on the wire: the reader never sees what it is part of,*)
(* it takes what it reads for a header or for payload.                     *)
(***************************************************************************)
EXTENDS Naturals, Sequences, SequencesExt

CONSTANTS
  FrameSeqs,      \* what the container may have written: sequences of frames
                  \* [type, start, size], `start` being the bytes before the frame
  HeaderLen,      \* 8 in Docker's protocol
  MaxGarbage,     \* bound on a size read from bytes that are no header
  Timeouts,       \* where the socket may time out: "idle", "inframe"
  Transients,     \* where `read` may return None: "header", "payload"
  AbruptClose     \* the daemon may close in the middle of a frame

STDOUT == 1      \* Container._STDOUT_FRAME_TYPE
STDERR == 2      \* Container._STDERR_FRAME_TYPE
Types == {0, STDOUT, STDERR}

End(frame) == frame.start + HeaderLen + frame.size

\* Every frame begins where the one before it ends.
Contiguous(fs) == \A k \in DOMAIN fs : fs[k].start = IF k = 1 THEN 0 ELSE End(fs[k - 1])

ASSUME StreamAssumption ==
  /\ HeaderLen \in Nat \ {0} /\ MaxGarbage \in Nat
  /\ \A fs \in FrameSeqs : fs \in Seq([type : Types, start : Nat, size : Nat]) /\ Contiguous(fs)
  /\ Timeouts \subseteq {"idle", "inframe"}
  /\ Transients \subseteq {"header", "payload"}

VARIABLES
  frames,    \* what the container writes in this behaviour
  arrived,   \* how many bytes have reached the socket
  closed,    \* the daemon has closed it
  pos,       \* how many the reader has taken
  pc,        \* "header", "payload" or "done"
  header,    \* bytes of the header read so far (read_exactly's buffer)
  type, remaining,     \* payload_type, remaining
  stdout, stderr       \* bytes written to the two streams

vars == <<frames, arrived, closed, pos, pc, header, type, remaining,
          stdout, stderr>>

WireLen == IF frames = <<>> THEN 0 ELSE End(frames[Len(frames)])

HeaderOf(frame) == [i \in 1..HeaderLen |-> frame.start + i]

\* The bytes that the container wrote to stream t.
Payload(t) ==
  {b \in 1..WireLen : \E k \in DOMAIN frames :
     frames[k].type = t /\ frames[k].start + HeaderLen < b /\ b <= End(frames[k])}

Init ==
  /\ frames \in FrameSeqs
  /\ arrived = 0 /\ closed = FALSE /\ pos = 0
  /\ pc = "header" /\ header = <<>>
  /\ type = 0 /\ remaining = 0
  /\ stdout = <<>> /\ stderr = <<>>

-----------------------------------------------------------------------------
(* The daemon.                                                             *)

Arrive ==
  /\ ~closed /\ arrived < WireLen
  /\ arrived' \in arrived + 1 .. WireLen
  /\ UNCHANGED <<frames, closed, pos, pc, header, type, remaining, stdout, stderr>>

Close ==
  /\ ~closed
  /\ arrived = WireLen \/ AbruptClose
  /\ closed' = TRUE
  /\ UNCHANGED <<frames, arrived, pos, pc, header, type, remaining, stdout, stderr>>

-----------------------------------------------------------------------------
(* The reader. `read(socket, n)` returns at most n of the bytes there are, *)
(* empty data at the end of the stream, None when nothing came, or times   *)
(* out.                                                                    *)

Readable(n) == {k \in 1..n : pos + k <= arrived}
Taken(k) == [i \in 1..k |-> pos + i]
AtEnd == closed /\ pos = arrived

\* _read_header, once it has its bytes. Bytes that are no header of a frame are
\* unpacked all the same, to some type and some size.
Unpack(bytes) ==
  \/ \E k \in DOMAIN frames :
       /\ bytes = HeaderOf(frames[k])
       /\ type' = frames[k].type /\ remaining' = frames[k].size
  \/ /\ \A k \in DOMAIN frames : bytes # HeaderOf(frames[k])
     /\ type' \in Types /\ remaining' \in 0..MaxGarbage

\* Mutant: a short read is taken for the whole header.
ReadHeaderShort ==
  /\ pc = "header"
  /\ \E k \in Readable(HeaderLen - Len(header)) :
       /\ pos' = pos + k
       /\ header' = <<>> /\ pc' = "payload" /\ Unpack(header \o Taken(k))
  /\ UNCHANGED <<frames, arrived, closed, stdout, stderr>>

ReadHeader ==
  /\ pc = "header"
  /\ \E k \in Readable(HeaderLen - Len(header)) :
       /\ pos' = pos + k
       /\ LET bytes == header \o Taken(k) IN
          \/ /\ Len(bytes) < HeaderLen
             /\ header' = bytes
             /\ UNCHANGED <<pc, type, remaining>>
          \/ /\ Len(bytes) = HeaderLen
             /\ header' = <<>> /\ pc' = "payload" /\ Unpack(bytes)
  /\ UNCHANGED <<frames, arrived, closed, stdout, stderr>>

\* read_exactly raises SocketError at the end of the stream, and when `read`
\* gave None: either way the stream is over for _read_socket.
HeaderFails ==
  /\ pc = "header"
  /\ AtEnd \/ "header" \in Transients
  /\ pc' = "done" /\ header' = <<>>
  /\ UNCHANGED <<frames, arrived, closed, pos, type, remaining, stdout, stderr>>

\* Mutant: stderr is written to both streams.
WriteBoth(bytes) ==
  /\ stdout' = IF type \in {STDOUT, STDERR} THEN stdout \o bytes ELSE stdout
  /\ stderr' = IF type = STDERR THEN stderr \o bytes ELSE stderr

\* Container._write_container_output; frames of other types are dropped.
Write(bytes) ==
  /\ stdout' = IF type = STDOUT THEN stdout \o bytes ELSE stdout
  /\ stderr' = IF type = STDERR THEN stderr \o bytes ELSE stderr

\* Mutant: `read` is asked for as much as it can give.
ReadPayloadGreedy ==
  /\ pc = "payload" /\ remaining > 0
  /\ \E k \in Readable(WireLen) :
       /\ pos' = pos + k
       /\ remaining' = IF k > remaining THEN 0 ELSE remaining - k
       /\ Write(Taken(k))
  /\ UNCHANGED <<frames, arrived, closed, pc, header, type>>

ReadPayload ==
  /\ pc = "payload" /\ remaining > 0
  /\ \E k \in Readable(remaining) :
       /\ pos' = pos + k
       /\ remaining' = remaining - k
       /\ Write(Taken(k))
  /\ UNCHANGED <<frames, arrived, closed, pc, header, type>>

\* Mutant: the empty read at the end is taken for the transient None.
PayloadEndsRetryEmpty ==
  /\ pc = "payload" /\ remaining = 0
  /\ pc' = "header"
  /\ UNCHANGED <<frames, arrived, closed, pos, header, type, remaining, stdout, stderr>>

\* The payload is complete, or the stream ended inside it; None is read again.
PayloadEnds ==
  /\ pc = "payload"
  /\ remaining = 0 \/ AtEnd
  /\ pc' = "header"
  /\ UNCHANGED <<frames, arrived, closed, pos, header, type, remaining, stdout, stderr>>

PayloadNone ==
  /\ pc = "payload" /\ remaining > 0 /\ "payload" \in Transients
  /\ UNCHANGED vars

\* Is there, in truth, nothing under way between two frames?
Idle == pc = "header" /\ header = <<>>

\* `except timeout` goes round the loop, whatever it was that was being read:
\* the bytes of the header and the remaining payload are forgotten.
SocketTimeout ==
  /\ pc # "done" /\ pos = arrived /\ ~closed
  /\ pc = "payload" => remaining > 0
  /\ IF Idle THEN "idle" \in Timeouts ELSE "inframe" \in Timeouts
  /\ pc' = "header" /\ header' = <<>>
  /\ UNCHANGED <<frames, arrived, closed, pos, type, remaining, stdout, stderr>>

ReaderStep == ReadHeader \/ HeaderFails \/ ReadPayload \/ PayloadEnds

Done == pc = "done" /\ closed /\ UNCHANGED vars

Next ==
  Arrive \/ Close \/ ReaderStep \/ PayloadNone \/ SocketTimeout \/ Done

Spec == Init /\ [][Next]_vars

\* The reader's thread is scheduled; the container ends some time.
FairSpec == Spec /\ WF_vars(ReaderStep) /\ WF_vars(Close) /\ WF_vars(Arrive)

-----------------------------------------------------------------------------
\* s holds the bytes of a set, each once and in the order of the wire.
Lists(s, bytes) ==
  /\ ToSet(s) = bytes
  /\ \A i, j \in DOMAIN s : i < j => s[i] < s[j]

\* Where frames end, and the first one begins.
Ends == {0} \cup {End(frames[k]) : k \in DOMAIN frames}

\* What reaches each stream is what the container wrote to it up to some byte,
\* in order and byte for byte: nothing crosses over, nothing of a header is
\* printed, nothing is left out or comes twice.
OutputFaithful ==
  \E b \in 0..WireLen :
    /\ Lists(stdout, {c \in Payload(STDOUT) : c <= b})
    /\ Lists(stderr, {c \in Payload(STDERR) : c <= b})

\* The reader knows where it is: between frames it stands at the end of one,
\* and inside a payload it wants exactly what is left of the frame.
InStep ==
  /\ Idle => pos \in Ends \/ AtEnd
  /\ pc = "payload" => pos + remaining \in Ends

\* Output that all reached the socket has been written out completely by the time
\* the reader stops, in whatever portions it came.
OutputComplete ==
  pc = "done" /\ arrived = WireLen =>
    Lists(stdout, Payload(STDOUT)) /\ Lists(stderr, Payload(STDERR))

\* When the daemon closes the socket, the reader stops.
ReaderEnds == closed ~> pc = "done"
=============================================================================
