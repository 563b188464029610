------------------------------- MODULE Codec --------------------------------
(***************************************************************************)
(* How values become the frames of a multipart message and become values   *)
(* again: Message::from and to with the converter of each type,            *)
(* MultipartMessage::addArguments and convertTo, Socket::sendMultipart and *)
(* receiveMultipart.  A frame does not say which type it was made of: the  *)
(* receiver names the types, and nothing compares sizes before a value of  *)
(* fixed size is copied out.                                               *)
(*                                                                         *)
(* Bytes are cells; a value is its kind and its cells, and the sizes are   *)
(* scaled down.                                                            *)
(***************************************************************************)
EXTENDS Integers, Sequences, SequencesExt, FiniteSetsExt

CONSTANTS ArgKinds,   \* the types of arguments in use, see Lengths
          Cells,      \* contents of a byte; 0 is the byte that ends a literal
          MaxLength,  \* bound: characters of a string, elements of a vector
          MaxArgs     \* bound: arguments of a call

(* sizeof: an `int', a `long', and the parts of an ofRectangle *)
SizeOf == [int |-> 1, long |-> 2, rectangle |-> 2]

(* Every part of an ofRectangle has this size. *)
PartSize == 1

(* The size and the format before the pixels of an ofPixels. *)
HeaderSize == 1

ElementSize == 2

(* What a receiver can ask for; `literal' and `count' are kinds of argument. *)
Targets == ArgKinds \ {"literal", "count"}

Lengths(kind) ==
    CASE kind \in DOMAIN SizeOf -> {SizeOf[kind]}
      [] kind = "vector" -> {ElementSize * n : n \in 0..MaxLength}
      [] kind = "pixels" -> {HeaderSize + n : n \in 0..MaxLength}
      [] kind \in {"string", "literal"} -> 0..MaxLength
      [] kind = "count" -> 1..MaxLength

ValuesOf(kind) == UNION {{[kind |-> kind, cells |-> s] : s \in [1..n -> Cells]} : n \in Lengths(kind)}

Values == UNION {ValuesOf(kind) : kind \in ArgKinds}

Undefined == [kind |-> "undefined", cells |-> <<>>]

VARIABLES
    sent,       \* the arguments of sendMultipart
    frames,     \* the frames of the message that arrives
    targets,    \* the arguments of receiveMultipart
    converting, \* convertTo: the argument to convert converting, 0 before the call
    answer      \* what receiveMultipart returned: "none", "true" or "false"

codecVars == <<sent, frames, targets, converting, answer>>

-----------------------------------------------------------------------------
(* Mutant of Encodings: the converter of a vector sends its elements' count. *)
EncodingsShort(v) == {SubSeq(v.cells, 1, Len(v.cells) \div 2)}

(* to_zmq_message for each type: the cells, except that a string literal   *)
(* is an array and brings the byte that ends it, and that a size_t is      *)
(* taken for the size of an uninitialised message (zmq::message_t's        *)
(* constructor comes before Message's template).                           *)
Encodings(v) ==
    CASE v.kind = "literal" -> {Append(v.cells, 0)}
      [] v.kind = "count" -> [1..Len(v.cells) -> Cells]
      [] OTHER -> {v.cells}

(* from_zmq_message for each type.  memcpy of sizeof(type) from a shorter  *)
(* frame, or of a frame into the vector of fewer bytes, is undefined; so   *)
(* are pixels without a header.  setTo copies the parts that fit and       *)
(* leaves the others alone.                                                *)
Decode(kind, frame, old) ==
    LET n == Len(frame) IN
    CASE kind \in {"int", "long"} ->
            IF n < SizeOf[kind] THEN Undefined
            ELSE [kind |-> kind, cells |-> SubSeq(frame, 1, SizeOf[kind])]
      [] kind = "rectangle" ->
            [kind |-> kind, cells |-> [i \in 1..SizeOf[kind] |->
                IF i * PartSize <= n THEN frame[i] ELSE old.cells[i]]]
      [] kind = "string" -> [kind |-> kind, cells |-> frame]
      [] kind = "vector" ->
            IF n % ElementSize # 0 THEN Undefined ELSE [kind |-> kind, cells |-> frame]
      [] kind = "pixels" ->
            IF n < HeaderSize THEN Undefined ELSE [kind |-> kind, cells |-> frame]

(* The receiver's variables before the call. *)
Fresh(kind) == [kind |-> kind, cells |-> [i \in 1..Min(Lengths(kind)) |-> 0]]

CodecInit ==
    /\ sent \in BoundedSeq(Values, MaxArgs) /\ sent # <<>>
    /\ frames = <<>>
    /\ \E kinds \in BoundedSeq(Targets, MaxArgs) :
          kinds # <<>> /\ targets = [i \in DOMAIN kinds |-> Fresh(kinds[i])]
    /\ converting = 0
    /\ answer = "none"

(* addArguments and multipart_t::send: one frame for each argument. *)
Send ==
    /\ frames = <<>>
    /\ \E f \in UNION {[DOMAIN sent -> UNION {Encodings(sent[i]) : i \in DOMAIN sent}]} :
          /\ \A i \in DOMAIN sent : f[i] \in Encodings(sent[i])
          /\ frames' = f
    /\ UNCHANGED <<sent, targets, converting, answer>>

(* receiveMultipart begins: the message is taken out of the socket. *)
Receive ==
    /\ frames # <<>> /\ converting = 0
    /\ converting' = 1
    /\ UNCHANGED <<sent, frames, targets, answer>>

(* convertTo: one argument after the other, until there are no more, or no *)
(* more frames.                                                            *)
Convert ==
    /\ converting > 0 /\ answer = "none"
    /\ targets' = [targets EXCEPT ![converting] = Decode(@.kind, frames[converting], @)]
    /\ converting' = converting + 1
    /\ answer' = IF converting = Len(targets) THEN "true"
                 ELSE IF converting = Len(frames) THEN "false" ELSE "none"
    /\ UNCHANGED <<sent, frames>>

CodecNext == Send \/ Receive \/ Convert

CodecSpec == CodecInit /\ [][CodecNext]_codecVars

-----------------------------------------------------------------------------
Same(v, w) == v.kind = w.kind /\ v.cells = w.cells

(* The answer says whether there was a frame for every argument; frames    *)
(* left over do not matter.                                                *)
AnswerIsArity ==
    /\ answer = "true" => Len(targets) <= Len(sent) /\ converting = Len(targets) + 1
    /\ answer = "false" => Len(targets) > Len(sent) /\ converting = Len(sent) + 1

(* What is asked for as the type it was sent as is what was sent, however  *)
(* many arguments come before it or are missing at the end: the arguments  *)
(* for which there are frames are set even if the answer is false, the     *)
(* others keep what they had (to_zmq_message, from_zmq_message, convertTo; *)
(* a caller that does not look at the answer has a mixture).               *)
ReadsBack ==
    /\ AnswerIsArity
    /\ \A i \in DOMAIN targets :
          IF i < converting
          THEN i \in DOMAIN sent /\ sent[i].kind = targets[i].kind => Same(targets[i], sent[i])
          ELSE targets[i] = Fresh(targets[i].kind)
=============================================================================
