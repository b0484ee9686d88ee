-------------------------------- MODULE Wire --------------------------------
(***************************************************************************)
(* What client and server put on the wire and into my.info, and how they   *)
(* read it: requests (Message.cpp, ClientActions.cpp; request_handler.py), *)
(* responses (request_handler.py; ResponseClient.cpp) and the hexadecimal  *)
(* ID (Utilities.cpp).  A byte is a number in 0..255.  The widths of       *)
(* integers are those of the code; those of IDs, names and keys are        *)
(* parameters.  None is what cannot be read, at which the code answers     *)
(* with an error (server) or throws (client).                              *)
(***************************************************************************)
EXTENDS Integers, Sequences, SequencesExt

CONSTANTS IdSize, NameSize, KeySize,  \* CLIENT_ID_SIZE, NAME_SIZE, PUBLIC_KEY_SIZE
          None

ASSUME WireAssumption == {IdSize, NameSize, KeySize} \subseteq Nat \ {0}

Byte     == 0..255
Bytes(n) == [1..n -> Byte]
Uint32   == {n \in Nat : n \div 2^24 < 2^8}  \* below 2^32

RequestHeader == IdSize + 7   \* ID, version, code, payload size
ReplyHeader   == 7            \* version, code, payload size

\* The n bytes of data from an offset on.
Field(data, offset, n) == SubSeq(data, offset + 1, offset + n)

\* Integers of two and of four bytes, the lowest byte first.
appendUint16LE(n) == <<n % 256, (n \div 2^8) % 256>>
appendUint32LE(n) == <<n % 256, (n \div 2^8) % 256, (n \div 2^16) % 256, (n \div 2^24) % 256>>
readUint16LE(data, offset) == data[offset + 1] + 2^8 * data[offset + 2]
readUint32LE(data, offset) ==
  data[offset + 1] + 2^8 * data[offset + 2] + 2^16 * data[offset + 3] + 2^24 * data[offset + 4]

\* A name in its field, whose last byte is 0, and the name up to the first 0.
NameField(name) ==
  [i \in 1..NameSize |-> IF i <= Len(name) /\ i < NameSize THEN name[i] ELSE 0]
NameIn(field) == SubSeq(field, 1, SelectInSeq(Append(field, 0), LAMBDA byte : byte = 0) - 1)

isValidUsername(name) ==
  name # <<>> /\ Len(name) < NameSize /\ \A i \in 1..Len(name) : name[i] < 128
Usernames == {name \in Seq(1..127) : isValidUsername(name)}

-----------------------------------------------------------------------------
(* Requests *)

Requests ==
  LET Id == Bytes(IdSize) IN
       [code : {700}, id : Id, name : Usernames, key : Bytes(KeySize)]
  \cup [code : {701, 704}, id : Id]
  \cup [code : {702}, id : Id, target : Id]
  \cup [code : {703}, id : Id, target : Id, type : {1}, content : {<<>>}]
  \cup [code : {703}, id : Id, target : Id, type : {2, 3}, content : Seq(Byte)]

Payload(r) ==
  CASE r.code = 700 -> NameField(r.name) \o r.key
    [] r.code = 702 -> r.target
    [] r.code = 703 -> r.target \o <<r.type>> \o appendUint32LE(Len(r.content)) \o r.content
    [] OTHER        -> <<>>

createBuffer(r) == r.id \o <<1>> \o appendUint16LE(r.code) \o appendUint32LE(Len(Payload(r))) \o Payload(r)

\* Mutant: an offset one too small.
EarlySize(header, at) == readUint32LE(header, at - 1)
PayloadSize(header, at) == readUint32LE(header, at)

\* register_handler.
RegisterRequest(id, payload) ==
  LET name == NameIn(Field(payload, 0, NameSize)) IN
  IF /\ Len(payload) = NameSize + KeySize
     /\ name # <<>> /\ \A i \in 1..Len(name) : name[i] < 128
  THEN [code |-> 700, id |-> id, name |-> name, key |-> Field(payload, NameSize, KeySize)]
  ELSE None

\* send_message_handler.
SendRequest(id, payload) ==
  LET type == payload[IdSize + 1]
      size == readUint32LE(payload, IdSize + 1)
  IN IF /\ Len(payload) >= IdSize + 5 /\ Len(payload) = IdSize + 5 + size
        /\ type \in 1..3 /\ (type = 1 => size = 0)
     THEN [code |-> 703, id |-> id, target |-> Field(payload, 0, IdSize), type |-> type,
           content |-> Field(payload, IdSize + 5, size)]
     ELSE None

\* request_handler_main; the other handlers only check the size.
ParseRequest(data) ==
  LET id      == Field(data, 0, IdSize)
      code    == readUint16LE(data, IdSize + 1)
      payload == SubSeq(data, RequestHeader + 1, Len(data))
  IN CASE Len(payload) # PayloadSize(data, IdSize + 3) \/ data[IdSize + 1] # 1 -> None
       [] code = 700 -> RegisterRequest(id, payload)
       [] code = 702 /\ Len(payload) = IdSize -> [code |-> code, id |-> id, target |-> payload]
       [] code = 703 -> SendRequest(id, payload)
       [] code \in {701, 704} /\ payload = <<>> -> [code |-> code, id |-> id]
       [] OTHER -> None

-----------------------------------------------------------------------------
(* Responses *)

Rows     == [id : Bytes(IdSize), name : Usernames]
Messages == [from : Bytes(IdSize), no : Uint32, type : Byte, content : Seq(Byte)]

Responses ==
  LET Id == Bytes(IdSize) IN
       [code : {2100}, id : Id]
  \cup [code : {2101}, rows : Seq(Rows)]
  \cup [code : {2102}, id : Id, key : Bytes(KeySize)]
  \cup [code : {2103}, id : Id, no : Uint32]
  \cup [code : {2104}, msgs : Seq(Messages)]
  \cup {[code |-> 9000]}

RowPayload(row) == row.id \o NameField(row.name)

\* waiting_messages_handler gives the sender, the number, the type, the content.
RecordPayload(m) ==
  m.from \o appendUint32LE(m.no) \o <<m.type>> \o appendUint32LE(Len(m.content)) \o m.content

RowsPayload(rows)    == FlattenSeq([i \in 1..Len(rows) |-> RowPayload(rows[i])])
RecordsPayload(msgs) == FlattenSeq([i \in 1..Len(msgs) |-> RecordPayload(msgs[i])])

ReplyPayload(a) ==
  CASE a.code = 2100 -> a.id
    [] a.code = 2101 -> RowsPayload(a.rows)
    [] a.code = 2102 -> a.id \o a.key
    [] a.code = 2103 -> a.id \o appendUint32LE(a.no)
    [] a.code = 2104 -> RecordsPayload(a.msgs)
    [] OTHER         -> <<>>

_build_response(a) == <<2>> \o appendUint16LE(a.code) \o appendUint32LE(Len(ReplyPayload(a))) \o ReplyPayload(a)

ReadRow(data, offset) ==
  [id |-> Field(data, offset, IdSize), name |-> NameIn(Field(data, offset + IdSize, NameSize))]

\* responseClientList: rows of a fixed size.
ReadRows(data) ==
  LET row == IdSize + NameSize IN
  IF Len(data) % row # 0 THEN None
  ELSE [code |-> 2101, rows |-> [i \in 1..(Len(data) \div row) |-> ReadRow(data, (i - 1) * row)]]

TypeAt == IdSize + 4  \* the offset of the type in a record

\* One turn of the loop of responseWaitingMessages, at an offset: the record
\* there, whose number is skipped, and what later turns read.
ReadFrom(data, offset, records) ==
  LET size == readUint32LE(data, offset + TypeAt + 1)
      next == offset + TypeAt + 5 + size
  IN CASE offset = Len(data)                                        -> <<>>
       [] offset < Len(data) /\ offset + TypeAt + 5 > Len(data)     -> <<None>>
       [] offset + TypeAt + 5 <= Len(data) /\ next > Len(data)      -> <<None>>
       [] offset + TypeAt + 5 <= Len(data) /\ next <= Len(data)     ->
            <<[from |-> Field(data, offset, IdSize), type |-> data[offset + TypeAt + 1],
               content |-> Field(data, offset + TypeAt + 5, size)]>> \o records[next]

ReadRecords(data) ==
  LET records[offset \in 0..Len(data)] == ReadFrom(data, offset, records) IN
  IF Contains(records[0], None) THEN None ELSE [code |-> 2104, msgs |-> records[0]]

\* responseClientMain and the functions it calls.  An error has no payload, a
\* code that is not known is shown and left.
ParseReply(data) ==
  LET code == readUint16LE(data, 1)
      payload == SubSeq(data, ReplyHeader + 1, Len(data))
      id == Field(payload, 0, IdSize)
  IN CASE code \notin 2100..2104 -> [code |-> code]
       [] code = 2100 /\ Len(payload) >= IdSize -> [code |-> code, id |-> id]
       [] code = 2101 -> ReadRows(payload)
       [] code = 2102 /\ Len(payload) >= IdSize + KeySize ->
            [code |-> code, id |-> id, key |-> Field(payload, IdSize, KeySize)]
       [] code = 2103 /\ Len(payload) >= IdSize + 4 ->
            [code |-> code, id |-> id, no |-> readUint32LE(payload, IdSize)]
       [] code = 2104 -> ReadRecords(payload)
       [] OTHER -> None

-----------------------------------------------------------------------------
(* The hexadecimal ID, whose digits are numbers in 0..15 *)

\* Mutant: the digits of a byte swapped.
LowDigitFirst(byte) == <<byte % 16, byte \div 16>>
Digits(byte) == <<byte \div 16, byte % 16>>

bytesToHex(bytes) == FlattenSeq([i \in 1..Len(bytes) |-> Digits(bytes[i])])

uuidHex32ToBytes16(hex) == [i \in 1..(Len(hex) \div 2) |-> hex[2 * i - 1] * 16 + hex[2 * i]]
=============================================================================
