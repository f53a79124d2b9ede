------------------------------ MODULE ByteArray ------------------------------
(***************************************************************************)
(* sylar's serialisation buffer, class ByteArray (bytearray.h,             *)
(* bytearray.cpp), and the two operations of SocketStream that read and    *)
(* write through it.  One thread uses an array; a call is one action.      *)
(*                                                                         *)
(* The array is a list of blocks of m_baseSize cells.  m_cur is the index  *)
(* of the block that m_position is in, Null at the end of the list.        *)
(* Widths are scaled: a byte has ByteBits bits, so that a varint carries   *)
(* ByteBits - 1 per byte (7 in the code), and the 32- and 64-bit integers  *)
(* have Bits32 and Bits64.                                                 *)
(***************************************************************************)
EXTENDS Integers, FiniteSets, SequencesExt

CONSTANTS
    Bases,          \* the base sizes that arrays are made with
    ByteBits, Bits32, Bits64,
    Ints,           \* integers that callers write
    Strings,        \* strings that callers write, sequences of bytes
    MaxSize,        \* bound on the bytes in the array
    MaxOps,         \* bound on the length of a history
    Junk            \* a byte that nobody stored: uninitialised memory

Byte == 0 .. 2 ^ ByteBits - 1
Cell == Byte \cup {Junk}

ASSUME ByteArrayAssumption ==
    /\ Bases \subseteq Nat \ {0}
    /\ {ByteBits, Bits32, Bits64} \subseteq Nat \ {0, 1}
    /\ Bits32 % ByteBits = 0 /\ Bits64 % ByteBits = 0 /\ Bits32 < Bits64
    /\ Ints \subseteq Int
    /\ Strings \subseteq Seq(Byte)
    /\ \A s \in Strings : Len(s) < 2 ^ Bits64     \* a size_t
    /\ MaxSize \in Nat /\ MaxOps \in Nat
    /\ Junk \notin Byte

VARIABLES
    ba,             \* the ByteArray
    file,           \* the file that writeToFile and readFromFile use
    out,            \* the cells that the last call handed out
    op,             \* the kind of the last call
    wrote, got,     \* the last typed value written, and read since then
    ops             \* calls made so far

vars == <<ba, file, out, op, wrote, got, ops>>

Null == 0
Nothing == [kind |-> "none", value |-> 0, at |-> 0]
Kinds == {"none", "F8", "F32", "F64", "U32", "I32", "U64", "I64", "SF32", "SF64", "SVint", "S", "stream", "file"}

Arrays ==
    [m_baseSize : Bases, m_position : Nat, m_capacity : Nat, m_size : Nat,
     m_endian : {"little", "big"},
     nodes : Seq(UNION {[0 .. base - 1 -> Cell] : base \in Bases}), m_cur : Nat,
     failed : {"none", "write", "read", "seek", "file"}, asked : Nat]

WellFormed(b) ==
    /\ b \in Arrays
    /\ \A j \in 1 .. Len(b.nodes) : b.nodes[j] \in [0 .. b.m_baseSize - 1 -> Cell]
    /\ b.m_cur <= Len(b.nodes)

TypeOK ==
    /\ WellFormed(ba)
    /\ file \in Seq(Cell)
    /\ out \in Seq(Cell)
    /\ op \in {"new", "write", "read", "peek", "seek", "clear"}
    /\ wrote.kind \in Kinds /\ got.kind \in Kinds
    /\ ops \in 0 .. MaxOps

\* Node( s ): new char[s], uninitialised.
NewNode(base) == [o \in 0 .. base - 1 |-> Junk]

\* ByteArray( base_size )
New(base) ==
    [m_baseSize |-> base, m_position |-> 0, m_capacity |-> base, m_size |-> 0,
     m_endian |-> "big", nodes |-> <<NewNode(base)>>, m_cur |-> 1,
     failed |-> "none", asked |-> 0]

Init ==
    /\ \E base \in Bases : ba = New(base)
    /\ file = <<>> /\ out = <<>> /\ op = "new"
    /\ wrote = Nothing /\ got = Nothing /\ ops = 0

-----------------------------------------------------------------------------
(* The list of blocks                                                        *)

getReadSize(b) == b.m_size - b.m_position
getCapacity(b) == b.m_capacity - b.m_position

\* m_position % m_baseSize
Offset(b) == b.m_position % b.m_baseSize

\* The loops over blocks start in block cur at offset npos: the k-th byte is in
\* the block (npos + k) \div base further, if there is one.
Reaches(b, cur, npos, n) ==
    /\ cur # Null
    /\ n > 0 => cur + (npos + n - 1) \div b.m_baseSize <= Len(b.nodes)

\* The n cells from there on.
CellsFrom(b, cur, npos, n) ==
    [i \in 1 .. n |-> LET p == npos + i - 1
                      IN b.nodes[cur + p \div b.m_baseSize][p % b.m_baseSize]]

\* Mutant: m_cur stays in a block that is exactly full.
CurAfter_Kept(b, n) ==
    b.m_cur + (Offset(b) + n - 1) \div b.m_baseSize

\* m_cur after n bytes: the next block when one is exactly full.
CurAfter(b, n) ==
    LET c == b.m_cur + (Offset(b) + n) \div b.m_baseSize
    IN IF c <= Len(b.nodes) THEN c ELSE Null

\* Mutant: a remainder never gets a block.
BlocksFor_NoRemainder(b, size) == size \div b.m_baseSize

\* addCapacity, the blocks for size bytes more than the capacity left: a
\* remainder gets one only if it exceeds that capacity.
BlocksFor(b, size) ==
    size \div b.m_baseSize + (IF size % b.m_baseSize > getCapacity(b) THEN 1 ELSE 0)

\* addCapacity( size )
AddCapacity(b, n) ==
    LET old == getCapacity(b)
        count == BlocksFor(b, n - old)
    IN IF n = 0 \/ old >= n THEN b
       ELSE [b EXCEPT !.nodes = @ \o [i \in 1 .. count |-> NewNode(b.m_baseSize)],
                      !.m_capacity = @ + count * b.m_baseSize,
                      !.m_cur = IF old # 0 THEN @
                                ELSE IF count = 0 THEN Null ELSE Len(b.nodes) + 1]

\* Where write() takes its k-th byte from: the last block's share is copied from
\* buf + npos, where npos is the offset in that block, the others from buf + bpos.
\* An index beyond the n bytes that were passed is somebody else's memory.
Source(b, buf, k) ==
    LET n == Len(buf)
        npos == Offset(b)
        bpos == IF npos + n <= b.m_baseSize THEN 0
                ELSE ((npos + n - 1) \div b.m_baseSize) * b.m_baseSize - npos
        i == IF k < bpos THEN k ELSE (k - bpos) + (IF bpos = 0 THEN npos ELSE 0)
    IN IF i < n THEN buf[i + 1] ELSE Junk

\* write( buf, size )
Write(b, buf) ==
    LET n == Len(buf)
        c == AddCapacity(b, n)
        base == b.m_baseSize
        first == (c.m_cur - 1) * base + Offset(c)
        end == c.m_position + n
    IN IF b.failed # "none" \/ n = 0 THEN b
       ELSE IF ~Reaches(c, c.m_cur, Offset(c), n)
       THEN [b EXCEPT !.failed = "write", !.asked = n]
       ELSE [c EXCEPT
               !.nodes = [j \in 1 .. Len(@) |-> [o \in 0 .. base - 1 |->
                            LET k == (j - 1) * base + o - first
                            IN IF k \in 0 .. n - 1 THEN Source(c, buf, k) ELSE @[j][o]]],
               !.m_cur = CurAfter(c, n),
               !.m_position = end,
               !.m_size = IF end > @ THEN end ELSE @]

\* read( buf, size ): the array afterwards, the cells read, and whether it
\* returned (rather than throw out_of_range).
Read(b, n) ==
    LET npos == Offset(b)
    IN IF b.failed # "none" \/ n > getReadSize(b)
       THEN [b |-> b, cells |-> <<>>, ok |-> FALSE]
       ELSE IF ~Reaches(b, b.m_cur, npos, n)
       THEN [b |-> [b EXCEPT !.failed = "read"], cells |-> <<>>, ok |-> FALSE]
       ELSE [b |-> [b EXCEPT !.m_cur = CurAfter(b, n), !.m_position = @ + n],
             cells |-> CellsFrom(b, b.m_cur, npos, n), ok |-> TRUE]

\* setPosition( val )
SetPosition(b, val) ==
    LET c == val \div b.m_baseSize + 1
    IN IF val > b.m_capacity THEN b
       ELSE IF val > Len(b.nodes) * b.m_baseSize THEN [b EXCEPT !.failed = "seek"]
       ELSE [b EXCEPT !.m_position = val,
                      !.m_size = IF val > @ THEN val ELSE @,
                      !.m_cur = IF c <= Len(b.nodes) THEN c ELSE Null]

-----------------------------------------------------------------------------
(* Conversions                                                               *)

SYLAR_BYTE_ORDER == "little"

byteswap(bytes) == Reverse(bytes)

\* The memory of an integer of the given width, on this host.
Memory(v, bits) ==
    LET u == v % 2 ^ bits
    IN [i \in 1 .. bits \div ByteBits |-> (u \div 2 ^ (ByteBits * (i - 1))) % 2 ^ ByteBits]

\* writeF*: swapped unless the array has the host's order.
Fixed(endian, v, bits) ==
    IF endian # SYLAR_BYTE_ORDER THEN byteswap(Memory(v, bits)) ELSE Memory(v, bits)

\* The number in a sequence of digits of d bits, the lowest first, and in the first
\* k of them.
Sums(s, d) ==
    LET sum[k \in 0 .. Len(s)] == IF k = 0 THEN 0 ELSE sum[k - 1] + s[k] * 2 ^ (d * (k - 1))
    IN sum

Digits(s, d) == Sums(s, d)[Len(s)]

\* Mutant: the bytes are taken in the host's order.
Unfixed_NoSwap(endian, bytes) == Digits(bytes, ByteBits)

\* readF*
Unfixed(endian, bytes) ==
    Digits(IF endian = SYLAR_BYTE_ORDER THEN bytes ELSE byteswap(bytes), ByteBits)

Signed(u, bits) == IF u >= 2 ^ (bits - 1) THEN u - 2 ^ bits ELSE u

Zigzag(v) == IF v < 0 THEN -v * 2 - 1 ELSE v * 2

EncodeZigzag32(v) == Zigzag(v) % 2 ^ Bits32

\* Declared to return int32_t.
EncodeZigzag64(v) == Signed(Zigzag(v) % 2 ^ Bits32, Bits32)

DecodeZigzag32(u) == IF u % 2 = 1 THEN -(u \div 2) - 1 ELSE u \div 2

DecodeZigzag64(u) == IF u % 2 = 1 THEN -(u \div 2) - 1 ELSE u \div 2

Group == ByteBits - 1           \* bits per byte of a varint
High == 2 ^ Group               \* 0x80

\* writeUint32, writeUint64: groups of low bits, all but the last marked.
Varint(u) ==
    LET n == CHOOSE k \in 1 .. Bits64 : /\ u < 2 ^ (Group * k)
                                        /\ k > 1 => u >= 2 ^ (Group * (k - 1))
    IN [i \in 1 .. n |-> ((u \div 2 ^ (Group * (i - 1))) % High) + (IF i < n THEN High ELSE 0)]

\* The bytes a varint of the given width may take: iterations of the read loop.
Groups(bits) == (bits + Group - 1) \div Group

\* What memory that holds Junk may turn out to hold.
Resolved(cells) ==
    {s \in [1 .. Len(cells) -> Byte] : \A i \in DOMAIN s : cells[i] # Junk => s[i] = cells[i]}

\* How many bytes readUint64 takes of view; readUint32 has no break and takes all.
TakenOf(view, bits) ==
    LET ends == {i \in 1 .. Len(view) : view[i] < High}
    IN IF bits = Bits32 \/ ends = {} THEN Len(view)
       ELSE CHOOSE i \in ends : \A j \in ends : i <= j

Unvarint(bytes, bits) ==
    Digits([i \in 1 .. Len(bytes) |-> bytes[i] % High], Group) % 2 ^ bits

-----------------------------------------------------------------------------
(* Calls                                                                     *)

Step(kind) ==
    /\ ba.failed = "none" /\ ops < MaxOps
    /\ ops' = ops + 1
    /\ op' = kind

\* The bytes handed to write() by the typed writes.  writeFuint16 swaps and does
\* not write, so writeStringF16 writes the string only.
Encoding(kind, v) ==
    CASE kind = "F8" -> <<Memory(v, ByteBits)>>
      [] kind = "F32" -> <<Fixed(ba.m_endian, v, Bits32)>>
      [] kind = "F64" -> <<Fixed(ba.m_endian, v, Bits64)>>
      [] kind = "U32" -> <<Varint(v % 2 ^ Bits32)>>
      [] kind = "I32" -> <<Varint(EncodeZigzag32(Signed(EncodeZigzag32(v), Bits32)))>>
      [] kind = "U64" -> <<Varint(v % 2 ^ Bits64)>>
      [] kind = "I64" -> <<Varint(EncodeZigzag64(v) % 2 ^ Bits64)>>

StringEncoding(kind, s) ==
    CASE kind = "SF32" -> <<Fixed(ba.m_endian, Len(s), Bits32), s>>
      [] kind = "SF64" -> <<Fixed(ba.m_endian, Len(s), Bits64), s>>
      [] kind = "SVint" -> <<Varint(Len(s)), s>>
      [] kind = "S" -> <<s>>

\* The value as the reader of its kind returns it.
Value(kind, v) ==
    CASE kind = "F8" -> v % 2 ^ ByteBits
      [] kind \in {"F32", "U32"} -> v % 2 ^ Bits32
      [] kind \in {"F64", "U64"} -> v % 2 ^ Bits64
      [] kind = "I32" -> Signed(v % 2 ^ Bits32, Bits32)
      [] OTHER -> v

\* The array after k of the writes of a call; it stays where the process stops.
After(b, pieces) ==
    LET after[k \in 0 .. Len(pieces)] == IF k = 0 THEN b ELSE Write(after[k - 1], pieces[k])
    IN after

\* A call that makes these writes.
WriteAll(kind, value, pieces) ==
    /\ Step("write")
    /\ ba.m_position + Len(FlattenSeq(pieces)) <= MaxSize
    /\ ba' = After(ba, pieces)[Len(pieces)]
    /\ wrote' = [kind |-> kind, value |-> value, at |-> ba.m_position]
    /\ got' = Nothing /\ out' = <<>>
    /\ UNCHANGED file

\* writeFint8 .. writeDouble: the sign is the caller's reading of the same bytes.
WriteInteger(kind, v) == WriteAll(kind, Value(kind, v), Encoding(kind, v))

WriteString(kind, s) == WriteAll(kind, s, StringEncoding(kind, s))

\* writeStringF16, of which writeFuint16 is part.
WriteStringF16(s) == WriteAll("none", 0, <<s>>)

\* A call that takes n bytes and returns their value, or throws.
Take(kind, value, r) ==
    /\ Step("read")
    /\ ba' = r.b /\ out' = r.cells
    /\ got' = IF r.ok /\ \A i \in 1 .. Len(r.cells) : r.cells[i] # Junk
              THEN [kind |-> kind, value |-> value, at |-> ba.m_position] ELSE Nothing
    /\ UNCHANGED <<file, wrote>>

\* Mutant: the offset in the block is forgotten.
Ahead_BlockStart(b, n) ==
    LET m == IF n < getReadSize(b) THEN n ELSE getReadSize(b)
    IN IF m = 0 THEN <<>> ELSE CellsFrom(b, b.m_cur, 0, m)

\* What is read next, as far as there is any, at most n bytes.
Ahead(b, n) ==
    LET m == IF n < getReadSize(b) THEN n ELSE getReadSize(b)
    IN IF m = 0 THEN <<>> ELSE CellsFrom(b, b.m_cur, Offset(b), m)

\* readFint8 .. readFuint64, readFloat, readDouble
ReadFixed(kind) ==
    LET bits == CASE kind = "F8" -> ByteBits [] kind = "F32" -> Bits32 [] kind = "F64" -> Bits64
        n == bits \div ByteBits
    IN \E view \in Resolved(Ahead(ba, n)) :
          Take(kind, IF kind = "F8" THEN Digits(view, ByteBits) ELSE Unfixed(ba.m_endian, view),
               Read(ba, n))

\* readUint32, readUint64, byte by byte: the end of the data throws when all that
\* is left has been read.
ReadVarint(b, view, bits) ==
    LET taken == TakenOf(view, bits)
        over == \/ Len(view) = Groups(bits)
                \/ bits = Bits64 /\ view[taken] < High
    IN IF view = <<>> THEN [b |-> b, cells |-> <<>>, ok |-> FALSE]
       ELSE [Read(b, taken) EXCEPT !.ok = @ /\ over]

VarintValue(view, bits) == Unvarint(SubSeq(view, 1, TakenOf(view, bits)), bits)

\* readUint32, readInt32, readUint64, readInt64
ReadVint(kind) ==
    LET bits == IF kind \in {"U32", "I32"} THEN Bits32 ELSE Bits64
    IN \E view \in Resolved(Ahead(ba, Groups(bits))) :
         LET u == VarintValue(view, bits)
         IN Take(kind,
                 CASE kind = "I32" -> DecodeZigzag32(u)
                   [] kind = "I64" -> DecodeZigzag64(u)
                   [] OTHER -> u,
                 ReadVarint(ba, view, bits))

\* readStringF16, F32, F64, Vint: the length, then that many bytes.
ReadString(kind) ==
    LET bits == IF kind = "SF32" THEN Bits32 ELSE Bits64
        n == IF kind = "SVint" THEN Groups(Bits64) ELSE bits \div ByteBits
    IN \E view \in Resolved(Ahead(ba, n)) :
         LET p == IF kind = "SVint" THEN ReadVarint(ba, view, Bits64) ELSE Read(ba, n)
             len == IF kind = "SVint" THEN VarintValue(view, Bits64) ELSE Unfixed(ba.m_endian, view)
             r == Read(p.b, len)
         IN IF ~p.ok THEN Take(kind, 0, p)
            ELSE Take(kind, r.cells, [r EXCEPT !.cells = p.cells \o r.cells])

\* read( buf, size, position ) const: from m_cur, at the position's offset.
ReadAt(b, n, position) == CellsFrom(b, b.m_cur, position % b.m_baseSize, n)

\* toString, toHexString
Peek ==
    /\ Step("peek")
    /\ out' = IF getReadSize(ba) = 0 THEN <<>> ELSE ReadAt(ba, getReadSize(ba), ba.m_position)
    /\ UNCHANGED <<ba, file, wrote, got>>

\* writeToFile, into the file: each round takes min( read_size, m_baseSize ) - diff
\* bytes.  That is the rest of the block unless less than a block is left to read;
\* then the rounds alternate around the end until cur is null.
WriteToFile ==
    /\ Step("peek")
    /\ LET n == getReadSize(ba) IN
       IF Offset(ba) > 0 /\ n \in 1 .. ba.m_baseSize - 1
       THEN /\ ba' = [ba EXCEPT !.failed = "file"]
            /\ UNCHANGED <<file, out>>
       ELSE /\ file' = Ahead(ba, n) /\ out' = file'
            /\ UNCHANGED ba
    /\ UNCHANGED <<wrote, got>>

\* Mutant: the last piece is left out if it is short.
Pieces_Whole(s, n) == [i \in 1 .. Len(s) \div n |-> SubSeq(s, (i - 1) * n + 1, i * n)]

\* The pieces of at most n bytes that ifs.read delivers.
Pieces(s, n) ==
    [i \in 1 .. (Len(s) + n - 1) \div n |->
        SubSeq(s, (i - 1) * n + 1, IF i * n < Len(s) THEN i * n ELSE Len(s))]

\* readFromFile: block by block, at the position.  A file that cannot be opened
\* changes nothing, like an empty one.
ReadFromFile == WriteAll("file", file, Pieces(file, ba.m_baseSize))

SetPos(p) ==
    /\ Step("seek")
    /\ ba' = SetPosition(ba, p) /\ out' = <<>>
    /\ got' = Nothing
    /\ UNCHANGED <<file, wrote>>

\* clear: the blocks after the first go, m_capacity stays.
Clear ==
    /\ Step("clear")
    /\ ba' = [ba EXCEPT !.m_position = 0, !.m_size = 0, !.m_cur = 1,
                        !.nodes = <<@[1]>>]
    /\ out' = <<>> /\ wrote' = Nothing /\ got' = Nothing
    /\ UNCHANGED file

SetIsLittleEndian(val) ==
    /\ Step("seek")
    /\ ba' = [ba EXCEPT !.m_endian = IF val THEN "little" ELSE "big"]
    /\ out' = <<>> /\ wrote' = Nothing /\ got' = Nothing
    /\ UNCHANGED file

\* SocketStream::read( ba, length ): recv scatters what came over the blocks that
\* getWriteBuffers lists, and the position moves by as much.
StreamRead(length, came) ==
    LET c == AddCapacity(ba, length)
        n == Len(came)
        first == (c.m_cur - 1) * c.m_baseSize + Offset(c)
    IN /\ Step("write") /\ length > 0 /\ n <= length
       /\ ba.m_position + length <= MaxSize
       /\ ba' = IF ~Reaches(c, c.m_cur, Offset(c), length)
                THEN [ba EXCEPT !.failed = "write", !.asked = length]
                ELSE LET d == [c EXCEPT !.nodes = [j \in 1 .. Len(@) |->
                                [o \in 0 .. c.m_baseSize - 1 |->
                                   LET k == (j - 1) * c.m_baseSize + o - first
                                   IN IF k \in 0 .. n - 1 THEN came[k + 1] ELSE @[j][o]]]]
                     IN IF n > 0 THEN SetPosition(d, d.m_position + n) ELSE d
       /\ wrote' = [kind |-> "stream", value |-> came, at |-> ba.m_position]
       /\ got' = Nothing /\ out' = <<>>
       /\ UNCHANGED file

\* SocketStream::write( ba, length ): send takes some of what getReadBuffers lists.
StreamWrite(length, sent) ==
    /\ Step("read") /\ length > 0 /\ sent <= Len(Ahead(ba, length))
    /\ ba' = IF sent > 0 THEN SetPosition(ba, ba.m_position + sent) ELSE ba
    /\ out' = Ahead(ba, sent)
    /\ got' = Nothing
    /\ UNCHANGED <<file, wrote>>

Next ==
    \/ \E kind \in {"F8", "F32", "F64", "U32", "I32", "U64", "I64"}, v \in Ints : WriteInteger(kind, v)
    \/ \E kind \in {"SF32", "SF64", "SVint", "S"}, s \in Strings : WriteString(kind, s)
    \/ \E s \in Strings : WriteStringF16(s)
    \/ \E kind \in {"F8", "F32", "F64"} : ReadFixed(kind)
    \/ \E kind \in {"U32", "I32", "U64", "I64"} : ReadVint(kind)
    \/ \E kind \in {"SF32", "SF64", "SVint"} : ReadString(kind)
    \/ Peek \/ WriteToFile \/ ReadFromFile
    \/ \E p \in 0 .. MaxSize : SetPos(p)
    \/ Clear
    \/ \E val \in BOOLEAN : SetIsLittleEndian(val)
    \/ \E length \in 1 .. MaxSize, came \in Strings \cup {<<>>} : StreamRead(length, came)
    \/ \E length \in 1 .. MaxSize, sent \in 0 .. MaxSize : StreamWrite(length, sent)

Spec == Init /\ [][Next]_vars

-----------------------------------------------------------------------------
(* Properties                                                                *)

Running == ba.failed = "none"

\* The blocks hold m_size bytes, and m_cur is the block of m_position, null at the
\* end of the list.
Placed(b) ==
    LET c == b.m_position \div b.m_baseSize + 1 IN
    /\ b.m_position <= b.m_size
    /\ b.m_size <= Len(b.nodes) * b.m_baseSize
    /\ b.m_cur = IF c <= Len(b.nodes) THEN c ELSE Null

\* m_cur is the block of m_position, and the blocks hold m_size bytes, however
\* writes, reads, positions, clear() and growth follow each other and wherever they
\* stop in a block (bytearray.cpp:384-449, 482-502, 547-578).  The loops that start
\* at m_cur rely on it.
CurIsPosition == Running => Placed(ba)

\* clear() dropped blocks that m_capacity still counts.
Short(b) == Len(b.nodes) * b.m_baseSize < b.m_capacity

\* What a process that a call on b ended can have died of.
FailedWell(b) ==
    LET old == getCapacity(b)
    IN /\ b.failed = "write" =>
             Short(b) \/ (b.asked > old /\ (b.asked - old) % b.m_baseSize \in 1 .. old)
       /\ b.failed = "read" => b.m_cur = Null /\ getReadSize(b) = 0
       /\ b.failed = "seek" => Short(b)
       /\ b.failed = "file" => Offset(b) > 0 /\ getReadSize(b) \in 1 .. b.m_baseSize - 1

\* A call runs off the list of blocks only for these reasons: a write or a receive,
\* because clear() dropped blocks that m_capacity still counts
\* (bytearray.cpp:370-382) or because addCapacity gave no block for a remainder that
\* is not larger than the room that was left (line 559); a read, because it asks for
\* no bytes (an empty string) at the end of the last block (lines 421-429);
\* setPosition, because of clear(); writeToFile, because it starts inside a block with
\* less than a block left to read, so that its rounds go back and forth around the end
\* (lines 517-524).  In all other histories growth suffices, a read within the data, or
\* beyond it, is safe, and a file is written to its end.
FailsOnly == FailedWell(ba)

\* A write stores exactly what it is passed if it starts a block and fits into it.
Exact(at, n) == at % ba.m_baseSize = 0 /\ n <= ba.m_baseSize

\* The sizes of the writes that a value of a kind makes.
Sizes(w) ==
    CASE w.kind \in {"F8", "F32", "F64", "U64", "I64"} -> <<Len(Encoding(w.kind, w.value)[1])>>
      [] w.kind \in {"SF32", "SF64", "SVint"} ->
            [i \in 1 .. 2 |-> Len(StringEncoding(w.kind, w.value)[i])]

\* What a typed read returns is what the typed write of the same kind stored at
\* that position, in both byte orders, for fixed-size integers, 64-bit varints and
\* zigzags, and strings with a length in front, if each write() of it starts a
\* block and fits (bytearray.cpp:61-368).  Zigzags are exact up to the 32 bits that
\* EncodeZigzag64 returns, and strings up to what their length's width holds.
TypedRoundTrip ==
    (got.kind = wrote.kind /\ got.at = wrote.at
        /\ got.kind \in {"F8", "F32", "F64", "U64", "I64", "SF32", "SF64", "SVint"}) =>
    LET n == Sizes(wrote) IN
    (/\ Exact(wrote.at, n[1])
     /\ Len(n) = 2 => Exact(wrote.at + n[1], n[2])
     /\ wrote.kind = "I64" => Zigzag(wrote.value) < 2 ^ (Bits32 - 1)
     /\ wrote.kind = "SF32" => Len(wrote.value) < 2 ^ Bits32)
        => got.value = wrote.value

\* readFromFile at the start of a block stores the file's bytes exactly, over as
\* many blocks as it takes, and so does a receive anywhere, as many bytes as came
\* (bytearray.cpp:529-545, socket_stream.cpp:31-45).
BulkExact ==
    [][ (Running' /\ wrote' # wrote
            /\ (wrote'.kind = "stream" \/ (wrote'.kind = "file" /\ Offset(ba) = 0)))
        => LET n == Len(wrote'.value) IN
           /\ ba'.m_position = ba.m_position + n
           /\ CellsFrom(ba', 1, ba.m_position, n) = wrote'.value ]_vars

\* The array of bytes that the blocks stand for.
Flat == INSTANCE FlatArray WITH
    content <- IF Running THEN CellsFrom(ba, 1, 0, ba.m_size) ELSE <<>>,
    position <- ba.m_position, dead <- ~Running

\* Through its blocks, a ByteArray behaves like one array of bytes with a position:
\* a write changes only the bytes it moves over, a read hands out exactly those, and
\* looking changes nothing (bytearray.cpp:384-480, 504-545, 580-704).
FlatSpec == Flat!Spec

-----------------------------------------------------------------------------
(* The inductive strengthening of CurIsPosition and FailsOnly                *)

\* m_capacity counts at least the blocks there are.
Counted(b) == Len(b.nodes) >= 1 /\ Len(b.nodes) * b.m_baseSize <= b.m_capacity

\* An array that calls can be made on.
Sound(b) == WellFormed(b) /\ b.failed = "none" /\ Placed(b) /\ Counted(b)

ArrayInv ==
    /\ TypeOK
    /\ Running => Placed(ba) /\ Counted(ba)
    /\ FailedWell(ba)
=============================================================================
