------------------------------ MODULE ObjFile ------------------------------
(***************************************************************************)
(* Object files: the lines that yas prints, load_mem of isa.c, which reads   *)
(* them into the memory of the processor simulators, and the binary files   *)
(* of y86asm, which y86sim reads.  A line is a sequence of characters.      *)
(***************************************************************************)
EXTENDS Integers, SequencesExt

CONSTANTS
  Listings,   \* files of lines: of each its characters and what it says
  Binaries,   \* files of bytes
  Stores,     \* addresses and values the program then stores
  MEM_SIZE

VARIABLES
  form,         \* listing or binary: who reads it, the processor simulators or y86sim
  source,       \* the file, of Listings or of Binaries
  step,         \* where the program is: file, loaded, refused, stored, invalid
  upto,         \* the lines read so far
  contents,     \* the memory's bytes that are not the 0 of calloc
  byte_cnt,
  before,       \* the memory before the store
  store         \* the store: address and value

ovars == <<form, source, step, upto, contents, byte_cnt, before, store>>

Digits == <<"0", "1", "2", "3", "4", "5", "6", "7", "8", "9", "a", "b", "c", "d", "e", "f">>
Capitals == <<"0", "1", "2", "3", "4", "5", "6", "7", "8", "9", "A", "B", "C", "D", "E", "F">>
Blank == {" ", "\t", "\n", "\r"}
Blanks(count) == [k \in 1 .. count |-> " "]

\* The characters of a line, and the final 0 behind them.
At(buf, pos) == IF pos \in DOMAIN buf THEN buf[pos] ELSE "\\0"
isxdigit(char) == \E d \in 1 .. 16 : char \in {Digits[d], Capitals[d]}
isspace(char) == char \in Blank
hex2dig(char) == (CHOOSE d \in 1 .. 16 : char \in {Digits[d], Capitals[d]}) - 1

-----------------------------------------------------------------------------
\* The len least significant digits of value, with what is left of it lost.
hexstuff(value, len) ==
  [k \in 1 .. len |-> Digits[((value \div 16 ^ (len - k)) % 16) + 1]]

\* A line of the listing: three digits for the address, the code, the source.
\* A line without tokens has the source only.
print_code(pos, code, tcount, input_line) ==
  LET bytes == FlattenSeq([k \in DOMAIN code |-> hexstuff(code[k], 2)]) IN
  (IF tcount > 0
     THEN <<" ", " ", "0", "x">> \o hexstuff(pos, 3) \o <<":", " ">> \o bytes \o Blanks(12 - Len(bytes)) \o <<" ">>
     ELSE Blanks(22))
  \o <<"|", " ">> \o input_line \o <<"\n">>

-----------------------------------------------------------------------------
\* The first position from pos on that is not one of the kind.
SkipSpace(buf, pos) == CHOOSE k \in pos .. Len(buf) + 1 : ~isspace(At(buf, k)) /\ \A j \in pos .. k - 1 : isspace(At(buf, j))
SkipDigits(buf, pos) == CHOOSE k \in pos .. Len(buf) + 1 : ~isxdigit(At(buf, k)) /\ \A j \in pos .. k - 1 : isxdigit(At(buf, j))

Value(digits) == FoldLeft(LAMBDA sum, char : 16 * sum + hex2dig(char), 0, digits)

\* A line that does not begin with 0x is passed over. The code is every pair of
\* digits behind the colon; a byte behind the end of the memory ends the file,
\* with the bytes before it loaded.
load_line(mem, buf) ==
  LET start == SkipSpace(buf, 1)
      behind == SkipDigits(buf, start + 2)
      colon == SkipSpace(buf, behind)
      code == SkipSpace(buf, colon + 1)
      pairs == (SkipDigits(buf, code) - code) \div 2
      bytepos == Value(SubSeq(buf, start + 2, behind - 1))
      fit == IF bytepos + pairs <= MEM_SIZE THEN pairs
             ELSE IF bytepos >= MEM_SIZE THEN 0 ELSE MEM_SIZE - bytepos
      Byte(k) == 16 * hex2dig(buf[code + 2 * k]) + hex2dig(buf[code + 2 * k + 1])
  IN IF ~(At(buf, start) = "0" /\ At(buf, start + 1) \in {"x", "X"})
       THEN [ok |-> TRUE, mem |-> mem, count |-> 0]
     ELSE IF At(buf, colon) # ":" THEN [ok |-> FALSE, mem |-> mem, count |-> 0]
     ELSE [ok |-> fit = pairs,
           mem |-> [a \in DOMAIN mem \cup bytepos .. (bytepos + fit - 1) |->
                      IF a - bytepos \in 0 .. fit - 1 THEN Byte(a - bytepos) ELSE mem[a]],
           count |-> fit]

-----------------------------------------------------------------------------
\* The memory of both simulators, isa.c and y86sim.c: a word is four bytes, the lowest first.
Cell(mem, a) == IF a \in DOMAIN mem THEN mem[a] ELSE 0
get_byte_val(mem, pos) ==
  IF pos < 0 \/ pos >= MEM_SIZE THEN [ok |-> FALSE, val |-> 0] ELSE [ok |-> TRUE, val |-> Cell(mem, pos)]

\* The highest byte has the sign.
get_word_val(mem, pos) ==
  LET high == Cell(mem, pos + 3) IN
  IF pos < 0 \/ pos + 4 > MEM_SIZE THEN [ok |-> FALSE, val |-> 0]
  ELSE [ok |-> TRUE,
        val |-> Cell(mem, pos) + 256 * Cell(mem, pos + 1) + 65536 * Cell(mem, pos + 2)
                + 16777216 * (IF high < 128 THEN high ELSE high - 256)]

set_byte_val(mem, pos, val) ==
  IF pos < 0 \/ pos >= MEM_SIZE THEN [ok |-> FALSE, mem |-> mem]
  ELSE [ok |-> TRUE, mem |-> [a \in DOMAIN mem \cup {pos} |-> IF a = pos THEN val ELSE mem[a]]]

set_word_val(mem, pos, val) ==
  IF pos < 0 \/ pos + 4 > MEM_SIZE THEN [ok |-> FALSE, mem |-> mem]
  ELSE [ok |-> TRUE,
        mem |-> [a \in DOMAIN mem \cup pos .. (pos + 3) |->
                   IF a \in pos .. (pos + 3) THEN (val \div 256 ^ (a - pos)) % 256 ELSE mem[a]]]

\* Whether two memories differ in a word; one with no byte but those of calloc does not.
diff_mem(old, new) ==
  \E word \in {a \div 4 : a \in DOMAIN old \cup DOMAIN new} :
    get_word_val(old, 4 * word) # get_word_val(new, 4 * word)

\* The same functions in y86sim.c, a word under the name of long.
get_long_val(mem, addr) == get_word_val(mem, addr)
set_long_val(mem, addr, val) == set_word_val(mem, addr, val)

\* The bytes of a binary file. One as long as the memory is refused: the end of the
\* file has not been seen.
load_binfile(bytes) ==
  [ok |-> Len(bytes) < MEM_SIZE,
   mem |-> [a \in 0 .. (IF Len(bytes) < MEM_SIZE THEN Len(bytes) ELSE MEM_SIZE) - 1 |-> bytes[a + 1]]]

-----------------------------------------------------------------------------
Init ==
  /\ \/ form = "listing" /\ source \in Listings
     \/ form = "binary" /\ source \in Binaries
  /\ step = "file"
  /\ upto = 0 /\ contents = <<>> /\ byte_cnt = 0 /\ before = <<>> /\ store = [pos |-> 0, val |-> 0]

LoadLine ==
  /\ step = "file" /\ form = "listing" /\ upto < Len(source)
  /\ LET loaded == load_line(contents, source[upto + 1].line) IN
       /\ contents' = loaded.mem
       /\ byte_cnt' = byte_cnt + loaded.count
       /\ step' = IF loaded.ok THEN "file" ELSE "refused"
  /\ upto' = upto + 1
  /\ UNCHANGED <<form, source, before, store>>

\* Without any code the simulators give up as well.
LoadEnd ==
  /\ step = "file" /\ form = "listing" /\ upto = Len(source)
  /\ step' = IF byte_cnt = 0 THEN "refused" ELSE "loaded"
  /\ UNCHANGED <<form, source, upto, contents, byte_cnt, before, store>>

LoadBinary ==
  /\ step = "file" /\ form = "binary"
  /\ contents' = load_binfile(source).mem
  /\ step' = IF load_binfile(source).ok THEN "loaded" ELSE "refused"
  /\ UNCHANGED <<form, source, upto, byte_cnt, before, store>>

\* A store of the program, a word or a byte.
StoreWord ==
  /\ step = "loaded" /\ store' \in Stores /\ before' = contents
  /\ LET stored == IF form = "listing" THEN set_word_val(contents, store'.pos, store'.val)
                   ELSE set_long_val(contents, store'.pos, store'.val)
     IN contents' = stored.mem /\ step' = IF stored.ok THEN "stored" ELSE "invalid"
  /\ UNCHANGED <<form, source, upto, byte_cnt>>

StoreByte ==
  /\ step = "loaded" /\ before' = contents
  /\ store' \in {[pos |-> s.pos, val |-> s.val % 256] : s \in Stores}
  /\ LET stored == set_byte_val(contents, store'.pos, store'.val) IN
       contents' = stored.mem /\ step' = IF stored.ok THEN "stored byte" ELSE "invalid byte"
  /\ UNCHANGED <<form, source, upto, byte_cnt>>

Next == LoadLine \/ LoadEnd \/ LoadBinary \/ StoreWord \/ StoreByte

-----------------------------------------------------------------------------
\* The addresses of a line's code, and the last line, if any, that has code for an address.
Covered(item) == item.pos .. (item.pos + Len(item.code) - 1)
Says(a) ==
  LET lines == {k \in 1 .. upto : source[k].says = "code" /\ a \in Covered(source[k])}
      last == CHOOSE k \in lines : \A j \in lines : j <= k
  IN IF lines = {} THEN 0 ELSE source[last].code[a - source[last].pos + 1]

\* yas prints three digits of an address, and the memory has room for twice as much.
Printable == \A k \in DOMAIN source : source[k].pos < 4096 \/ source[k].says # "code" \/ ~source[k].printed

\* What is loaded is what the lines say, the later line where two have the same
\* address; a file is refused for a line without a colon, for code behind the
\* end of the memory, or when it has no code at all.
ListingRight ==
  step \in {"file", "loaded", "refused"} /\ form = "listing" /\ Printable =>
    LET Beyond(item) == item.says = "code" /\ \E a \in Covered(item) : a >= MEM_SIZE IN
    /\ \A a \in DOMAIN contents \cup UNION {Covered(source[k]) : k \in {j \in 1 .. upto : source[j].says = "code"}} :
         a < MEM_SIZE => Cell(contents, a) = Says(a)
    /\ step = "refused" <=> \/ \E k \in 1 .. upto : source[k].says = "bad" \/ Beyond(source[k])
                            \/ step # "file" /\ upto = Len(source)
                               /\ \A k \in DOMAIN source : source[k].says # "code" \/ source[k].code = <<>>

\* A binary file is in the memory from 0 on, and only a file that fills the memory
\* or more is refused.
BinaryRight ==
  form = "binary" =>
    /\ step = "refused" => Len(source) >= MEM_SIZE
    /\ step = "loaded" => \A a \in 0 .. Len(source) : get_byte_val(contents, a).val = (source \o <<0>>)[a + 1]

\* A word is read as it was stored, at any address that has room for it, aligned or
\* not, and no other byte changes; a byte likewise.  diff_mem finds exactly the changes.
StoredRight ==
  /\ step = "stored" => /\ get_word_val(contents, store.pos) = [ok |-> TRUE, val |-> store.val]
                        /\ store.pos >= 0 /\ store.pos <= MEM_SIZE - 4
  /\ step = "stored byte" => get_byte_val(contents, store.pos) = [ok |-> TRUE, val |-> store.val]
  /\ step = "invalid" => store.pos < 0 \/ store.pos > MEM_SIZE - 4
  /\ step = "invalid byte" => store.pos < 0 \/ store.pos >= MEM_SIZE
  /\ step \in {"stored", "stored byte", "invalid", "invalid byte"} =>
       LET written == IF step = "stored" THEN store.pos .. (store.pos + 3)
                      ELSE IF step = "stored byte" THEN {store.pos} ELSE {}
       IN /\ \A a \in (DOMAIN before \cup DOMAIN contents) \ written : Cell(before, a) = Cell(contents, a)
          /\ diff_mem(before, contents) <=> \E a \in written : Cell(before, a) # Cell(contents, a)

ObjectsRight == ListingRight /\ BinaryRight /\ StoredRight
=============================================================================
