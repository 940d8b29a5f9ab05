------------------------------ MODULE ByteFile ------------------------------
(***************************************************************************)
(* The bytecode file in memory: ByteFile::init divides it into sections,   *)
(* and the interpreter takes instructions from one and strings from        *)
(* another.  size_t is unsigned and has the width of int32_t, so that a    *)
(* negative size of the header becomes a large one and sums wrap around.   *)
(*                                                                         *)
(* Offsets are from the beginning of the file.  An address that is before  *)
(* it, or after its end, is an offset outside 0 .. sizeBytes - 1.          *)
(***************************************************************************)
EXTENDS Integers, FiniteSets

CONSTANTS
  Modulus,    \* 2^32
  IntBytes,   \* sizeof(int32_t)
  FileSizes   \* sizes of files, in bytes

HeaderBytes == 3 * IntBytes

ASSUME FileAssumption ==
  /\ Modulus \in Nat /\ IntBytes \in Nat \ {0} /\ Modulus % (2 * IntBytes) = 0
  /\ \A n \in FileSizes : n \in Nat /\ 2 * n < Modulus
  /\ HeaderBytes + 2 * IntBytes < Modulus

Int32 == (-(Modulus \div 2)) .. (Modulus \div 2 - 1)

SizeT(x) == x % Modulus

VARIABLES
  sizeBytes,
  header,        \* [strings, globals, symbols]: the three numbers in the file
  nul,           \* the offset of the only null character, or sizeBytes
  stringTable, stringTableSizeBytes,
  code, codeSizeBytes,
  instructionPointer,
  read,          \* [section, bytes] that the last step has read
  status         \* "new", "loaded", "rejected", "error"

sections == <<stringTable, stringTableSizeBytes, code, codeSizeBytes>>
file == <<sizeBytes, header, nul>>
byteFileVars == <<file, sections, instructionPointer, read, status>>

InFile == 0 .. (sizeBytes - 1)
codeEnd == code + codeSizeBytes

Nothing == [section |-> "none", bytes |-> {}]
Reads(section, from, to) == read' = [section |-> section, bytes |-> from .. to]

-----------------------------------------------------------------------------
\* publicSymbolsNum * 2 * sizeof(int32_t); one word of each symbol is a bug.
OneWordPerSymbol == SizeT(SizeT(header.symbols) * IntBytes)

SymbolTableBytes == SizeT(SizeT(header.symbols) * 2 * IntBytes)

\* currentOffset + size > sizeBytes, where the sum is a size_t.
Exceeds(offset, size) == SizeT(offset + size) > sizeBytes

Reject == status' = "rejected" /\ UNCHANGED <<file, sections, instructionPointer, read>>

\* The tests for negative sizes are of values of type size_t.
IsNegative(size) == SizeT(size) < 0

\* ByteFile::init and the constructor of Interpreter.
Load ==
  /\ status = "new"
  /\ IF \/ sizeBytes < HeaderBytes
        \/ IsNegative(header.strings) \/ IsNegative(header.globals) \/ IsNegative(header.symbols)
        \/ Exceeds(HeaderBytes, SymbolTableBytes)
        \/ Exceeds(SizeT(HeaderBytes + SymbolTableBytes), SizeT(header.strings))
       THEN Reject
       ELSE LET strings == SizeT(HeaderBytes + SymbolTableBytes)
                end == SizeT(strings + SizeT(header.strings))
            IN /\ stringTable' = strings /\ stringTableSizeBytes' = SizeT(header.strings)
               /\ code' = end /\ codeSizeBytes' = SizeT(sizeBytes - end)
               /\ instructionPointer' = end
               /\ status' = "loaded" /\ UNCHANGED <<file, read>>

\* runtimeError
Error == status' = "error" /\ UNCHANGED <<file, sections, instructionPointer, read>>

\* getAddressFor, whose result becomes the instruction pointer: a jump or a call.
AddressInCode(offset) == offset < codeSizeBytes

GoToAddress(offset) ==
  /\ status = "loaded"
  /\ IF ~AddressInCode(offset) THEN Error
     ELSE /\ instructionPointer' = code + offset /\ read' = Nothing
          /\ UNCHANGED <<file, sections, status>>

\* readByte (n = 1) and readWord (n = 4)
TooFarByOne(n) == instructionPointer > codeEnd

TooFar(n) == instructionPointer > codeEnd - n

ReadCode(n) ==
  /\ status = "loaded"
  /\ IF TooFar(n) THEN Error
     ELSE /\ Reads("code", instructionPointer, instructionPointer + n - 1)
          /\ instructionPointer' = instructionPointer + n
          /\ UNCHANGED <<file, sections, status>>

\* The string table, as pointers; the end is before the beginning when the size has
\* been a negative number.
TableEnd == SizeT(stringTable + stringTableSizeBytes)

\* std::find from offset on meets the null character: in the string table or, when
\* its end has been left behind, anywhere in the file.
TerminatedAnywhere(offset) == nul \in stringTable + offset .. sizeBytes - 1

Terminated(offset) ==
  LET from == stringTable + offset IN
    nul \in from .. (IF from <= TableEnd THEN TableEnd ELSE sizeBytes) - 1

\* getStringAt, and a use of the string that it returns.
GetStringAt(offset) ==
  LET from == stringTable + offset IN
    /\ status = "loaded"
    /\ IF offset >= stringTableSizeBytes \/ (from <= TableEnd /\ ~Terminated(offset)) THEN Error
       ELSE /\ Reads("strings", from, IF Terminated(offset) THEN nul ELSE sizeBytes)
            /\ UNCHANGED <<file, sections, instructionPointer, status>>

-----------------------------------------------------------------------------
Init ==
  /\ sizeBytes \in FileSizes
  /\ header \in [strings : Int32, globals : {0, -1}, symbols : Int32]
  /\ nul \in HeaderBytes .. sizeBytes
  /\ stringTable = 0 /\ stringTableSizeBytes = 0 /\ code = 0 /\ codeSizeBytes = 0
  /\ instructionPointer = 0 /\ read = Nothing /\ status = "new"

Next ==
  \/ Load
  \/ \E offset \in 0 .. (Modulus - 1) : GoToAddress(offset) \/ GetStringAt(offset)
  \/ \E n \in {1, IntBytes} : ReadCode(n)

Spec == Init /\ [][Next]_byteFileVars

-----------------------------------------------------------------------------
(* Properties                                                               *)

\* What the header says is not negative, and the size of the table of public symbols
\* and its end can be represented.
WellSized ==
  /\ header.strings >= 0 /\ header.symbols >= 0
  /\ HeaderBytes + header.symbols * 2 * IntBytes < Modulus

SectionBytes == HeaderBytes + header.symbols * 2 * IntBytes + header.strings

\* Header, symbols, strings and code follow each other and are the whole file.
SectionsTileFile ==
  status = "loaded" /\ WellSized =>
    /\ code = SectionBytes /\ code = stringTable + header.strings
    /\ codeEnd = sizeBytes /\ stringTableSizeBytes = header.strings

\* Whatever the header says - a size that wraps around included - instructions and
\* their operands are read from the code, which is a part of the file.
InstructionsInCode ==
  status = "loaded" /\ read.section = "code" =>
    /\ read.bytes \subseteq code .. (codeEnd - 1)
    /\ read.bytes \subseteq InFile

\* A string that an instruction uses ends in the string table.
StringsInTable ==
  WellSized /\ read.section = "strings" =>
    read.bytes \subseteq stringTable .. (stringTable + stringTableSizeBytes - 1)

-----------------------------------------------------------------------------
(* What the messages of init() say of the files that it accepts             *)

\* "string table size is negative", "global area size is negative" and "number of
\* public symbols is negative": files with such headers are invalid.
NegativeSizesRejected ==
  status = "loaded" => header.strings >= 0 /\ header.globals >= 0 /\ header.symbols >= 0

=============================================================================
